SPECIFICATION Spec
CONSTANTS
    Bookings <- OneBooking
    Window = 2
    MaxAge = 2
    MaxTime = 5
    MaxRows = 3
INVARIANTS UnderWayIsHeated HeatedForABooking CancelledStaysCancelled
