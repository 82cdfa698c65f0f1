------------------------------ MODULE MillCloud ------------------------------
(***************************************************************************)
(* MillCloudClient of scripts/temperature_logger.py: one client of the Mill *)
(* cloud in one process.  ensure_login runs at the head of every call and   *)
(* signs in, refreshes or trusts the token it has; then come the requests   *)
(* of the call.  The clock is the client's, from the start of its process.  *)
(*                                                                          *)
(* External: the cloud issues a token when the request reaches it and it    *)
(* lives as long as the reply tells; the client counts from the moment it    *)
(* has the reply.  A reply of a healthy cloud takes up to Timeout; requests'  *)
(* timeout bounds only each silence in it, so a slow one may take longer.    *)
(* The 30 seconds that the client takes off are Margin, the 600 seconds it   *)
(* assumes are Default.  MaxClock bounds the clock.  A client begins and     *)
(* ends with its process.                                                   *)
(***************************************************************************)
EXTENDS Integers

CONSTANTS Margin, Timeout, Default, Lifetimes, MaxClock

ASSUME CloudAssumption ==
  /\ Timeout \in Nat /\ Margin \in Nat
  /\ Lifetimes \subseteq Nat /\ Default \in Nat \ {0}
  /\ MaxClock \in Nat

VARIABLES
  cpc,        \* "idle", "ensure", "signIn", "refresh", "get" or "error"
  clock,
  sentAt,     \* when the sign-in or refresh under way was sent
  hasToken,   \* _token is set
  hasRefresh, \* _refresh is set
  hasExpiry,  \* _token_expires_at is set
  expiresAt,  \* _token_expires_at
  liveUntil,  \* cloud: the token is accepted before this time
  repliedAt,  \* history: when the token came
  checkedAt   \* history: when ensure_login last returned

client == <<hasToken, hasRefresh, hasExpiry, expiresAt, liveUntil, repliedAt>>
cloudVars == <<cpc, clock, sentAt, client, checkedAt>>

CloudInit ==
  /\ cpc = "idle" /\ clock = 0
  /\ hasToken = FALSE /\ hasRefresh = FALSE /\ hasExpiry = FALSE
  /\ expiresAt = 0 /\ liveUntil = 0
  /\ sentAt = 0 /\ repliedAt = 0 /\ checkedAt = 0

\* A process ends, and with it its client; the next one has its own.
NewClient ==
  /\ cpc' = "idle" /\ clock' = 0
  /\ hasToken' = FALSE /\ hasRefresh' = FALSE /\ hasExpiry' = FALSE
  /\ expiresAt' = 0 /\ liveUntil' = 0
  /\ sentAt' = 0 /\ repliedAt' = 0 /\ checkedAt' = 0

\* fetch_device_status, list_houses, list_devices_for_house, list_devices
Call ==
  /\ cpc = "idle"
  /\ cpc' = "ensure"
  /\ UNCHANGED <<clock, sentAt, client, checkedAt>>

Send(kind) == cpc' = kind /\ sentAt' = clock /\ UNCHANGED <<clock, client, checkedAt>>

Expired == hasExpiry /\ clock >= expiresAt

EnsureLogin ==
  /\ cpc = "ensure"
  /\ \/ ~hasToken /\ Send("signIn")
     \/ hasToken /\ Expired /\ Send(IF hasRefresh THEN "refresh" ELSE "signIn")
     \/ /\ hasToken /\ ~Expired
        /\ cpc' = "get" /\ checkedAt' = clock
        /\ UNCHANGED <<clock, sentAt, client>>

\* Slip: no margin.
ExpiryLate(life) == clock + life
Expiry(life) == clock + life - Margin

\* _parse_tokens: a lifetime that the reply does not tell counts as Default; a
\* lifetime of 0 leaves the expiry as it was.
LoggedIn(refresh) ==
  /\ \E life \in Lifetimes \cup {Default} :
       /\ expiresAt' = (IF life = 0 THEN expiresAt ELSE Expiry(life))
       /\ hasExpiry' = (hasExpiry \/ life # 0)
       /\ liveUntil' = sentAt + life
  /\ hasToken' = TRUE /\ hasRefresh' = refresh
  /\ cpc' = "get" /\ checkedAt' = clock /\ repliedAt' = clock
  /\ UNCHANGED <<clock, sentAt>>

SignIn == cpc = "signIn" /\ \E refresh \in BOOLEAN : LoggedIn(refresh)

\* _refresh_token: a reply without a refresh token leaves the old one.
RefreshToken == cpc = "refresh" /\ LoggedIn(TRUE)

\* 401: the refresh token is not valid any more, sign in.
RefreshRefused == cpc = "refresh" /\ Send("signIn")

\* The requests of the call, the last of them with a token that still lives.
Fetched ==
  /\ cpc = "get" /\ clock < liveUntil
  /\ cpc' = "idle"
  /\ UNCHANGED <<clock, sentAt, client, checkedAt>>

\* A status of 400 or more (401 for a dead token), a timeout, a reply without
\* a token or without temperatures: an exception ends the call.
CloudFails(outage) ==
  /\ cpc \in {"signIn", "refresh", "get"}
  /\ outage \/ (cpc = "get" /\ clock >= liveUntil)
  /\ cpc' = "error"
  /\ UNCHANGED <<clock, sentAt, client, checkedAt>>

\* Waiting for a reply, up to Timeout unless it is slow; or between calls.
CloudTick(slow) ==
  /\ clock < MaxClock
  /\ slow \/ /\ cpc \in {"signIn", "refresh"} => clock - sentAt < Timeout
             /\ cpc = "get" => clock - checkedAt < Timeout
  /\ clock' = clock + 1
  /\ UNCHANGED <<cpc, sentAt, client, checkedAt>>

Login == EnsureLogin \/ SignIn \/ RefreshToken \/ RefreshRefused

-----------------------------------------------------------------------------
CloudTypeOK ==
  /\ cpc \in {"idle", "ensure", "signIn", "refresh", "get", "error"}
  /\ clock \in 0..MaxClock /\ sentAt \in Nat /\ checkedAt \in Nat
  /\ hasToken \in BOOLEAN /\ hasRefresh \in BOOLEAN /\ hasExpiry \in BOOLEAN
  /\ expiresAt \in Int /\ liveUntil \in Nat /\ repliedAt \in Nat

(* The 30 seconds pay for two delays, and for nothing else: a token that    *)
(* lives longer than Margin is still alive when a request goes out, as long *)
(* as what its own reply took and what passed since its check are together  *)
(* no more than Margin.  A token that lives shorter, or a later request of  *)
(* list_devices, has no such promise (temperature_logger.py:578-612).       *)
TokenInTime ==
  (/\ cpc = "get" /\ liveUntil - sentAt > Margin
   /\ (repliedAt - sentAt) + (clock - checkedAt) <= Margin)
    => clock < liveUntil
=============================================================================
