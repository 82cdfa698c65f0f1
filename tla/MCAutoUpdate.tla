----------------------------- MODULE MCAutoUpdate -----------------------------
EXTENDS AutoUpdate

\* The Go binary, built anew for every release, and one tool that is not; in
\* the order of the script's array.
TwoAssets == <<"bedehus", "bedehus-on">>
OneUnchanged == {"bedehus-on"}
OneService == {"bedehus"}
=============================================================================
