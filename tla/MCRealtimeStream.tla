-------------------------- MODULE MCRealtimeStream --------------------------
(* RealtimeStream for TLC: what the subscriptions ask for.                   *)
EXTENDS RealtimeStream, TLC
CONSTANTS s1, s2

\* One subscription takes every event, the other leaves one out.
Filters == s1 :> Events @@ s2 :> Events \ {2}
=============================================================================
