------------------------------ MODULE Channel -------------------------------
(***************************************************************************)
(* What the export pipeline promises about a serialised request: the parts  *)
(* it is sent in may be lost at any time, but each reaches the collector no *)
(* more often than one sending of the request makes copies of it, and only  *)
(* after a process has exported the request.                                *)
(***************************************************************************)
EXTENDS Naturals

CONSTANTS Msgs,     \* requests
          Parts,    \* the parts one may be sent in
          Copies    \* how many datagrams one sending makes of every part

VARIABLES fresh,    \* requests not exported yet
          arrivals  \* how often every part reached the collector

Datagrams == Msgs \X (1 .. Parts)

Init == fresh = Msgs /\ arrivals = [d \in Datagrams |-> 0]

Export(m) ==
    /\ m \in fresh
    /\ fresh' = fresh \ {m}
    /\ UNCHANGED arrivals

Arrive(d) ==
    /\ d[1] \notin fresh
    /\ arrivals[d] < Copies[d]
    /\ arrivals' = [arrivals EXCEPT ![d] = @ + 1]
    /\ UNCHANGED fresh

Next == (\E m \in Msgs : Export(m)) \/ (\E d \in Datagrams : Arrive(d))

Spec == Init /\ [][Next]_<<fresh, arrivals>>
=============================================================================
