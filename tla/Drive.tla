------------------------------- MODULE Drive --------------------------------
(***************************************************************************)
(* What the st driver asks of its users: one open descriptor at a time, a  *)
(* second open gets EBUSY (internal/iface/web/tapegate.go, the comment at  *)
(* its head).  The abstract specification that TapeGate implements.        *)
(***************************************************************************)
CONSTANTS
  Users,    \* whoever may open the device
  Nobody    \* no open descriptor

VARIABLE owner

Init == owner = Nobody

Open(u) == owner = Nobody /\ owner' = u

Close(u) == owner = u /\ owner' = Nobody

Next == \E u \in Users : Open(u) \/ Close(u)

Spec == Init /\ [][Next]_owner
=============================================================================
