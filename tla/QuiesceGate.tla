----------------------------- MODULE QuiesceGate -----------------------------
(***************************************************************************)
(* What the lease gate promises: users come and go while it is open; once  *)
(* it is being closed nobody comes in; it is closed when the last user has *)
(* left, and stays empty until it is opened again.                         *)
(***************************************************************************)
CONSTANT Users
VARIABLES inside, gate

Init == inside = {} /\ gate = "open"

Enter(u) == gate = "open" /\ inside' = inside \union {u} /\ UNCHANGED gate

Leave(u) == u \in inside /\ inside' = inside \ {u} /\ UNCHANGED gate

Close == gate' = "closing" /\ UNCHANGED inside

Closed == gate = "closing" /\ inside = {} /\ gate' = "closed" /\ UNCHANGED inside

Open == gate = "closed" /\ gate' = "open" /\ UNCHANGED inside

Next == (\E u \in Users : Enter(u) \/ Leave(u)) \/ Close \/ Closed \/ Open

Spec == Init /\ [][Next]_<<inside, gate>>
=============================================================================
