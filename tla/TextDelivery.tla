---------------------------- MODULE TextDelivery ----------------------------
(* What RequestChatConnectionText promises its callers: texts are accepted in  *)
(* order, each reaches the wire at most once and never before an earlier one   *)
(* that does, and each is reported exactly once, in order, as Sent only if it  *)
(* is on the wire; nothing is written for a text already reported.             *)
EXTENDS Naturals, Sequences

CONSTANT MaxTexts

VARIABLES accepted, log, told
deliveryVars == <<accepted, log, told>>

Outcomes == {"Sent", "Failed", "Cancelled"}

DeliveryInit ==
    /\ accepted = 0 /\ log = <<>>
    /\ told = [r \in 1 .. MaxTexts |-> "none"]

Accept ==
    /\ accepted < MaxTexts
    /\ accepted' = accepted + 1
    /\ UNCHANGED <<log, told>>

WriteText(r) ==
    /\ told[r] = "none"
    /\ \A i \in DOMAIN log : log[i] < r
    /\ log' = Append(log, r)
    /\ UNCHANGED <<accepted, told>>

Tell(r, o) ==
    /\ told[r] = "none"
    /\ \A s \in 1 .. (r - 1) : told[s] # "none"
    /\ o = "Sent" => \E i \in DOMAIN log : log[i] = r
    /\ told' = [told EXCEPT ![r] = o]
    /\ UNCHANGED <<accepted, log>>

DeliveryNext ==
    \/ Accept
    \/ \E r \in 1 .. accepted : WriteText(r) \/ \E o \in Outcomes : Tell(r, o)

DeliverySpec == DeliveryInit /\ [][DeliveryNext]_deliveryVars

\* Nobody waits for ever: an accepted text is reported.
Telling == \E r \in 1 .. accepted : \E o \in Outcomes : Tell(r, o)
FairDeliverySpec == DeliverySpec /\ WF_deliveryVars(Telling)
=============================================================================
