---------------------------- MODULE ChatMailbox ----------------------------
(* ChatOutboundMailbox (main/chat_outbound_mailbox.h): the two-slot queue, the *)
(* single job in the worker's hands and the single completion that pass       *)
(* between the application task and the chat_outbound worker, and the          *)
(* generation by which the application revokes all of them without a lock.     *)
(*                                                                             *)
(* Every Try* operation takes the mutex with try_lock; an operator here is the *)
(* critical section, and its caller chooses between it and contention.         *)
EXTENDS Integers, Sequences, FiniteSets

CONSTANT Exhausted     \* kExhausted, UINT32_MAX in the code
ASSUME MailboxAssumption == Exhausted \in Nat \ {0}

VARIABLES generation, queue, active, completion
mailboxVars == <<generation, queue, active, completion>>

\* A job carries the identity it was submitted under: the generation, the
\* connection epoch of the activation and, for a text, its owner's connection.
NoJob == [id |-> 0, gen |-> 0, epoch |-> 0, kind |-> "none", ref |-> 0,
          source |-> 0]
NoCompletion == [job |-> NoJob, result |-> "Failed", stale |-> FALSE]
Results == {"Sent", "Busy", "Stale", "Failed"}

MailboxInit ==
    /\ generation = 0 /\ queue = <<>> /\ active = NoJob
    /\ completion = NoCompletion

-----------------------------------------------------------------------------
\* A generation is current while no later one is published; the saturated
\* value never is.
IsCurrentIn(g, latest) == g # 0 /\ g # Exhausted /\ latest = g
IsCurrent(g) == IsCurrentIn(g, generation)

AdvancedPastLimit(g) == g + 1          \* variant: forgets the saturation
Advanced(g) == IF g = Exhausted THEN Exhausted ELSE g + 1

\* CompactQueue: queued jobs of a retired generation vanish uncompleted.
Live(slot) == IF slot \in DOMAIN queue /\ IsCurrent(queue[slot].gen)
              THEN <<queue[slot]>> ELSE <<>>
CompactQueue == Live(1) \o Live(2)

\* The jobs the next critical section still finds.
QueuedIds == {CompactQueue[i].id : i \in DOMAIN CompactQueue}
PendingIds == (QueuedIds \cup {active.id, completion.job.id}) \ {0}

-----------------------------------------------------------------------------
\* Application side.

CanSubmit(job) ==
    /\ IsCurrent(job.gen)
    /\ job.id \notin PendingIds
    /\ Len(CompactQueue) < 2
TrySubmit(job) == CanSubmit(job) /\ queue' = Append(CompactQueue, job)

\* Collecting judges the completion by the generation published last.
CanCollect == completion # NoCompletion
Judged(c, latest) == [c EXCEPT !.stale = ~IsCurrentIn(c.job.gen, latest)]

-----------------------------------------------------------------------------
\* Worker side.

CanTake == active = NoJob /\ completion = NoCompletion /\ CompactQueue # <<>>
TryTake ==
    /\ CanTake
    /\ active' = Head(CompactQueue)
    /\ queue' = Tail(CompactQueue)

CanComplete(job) == active = job /\ job # NoJob /\ completion = NoCompletion
TryComplete(job, result) ==
    /\ CanComplete(job)
    /\ completion' = [job |-> job, result |-> result, stale |-> FALSE]
    /\ active' = NoJob

\* Both sides. The compaction it performs is invisible: every reader of the
\* queue compacts it first.
TryIdle == CompactQueue = <<>> /\ active = NoJob /\ completion = NoCompletion
=============================================================================
