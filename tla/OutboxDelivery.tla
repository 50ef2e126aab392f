---------------------------- MODULE OutboxDelivery ----------------------------
(***************************************************************************)
(* What the outbox promises for every domain event, whatever fails in      *)
(* between: once its transaction has committed the event is handed to the  *)
(* event bus at least once and at most MaxAttempts times, and it ends as   *)
(* done after a successful hand-over or as dead after MaxAttempts of them. *)
(* done and dead are final.  Queues, jobs and processes do not appear.     *)
(***************************************************************************)
EXTENDS Naturals

CONSTANTS Events, MaxAttempts

VARIABLES
    state,      \* the life of each event
    deliveries  \* how many times it was handed to the event bus

vars == <<state, deliveries>>

State == {"unborn", "due", "taken", "handed", "done", "dead"}

Init ==
    /\ state = [e \in Events |-> "unborn"]
    /\ deliveries = [e \in Events |-> 0]

Move(e, from, to) ==
    /\ state[e] = from
    /\ state' = [state EXCEPT ![e] = to]

Accept(e) == Move(e, "unborn", "due") /\ UNCHANGED deliveries

Take(e) == Move(e, "due", "taken") /\ UNCHANGED deliveries

HandOver(e) ==
    /\ Move(e, "taken", "handed")
    /\ deliveries' = [deliveries EXCEPT ![e] = @ + 1]

Finish(e) == Move(e, "handed", "done") /\ UNCHANGED deliveries

TryAgain(e) ==
    /\ Move(e, "handed", "due")
    /\ deliveries[e] < MaxAttempts
    /\ UNCHANGED deliveries

GiveUp(e) ==
    /\ Move(e, "handed", "dead")
    /\ deliveries[e] = MaxAttempts
    /\ UNCHANGED deliveries

Settle(e) == Finish(e) \/ TryAgain(e) \/ GiveUp(e)

Next == \E e \in Events : Accept(e) \/ Take(e) \/ HandOver(e) \/ Settle(e)

Spec == Init /\ [][Next]_vars

\* An accepted event is eventually done or dead.
FairSpec ==
    Spec /\ \A e \in Events : WF_vars(Take(e) \/ HandOver(e) \/ Settle(e))
=============================================================================
