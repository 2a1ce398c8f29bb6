-------------------------- MODULE EdgeCommandPromise --------------------------
(***************************************************************************)
(* What the edge command queue promises of each command, whatever happens  *)
(* to the others: the docstring of                                         *)
(* src/custom_components/svitgrid/edge_command_queue.py as a state machine.*)
(* One step of the queue may move several commands: a sweep, a supersede   *)
(* and a forgotten box do.                                                 *)
(***************************************************************************)
EXTENDS Naturals

CONSTANTS Commands, MaxDeliveries

VARIABLES stage, given

vars == <<stage, given>>

Init == stage = [c \in Commands |-> "none"] /\ given = [c \in Commands |-> 0]

Keeps(c) == given'[c] = given[c]
Becomes(c, from, to) == stage[c] \in from /\ stage'[c] = to

\* pending until a poll hands it out, then delivered: at most MaxDeliveries
\* times.
Queue(c) == Becomes(c, {"none"}, "pending") /\ Keeps(c)
HandOut(c) ==
    /\ Becomes(c, {"pending"}, "delivered")
    /\ given[c] < MaxDeliveries
    /\ given'[c] = given[c] + 1

\* A delivery nobody acked goes back while it may be handed out again.
GiveBack(c) ==
    Becomes(c, {"delivered"}, "pending") /\ given[c] < MaxDeliveries /\ Keeps(c)

Expire(c) == Becomes(c, {"pending", "delivered"}, "expired") /\ Keeps(c)

\* The box answers what it was handed, late answers included, and the first
\* answer is the last.
Answer(c) ==
    /\ stage[c] \in {"pending", "delivered", "expired"}
    /\ stage'[c] \in {"success", "failed"}
    /\ given[c] > 0
    /\ Keeps(c)

Forget(c) ==
    stage[c] \notin {"none", "forgotten"} /\ stage'[c] = "forgotten" /\ given'[c] = 0

Moves(c) == Queue(c) \/ HandOut(c) \/ GiveBack(c) \/ Expire(c) \/ Answer(c) \/ Forget(c)

Next == \A c \in Commands : Moves(c) \/ (stage'[c] = stage[c] /\ Keeps(c))

Spec == Init /\ [][Next]_vars

\* No command stays pending or delivered for good.
Settles == \A c \in Commands : stage[c] = "pending" ~> stage[c] \notin {"pending", "delivered"}
=============================================================================
