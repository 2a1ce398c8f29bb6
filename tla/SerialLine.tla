----------------------------- MODULE SerialLine -----------------------------
(***************************************************************************)
(* What one collector connection promises to those who share its line: one *)
(* request at a time, each put on the line once, an answer given to the    *)
(* asker of the request on the line and, if it asks one thing at a time,   *)
(* only while that is what it asks; nothing after the connection is gone.  *)
(* The module docstring of eybond_at/scheduler.py as a state machine.      *)
(***************************************************************************)
EXTENDS Naturals, Sequences

CONSTANTS Askers, Callers    \* Callers ask one thing at a time

VARIABLES
    asked,    \* per asker, how many requests it has made
    sent,     \* per asker, the number of its request last put on the line
    answer,   \* per asker, the number of its request last answered to it
    wire,     \* what is on the line: no request or one, <<asker, number>>
    closed

promised == <<asked, sent, answer, wire, closed>>

Init ==
    /\ asked = [a \in Askers |-> 0]
    /\ sent = [a \in Askers |-> 0]
    /\ answer = [a \in Askers |-> 0]
    /\ wire = <<>>
    /\ closed = FALSE

\* The line is put to a request that was made and never put on it before.
PutsOn(a) ==
    /\ sent[a] < sent'[a]
    /\ sent'[a] <= asked'[a]
    /\ wire' = <<<<a, sent'[a]>>>>
    /\ ~closed

\* The asker of the request on the line is answered, as that leaves it.
Answers(a) ==
    /\ wire # <<>>
    /\ a = wire[1][1]
    /\ answer'[a] = wire[1][2]
    /\ a \in Callers => answer'[a] = asked[a]
    /\ wire' # wire

Next ==
    /\ \A a \in Askers :
        /\ asked'[a] \in {asked[a], asked[a] + 1}
        /\ sent'[a] = sent[a] \/ PutsOn(a)
        /\ answer'[a] = answer[a] \/ Answers(a)
    /\ wire' \in {wire, <<>>} \/ \E a \in Askers : PutsOn(a)
    /\ closed => closed'

Spec == Init /\ [][Next]_promised

\* Who does not give up is put on the line sooner or later.
Serves == \A a \in Askers \ Callers : []<>(sent[a] = asked[a] \/ closed)
=============================================================================
