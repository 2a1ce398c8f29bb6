---------------------------- MODULE CollectorHub ----------------------------
(***************************************************************************)
(* EybondAtHub (eybond_at/hub.py): one listener for all collectors of the  *)
(* LAN, who they are, when they are called, and the harvest loop of each   *)
(* paired inverter (eybond_at/harvest.py).  CollectorLine is one of its    *)
(* connections.                                                            *)
(*                                                                         *)
(* A collector is known by its serial.  `sessions` is in the order of the  *)
(* code's dict.  `live` is the collector's side of a connection: a power   *)
(* cut or a redial leaves the hub a socket that is dead and still open.    *)
(***************************************************************************)
EXTENDS Naturals, Sequences, FiniteSets

CONSTANTS
    Collectors,       \* serials of the collectors on the LAN
    Paired,           \* those of them an inverter is configured for
    Addresses,        \* where they may be
    Dialable,         \* addresses that are not a NAT gateway's
    NoSerial,         \* stands for "not identified"
    MaxSessions,      \* HubConfig.max_sessions
    MaxMishaps        \* bound: power cuts, moves, failed identifications

ASSUME HubAssumption ==
    /\ Paired \subseteq Collectors
    /\ IsFiniteSet(Paired) /\ Paired # {}
    /\ Dialable \subseteq Addresses
    /\ NoSerial \notin Collectors
    /\ MaxSessions \in Nat
    /\ MaxMishaps \in Nat

VARIABLES
    sessions,   \* hub._sessions
    known,      \* hub._known_addresses
    place,      \* per collector, its address
    aware,      \* per collector, does it still know our server?
    loop,       \* per paired inverter, where its harvest loop is
    mishaps

hubVars == <<sessions, known, place, aware, loop, mishaps>>

Session == [of : Collectors, address : Addresses, serial : Collectors \cup {NoSerial},
            phase : {"asking", "serial", "failed", "done"},
            live : BOOLEAN, open : BOOLEAN, bound : BOOLEAN]

HubInit ==
    /\ sessions = <<>>
    /\ known = {}
    /\ place \in {f \in [Collectors -> Addresses] :
                    \A c, d \in Collectors : f[c] = f[d] => c = d}
    /\ aware = [c \in Collectors |-> FALSE]
    /\ loop = [p \in Paired |-> "look"]
    /\ mishaps = 0

-----------------------------------------------------------------------------
(* Who is called: _send_announce.                                          *)

Live(c) == \E i \in DOMAIN sessions : sessions[i].of = c /\ sessions[i].live

\* A session counts once it has identified itself as one of ours.
Here == Cardinality({i \in DOMAIN sessions : sessions[i].serial \in Paired})
Expected == Cardinality(Paired)

Reachable == known \cap Dialable
Connected == {sessions[i].address : i \in DOMAIN sessions}

\* Broadcast while somebody has never been met, unicast to who is missing.
BroadcastsTooLate == Cardinality(Reachable) > Expected  \* mutant
Broadcasts == Cardinality(Reachable) < Expected
Called(c) ==
    /\ Here < Expected
    /\ Broadcasts \/ place[c] \in Reachable \ Connected

-----------------------------------------------------------------------------
(* Connections.                                                            *)

\* _on_connection: the collector's former socket is dead from now on, without
\* the hub knowing.  A full hub refuses.
Dial(c) ==
    LET before == [i \in DOMAIN sessions |->
                      [sessions[i] EXCEPT !.live = @ /\ sessions[i].of # c]]
        new == [of |-> c, address |-> place[c], serial |-> NoSerial,
                phase |-> "asking", live |-> TRUE, open |-> TRUE, bound |-> FALSE]
    IN  IF Len(sessions) >= MaxSessions
        THEN sessions' = before /\ UNCHANGED known
        ELSE sessions' = Append(before, new) /\ known' = known \cup {place[c]}

\* A collector hears the announce and dials, even when it is connected.
Hear(c) ==
    /\ Called(c)
    /\ Dial(c)
    /\ aware' = [aware EXCEPT ![c] = TRUE]
    /\ UNCHANGED <<place, loop, mishaps>>

\* A collector whose connection broke dials the server it remembers.
Redial(c) ==
    /\ aware[c]
    /\ ~Live(c)
    /\ Dial(c)
    /\ UNCHANGED <<place, aware, loop, mishaps>>

\* identify: the mandatory reads, the serial among them, were answered.
ReadSerial(i) ==
    /\ sessions[i].phase = "asking"
    /\ sessions[i].open
    /\ sessions[i].live
    /\ sessions' = [sessions EXCEPT ![i].phase = "serial"]
    /\ UNCHANGED <<known, place, aware, loop, mishaps>>

\* The sessions at some of the positions, in their order.
Kept(s, ks) ==
    [k \in 1..Cardinality(ks) |->
        s[CHOOSE i \in ks : Cardinality({j \in ks : j <= i}) = k]]

\* The optional reads were answered or failed, the latter also because the
\* session is closed by now; the identity is set and every other session of
\* that serial is closed and forgotten.
Superseded(i, j) == j # i /\ sessions[j].serial = sessions[i].of
Identified(i) ==
    [sessions EXCEPT ![i].phase = "done", ![i].serial = sessions[i].of]
Identify(i) ==
    /\ sessions[i].phase = "serial"
    /\ sessions' = Kept(Identified(i), {j \in DOMAIN sessions : ~Superseded(i, j)})
    /\ UNCHANGED <<known, place, aware, loop, mishaps>>

\* A mandatory read failed and the line did not: nobody asks again.
FailToIdentify(i) ==
    /\ sessions[i].phase = "asking"
    /\ mishaps < MaxMishaps
    /\ sessions' = [sessions EXCEPT ![i].phase = "failed"]
    /\ mishaps' = mishaps + 1
    /\ UNCHANGED <<known, place, aware, loop>>

\* The session closes itself: a dead line times out, with the heartbeat if
\* nobody else asks, and a live one may break as well.
Break(i) ==
    /\ sessions[i].open
    /\ \/ ~sessions[i].live /\ UNCHANGED mishaps
       \/ sessions[i].live /\ mishaps < MaxMishaps /\ mishaps' = mishaps + 1
    /\ sessions' = [sessions EXCEPT ![i].open = FALSE, ![i].live = FALSE]
    /\ UNCHANGED <<known, place, aware, loop>>

\* _on_connection's finally: identification is cancelled, the session popped.
PopSession(i) ==
    /\ ~sessions[i].open
    /\ sessions' = Kept(sessions, DOMAIN sessions \ {i})
    /\ UNCHANGED <<known, place, aware, loop, mishaps>>

\* A power cut: the collector may forget our server and get another address.
PowerCut(c) ==
    /\ mishaps < MaxMishaps
    /\ mishaps' = mishaps + 1
    /\ sessions' = [i \in DOMAIN sessions |->
                      [sessions[i] EXCEPT !.live = @ /\ sessions[i].of # c]]
    /\ aware' = [aware EXCEPT ![c] = FALSE] \/ UNCHANGED aware
    /\ \E a \in Addresses :
          /\ \A d \in Collectors \ {c} : place[d] # a
          /\ place' = [place EXCEPT ![c] = a]
    /\ UNCHANGED <<known, loop>>

\* stop and start: the entry is reloaded.
Restart ==
    /\ mishaps < MaxMishaps
    /\ mishaps' = mishaps + 1
    /\ sessions' = <<>>
    /\ known' = {}
    /\ loop' = [p \in Paired |-> "look"]
    /\ UNCHANGED <<place, aware>>

-----------------------------------------------------------------------------
(* run_eybond_harvest_loop of the inverter with serial p.                  *)

\* session_for: the first session that says it is p, open or not.
SessionFor(p) == {i \in DOMAIN sessions :
                    /\ sessions[i].serial = p
                    /\ \A j \in 1..(i - 1) : sessions[j].serial # p}

\* A session it was not bound to before gets a fresh reader; with none the
\* loop waits for a change.
Look(p) ==
    /\ loop[p] = "look"
    /\ sessions' = [i \in DOMAIN sessions |->
          IF sessions[i].serial = p
          THEN [sessions[i] EXCEPT !.bound = i \in SessionFor(p)] ELSE sessions[i]]
    /\ loop' = [loop EXCEPT ![p] = IF SessionFor(p) = {} THEN "wait" ELSE "poll"]
    /\ UNCHANGED <<known, place, aware, mishaps>>

\* A poll on a live connection appends its reading; on any other, it fails.
\* Either way the loop sleeps, a failed first poll for a shorter time.
Bound(p) == {i \in DOMAIN sessions : sessions[i].serial = p /\ sessions[i].bound}
Poll(p) ==
    /\ loop[p] = "poll"
    /\ loop' = [loop EXCEPT ![p] =
          IF \E i \in Bound(p) : sessions[i].live THEN "read" ELSE "failed"]
    /\ UNCHANGED <<sessions, known, place, aware, mishaps>>

\* The sleep is over, the wait too: on a change of the sessions or after 30 s.
Wake(p) ==
    /\ loop[p] \in {"wait", "read", "failed"}
    /\ loop' = [loop EXCEPT ![p] = "look"]
    /\ UNCHANGED <<sessions, known, place, aware, mishaps>>

-----------------------------------------------------------------------------
HubNext ==
    \/ \E c \in Collectors : Hear(c) \/ Redial(c) \/ PowerCut(c)
    \/ \E i \in DOMAIN sessions :
          ReadSerial(i) \/ Identify(i) \/ FailToIdentify(i) \/ Break(i) \/ PopSession(i)
    \/ Restart
    \/ \E p \in Paired : Look(p) \/ Poll(p) \/ Wake(p)

HubSpec == HubInit /\ [][HubNext]_hubVars

\* Tasks go on; a collector that is called again and again hears it, since
\* announces are lost but not for ever, and one that remembers us dials; a
\* line that answers answers.  Nobody has to fail or to move.
HubFair ==
    /\ \A c \in Collectors : SF_hubVars(Hear(c)) /\ WF_hubVars(Redial(c))
    /\ \A k \in 1..MaxSessions :
          /\ WF_hubVars(k \in DOMAIN sessions /\ ReadSerial(k))
          /\ WF_hubVars(k \in DOMAIN sessions /\ Identify(k))
          /\ WF_hubVars(k \in DOMAIN sessions /\ ~sessions[k].live /\ Break(k))
          /\ WF_hubVars(k \in DOMAIN sessions /\ PopSession(k))
    /\ \A p \in Paired : WF_hubVars(Look(p) \/ Poll(p) \/ Wake(p))

-----------------------------------------------------------------------------
(* Properties.                                                             *)

HubTypeOK ==
    /\ sessions \in Seq(Session) /\ Len(sessions) <= MaxSessions
    /\ known \subseteq Addresses
    /\ place \in [Collectors -> Addresses]
    /\ aware \in [Collectors -> BOOLEAN]
    /\ loop \in [Paired -> {"look", "wait", "poll", "read", "failed"}]
    /\ mishaps \in 0..MaxMishaps

\* However redials and identifications interleave, one connection at most
\* serves an inverter: two loops would share its line (hub.py:408-419).
OneSessionPerInverter ==
    \A i, j \in DOMAIN sessions :
        (sessions[i].serial = sessions[j].serial /\ sessions[i].serial # NoSerial) => i = j

Home(p) == \E i \in SessionFor(p) : sessions[i].live

\* Where the addresses the hub has met are those of paired collectors and
\* nobody is left unidentified, every paired collector is found again and
\* again and read, whatever was cut or restarted before.
FamiliarOnly ==
    /\ known \subseteq {place[p] : p \in Paired}
    /\ \A i \in DOMAIN sessions : sessions[i].phase # "failed"
PairedIsRead ==
    HubFair /\ <>[]FamiliarOnly => \A p \in Paired : []<>(loop[p] = "read")

\* "a second, UNPAIRED collector on the LAN dialling in first would otherwise
\* silence the announce for the paired one for ever" (hub.py:115-117): it does.
StrangerDoesNotSilence == HubFair => \A p \in Paired : <>Home(p)
=============================================================================
