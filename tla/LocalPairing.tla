----------------------------- MODULE LocalPairing -----------------------------
(***************************************************************************)
(* How a phone gets into Home Assistant: the pairing dialog of the config  *)
(* flow, the code it shows and /hello publishes, the signed-in apps that   *)
(* claim it through the cloud and the phones that claim it on the LAN with *)
(* pair-local, the owner who approves or rejects the one the dialog names, *)
(* and the station, or the keys on one that is there, it ends with.        *)
(*                                                                         *)
(* A request is one pair-local call: a phone that asks again is another.   *)
(* A dialog is one config flow; several may be open, in several browsers.  *)
(***************************************************************************)
EXTENDS Naturals

CONSTANTS
    Requests,   \* pair-local calls
    Dialogs,    \* config flows
    MaxCodes,   \* bound: codes shown
    MaxWrong,   \* LOCAL_PAIRING_MAX_WRONG_CODES
    Nobody      \* no request

ASSUME PairingAssumption ==
    /\ MaxCodes \in Nat \ {0} /\ MaxWrong \in Nat \ {0}
    /\ Nobody \notin Requests

Codes == 1..MaxCodes
NoCode == 0
Roles == {"control", "view"}

VARIABLES
    session,    \* per code, its PendingPairing
    shownCodes, \* how many codes were shown so far
    offered,    \* hass.data: the session pair-local answers for
    published,  \* hass.data: the code /hello shows
    dialog,     \* per config flow: its step, and what it holds
    asker,      \* per pair-local call: where it is, for which session
    claims,     \* the cloud: the codes an app claimed there
    station,    \* per code, the config entry it led to
    keyed, trusted,   \* the phones given an island key; a trusted signing key
    yes         \* what the owner approved, by the name on the screen

lpVars == <<session, shownCodes, offered, published, dialog, asker, claims, station,
            keyed, trusted, yes>>

Unclaimed ==
    [wrong |-> 0, by |-> "none", shut |-> FALSE, candidate |-> Nobody, won |-> Nobody,
     cloud |-> FALSE, added |-> FALSE, failed |-> FALSE, over |-> FALSE]
Unopened ==
    [step |-> "unopened", code |-> NoCode, joins |-> NoCode, seen |-> "nothing",
     poll |-> "none", shown |-> Nobody, role |-> "none", again |-> FALSE]

\* With no station, or with one that was paired through the cloud before.
LpInit ==
    /\ shownCodes \in {0, 1}
    /\ session = [c \in Codes |-> [Unclaimed EXCEPT !.by = IF c <= shownCodes THEN "cloud" ELSE @]]
    /\ offered = NoCode /\ published = NoCode
    /\ dialog = [d \in Dialogs |-> Unopened]
    /\ asker = [r \in Requests |-> [at |-> "idle", code |-> NoCode]]
    /\ claims = {}
    /\ station = [c \in Codes |-> IF c <= shownCodes THEN "here" ELSE "none"]
    /\ keyed = {} /\ trusted = {} /\ yes = (1..shownCodes) \X {"cloud"}

-----------------------------------------------------------------------------
(* A PendingPairing.                                                       *)

Stations == {c \in Codes : station[c] = "here"}

LanOpen(c) ==
    /\ session[c].by = "none" /\ ~session[c].shut
    /\ session[c].candidate = Nobody /\ ~session[c].cloud
CloudAwaits(c) ==
    session[c].cloud /\ session[c].by = "none" /\ session[c].candidate = Nobody

\* _decide: the candidate's call gets its answer, and no candidate is left.
Decided(c, answer) ==
    [r \in Requests |->
        IF r = session[c].candidate /\ asker[r].at = "asked" THEN [asker[r] EXCEPT !.at = answer]
        ELSE asker[r]]
Decide(c, answer) ==
    /\ asker' = Decided(c, answer)
    /\ session' = [session EXCEPT ![c].candidate = Nobody]

\* approve: the phone the dialog named must be the one that waits.
ApprovesAny(c, shown) == session[c].candidate # Nobody  \* mutant
Approves(c, shown) ==
    shown # Nobody /\ session[c].candidate = shown /\ session[c].by = "none"

\* local_pairing.close takes the code down.  A claimed session stays; one that
\* another replaced is left alone.
Current(c) == c = NoCode \/ offered = c
TakenDown(c, by) ==
    /\ published' = IF Current(c) THEN NoCode ELSE published
    /\ offered' = IF c # NoCode /\ offered = c /\ by = "none" THEN NoCode ELSE offered
Close(c) ==
    /\ TakenDown(c, IF c = NoCode THEN "none" ELSE session[c].by)
    /\ IF c # NoCode /\ offered = c /\ session[c].candidate # Nobody
       THEN Decide(c, "gone") ELSE UNCHANGED <<session, asker>>

-----------------------------------------------------------------------------
(* The dialog shows a code and waits.                                      *)

To(d, step) == [dialog EXCEPT ![d].step = step]
Ended(d) == [dialog EXCEPT ![d] = [Unopened EXCEPT !.step = "ended"]]
Waits(d) == [dialog EXCEPT ![d].step = "pair", ![d].seen = "nothing", ![d].shown = Nobody]

\* A fresh code: minted here, or the cloud's, which the dialog then polls.
Show(d, step, poll, joins) ==
    /\ shownCodes < MaxCodes
    /\ shownCodes' = shownCodes + 1
    /\ offered' = shownCodes' /\ published' = shownCodes'
    /\ dialog' = [dialog EXCEPT ![d].step = step, ![d].code = shownCodes', ![d].joins = joins,
                                ![d].seen = "nothing", ![d].poll = poll, ![d].shown = Nobody]

\* With a station here the pairing adds a phone to it, without the cloud.
Joins(d) == \E c \in Stations : Show(d, "pair", "none", c)
Begin(d) ==
    /\ dialog[d].step = "unopened"
    /\ \/ Joins(d)
       \/ /\ Stations = {} /\ dialog' = To(d, "starting")
          /\ UNCHANGED <<shownCodes, offered, published>>
    /\ UNCHANGED <<session, asker, claims, station, keyed, trusted, yes>>

\* The cloud answers /start, or does not.  The step of a dialog that was closed
\* meanwhile runs on and offers its code; nothing takes it down.
StartAnswered(d) ==
    /\ dialog[d].step \in {"starting", "restarting", "closed"}
    /\ \E poll \in {"on", "none"} :
          Show(d, IF dialog[d].step = "closed" THEN "ghost" ELSE "pair", poll, NoCode)
    /\ UNCHANGED <<session, asker, claims, station, keyed, trusted, yes>>

\* _wait_for_claim: what it sees first.
Sees(d) ==
    LET c == dialog[d].code IN
    CASE session[c].candidate # Nobody -> "approval"
      [] CloudAwaits(c) -> "cloud_approval"
      [] OTHER -> IF \/ dialog[d].poll = "expired" \/ session[c].over
                     \/ session[c].shut /\ dialog[d].poll # "on"
                  THEN "end" ELSE "nothing"
WaitEnds(d) ==
    /\ dialog[d].step = "pair" /\ dialog[d].seen = "nothing"
    /\ Sees(d) # "nothing"
    /\ dialog' = [dialog EXCEPT ![d].seen = Sees(d)]
    /\ UNCHANGED <<session, shownCodes, offered, published, asker, claims, station, keyed,
                   trusted, yes>>

\* pair_approval names the candidate, if one still waits.
Asks(d) ==
    LET c == dialog[d].code IN
    IF session[c].candidate = Nobody THEN Waits(d)
    ELSE [dialog EXCEPT ![d].step = "ask", ![d].shown = session[c].candidate]

\* The pair step again, when the wait is over.
Reenter(d) ==
    LET seen == dialog[d].seen IN
    /\ dialog[d].step = "pair" /\ seen # "nothing"
    /\ \/ /\ seen = "approval" /\ dialog' = Asks(d)
          /\ UNCHANGED <<session, asker, offered, published>>
       \/ /\ seen = "cloud_approval"
          /\ dialog' = IF CloudAwaits(dialog[d].code) THEN To(d, "askCloud") ELSE Waits(d)
          /\ UNCHANGED <<session, asker, offered, published>>
       \/ /\ seen = "end" /\ Close(dialog[d].code) /\ dialog' = Ended(d)
    /\ UNCHANGED <<shownCodes, claims, station, keyed, trusted, yes>>

\* The dialog is closed.  A step that waits for the cloud runs on: the /start of
\* another code, and a /finalize that may be refused; no entry follows.
Dismiss(d) ==
    /\ \/ /\ dialog[d].step \in {"pair", "ask", "askCloud", "finalizing", "hardware"}
          /\ dialog' = Ended(d)
       \/ /\ \/ dialog[d].step = "restarting"
             \/ dialog[d].step = "finalizing" /\ ~dialog[d].again
          /\ dialog' = To(d, "closed")
    /\ Close(dialog[d].code)
    /\ UNCHANGED <<shownCodes, claims, station, keyed, trusted, yes>>

\* The pairing window of a code that someone waits on runs out.
WindowCloses(c) ==
    /\ ~session[c].over /\ \E d \in Dialogs : dialog[d].code = c /\ dialog[d].step = "pair"
    /\ session' = [session EXCEPT ![c].over = TRUE]
    /\ UNCHANGED <<shownCodes, offered, published, dialog, asker, claims, station, keyed,
                   trusted, yes>>

-----------------------------------------------------------------------------
(* The cloud claims a code.                                                *)

CloudClaim(c) ==
    /\ c \notin claims /\ \E d \in Dialogs : dialog[d].code = c /\ dialog[d].poll = "on"
    /\ claims' = claims \cup {c}
    /\ UNCHANGED <<session, shownCodes, offered, published, dialog, asker, station, keyed,
                   trusted, yes>>

\* The poll sees the claim and offers it, sees the end of the window, or
\* fails for good; other errors it retries.
PollStatus(d) ==
    LET c == dialog[d].code IN
    /\ dialog[d].poll = "on"
    /\ \/ /\ c \in claims
          /\ session' = [session EXCEPT ![c].cloud = @ \/ session[c].by = "none"]
          /\ dialog' = [dialog EXCEPT ![d].poll = "seen"]
       \/ /\ \/ session[c].over /\ dialog' = [dialog EXCEPT ![d].poll = "expired"]
             \/ dialog' = [dialog EXCEPT ![d].poll = "failed"]
          /\ UNCHANGED session
    /\ UNCHANGED <<shownCodes, offered, published, asker, claims, station, keyed, trusted, yes>>

-----------------------------------------------------------------------------
(* pair-local.                                                             *)

Goes(r, at) == [asker EXCEPT ![r].at = at]

Post(r) ==
    /\ asker[r].at = "idle"
    /\ asker' = IF offered # NoCode /\ LanOpen(offered) /\ ~session[offered].over
                THEN [asker EXCEPT ![r] = [at |-> "reading", code |-> offered]]
                ELSE Goes(r, "refused")
    /\ UNCHANGED <<session, shownCodes, offered, published, dialog, claims, station, keyed,
                   trusted, yes>>

\* request_approval: one candidate at a time, and none queues.
Requested(r) ==
    LET c == asker[r].code IN
    IF LanOpen(c)
    THEN asker' = Goes(r, "asked") /\ session' = [session EXCEPT ![c].candidate = r]
    ELSE asker' = Goes(r, "refused") /\ UNCHANGED session

\* The body: not JSON, or not what a phone sends; a wrong code, which counts;
\* the code, and a key the phone holds.  A phone that joins a station brings
\* no inverters; those of another are built in an executor.
ReadBody(r) ==
    LET c == asker[r].code IN
    /\ asker[r].at = "reading"
    /\ \/ asker' = Goes(r, "refused") /\ UNCHANGED session
       \/ /\ asker' = Goes(r, "refused")
          /\ session' = [session EXCEPT ![c].wrong = IF @ < MaxWrong THEN @ + 1 ELSE @,
                                        ![c].shut = @ \/ session[c].wrong + 1 >= MaxWrong]
       \/ Stations = {} /\ asker' = Goes(r, "building") /\ UNCHANGED session
       \/ Requested(r)
    /\ UNCHANGED <<shownCodes, offered, published, dialog, claims, station, keyed, trusted, yes>>

Built(r) ==
    /\ asker[r].at = "building"
    /\ Requested(r) \/ (asker' = Goes(r, "refused") /\ UNCHANGED session)
    /\ UNCHANGED <<shownCodes, offered, published, dialog, claims, station, keyed, trusted, yes>>

\* Nobody answers in time, or the phone goes away: the question is withdrawn.
\* The answer may be there already, not yet heard.
Undelivered == {"asked", "approved", "rejected", "gone"}
GivesUp(r) ==
    LET c == asker[r].code IN
    /\ asker[r].at \in Undelivered
    /\ \E end \in {"timeout", "left"} : asker' = Goes(r, end)
    /\ session' = [session EXCEPT ![c].candidate = IF @ = r THEN Nobody ELSE @]
    /\ UNCHANGED <<shownCodes, offered, published, dialog, claims, station, keyed, trusted, yes>>

\* The owner's answer reaches the call; an approved one waits for its station
\* (wait_for_entry), at most half a minute.
Hear(r) ==
    /\ asker[r].at \in Undelivered \ {"asked"}
    /\ asker' = Goes(r, IF asker[r].at = "approved" THEN "joining" ELSE "refused")
    /\ UNCHANGED <<session, shownCodes, offered, published, dialog, claims, station, keyed,
                   trusted, yes>>

HasStation(c) == session[c].added \/ station[c] = "here"
Join(r) ==
    LET c == asker[r].code IN
    /\ asker[r].at = "joining"
    /\ asker' = Goes(r, IF ~session[c].failed /\ HasStation(c) THEN "paired" ELSE "failed")
    /\ UNCHANGED <<session, shownCodes, offered, published, dialog, claims, station, keyed,
                   trusted, yes>>

-----------------------------------------------------------------------------
(* The owner answers.                                                      *)

\* Approve, with control or, for a phone that joins a station, to view only.
\* Too late for the phone named: the one that waits now is asked about.
Approve(d, role) ==
    LET c == dialog[d].code
        shown == dialog[d].shown
        joins == dialog[d].joins
    IN
    /\ dialog[d].step = "ask"
    /\ role = "control" \/ joins # NoCode
    /\ yes' = yes \cup {<<shown, role>>}
    /\ IF ~Approves(c, shown)
       THEN dialog' = Asks(d) /\ UNCHANGED <<session, asker, offered, published>>
       ELSE LET fails == joins # NoCode /\ joins \notin Stations IN
            /\ asker' = Decided(c, "approved")
            /\ session' = [session EXCEPT ![c].by = "lan", ![c].won = session[c].candidate,
                                          ![c].candidate = Nobody, ![c].failed = fails]
            /\ TakenDown(c, "lan")
            /\ dialog' = IF fails THEN Ended(d)
                         ELSE [dialog EXCEPT ![d].step = IF joins = NoCode THEN "creating" ELSE "keying",
                                             ![d].poll = "none", ![d].role = role]
    /\ UNCHANGED <<shownCodes, claims, station, keyed, trusted>>

Reject(d) ==
    LET c == dialog[d].code IN
    /\ dialog[d].step = "ask"
    /\ IF session[c].candidate = dialog[d].shown THEN Decide(c, "rejected")
       ELSE UNCHANGED <<session, asker>>
    /\ dialog' = Waits(d)
    /\ UNCHANGED <<shownCodes, offered, published, claims, station, keyed, trusted, yes>>

ApproveCloud(d) ==
    LET c == dialog[d].code IN
    /\ dialog[d].step = "askCloud"
    /\ IF CloudAwaits(c)
       THEN /\ session' = [session EXCEPT ![c].by = "cloud"]
            /\ TakenDown(c, "cloud")
            /\ dialog' = [dialog EXCEPT ![d].step = "finalizing", ![d].poll = "none"]
            /\ yes' = yes \cup {<<c, "cloud">>}
       ELSE dialog' = Waits(d) /\ UNCHANGED <<session, offered, published, yes>>
    /\ UNCHANGED <<shownCodes, asker, claims, station, keyed, trusted>>

\* The cloud has spent the code: the dialog starts over with another.
RejectCloud(d) ==
    /\ dialog[d].step = "askCloud"
    /\ \/ Joins(d) /\ UNCHANGED <<session, asker>>
       \/ /\ Stations = {} /\ Close(dialog[d].code) /\ UNCHANGED shownCodes
          /\ dialog' = [dialog EXCEPT ![d] = [Unopened EXCEPT !.step = "restarting",
                                                             !.again = dialog[d].again]]
    /\ UNCHANGED <<claims, station, keyed, trusted, yes>>

-----------------------------------------------------------------------------
(* What an approval leads to.                                              *)

\* The cloud builds the station; or refuses, and once the dialog starts over;
\* or fails.  A collector's inverter is then asked about.
Finalize(d) ==
    /\ dialog[d].step = "finalizing"
    /\ \/ /\ \E next \in {"creating", "hardware"} : dialog' = To(d, next)
          /\ UNCHANGED <<shownCodes, offered, published>>
       \/ dialog' = Ended(d) /\ UNCHANGED <<shownCodes, offered, published>>
       \/ /\ ~dialog[d].again
          /\ \/ Joins(d)
             \/ /\ Stations = {}
                /\ dialog' = [dialog EXCEPT ![d].step = "restarting", ![d].again = TRUE]
                /\ UNCHANGED <<shownCodes, offered, published>>
    /\ UNCHANGED <<session, asker, claims, station, keyed, trusted, yes>>
Hardware(d) ==
    /\ dialog[d].step = "hardware"
    /\ dialog' = To(d, "creating")
    /\ UNCHANGED <<session, shownCodes, offered, published, asker, claims, station, keyed,
                   trusted, yes>>

\* Home Assistant adds the entry the flow ended with.
Create(d) ==
    /\ dialog[d].step = "creating"
    /\ station' = [station EXCEPT ![dialog[d].code] = "here"]
    /\ dialog' = Ended(d)
    /\ UNCHANGED <<session, shownCodes, offered, published, asker, claims, keyed, trusted, yes>>

\* add_phone: the island key, the signing key unless the phone only views, the
\* link between them, and the entry.  Each may fail.
Fails(d) ==
    /\ session' = [session EXCEPT ![dialog[d].code].failed = TRUE]
    /\ dialog' = Ended(d)
    /\ UNCHANGED <<keyed, trusted>>
TrustsAll(role) == TRUE  \* mutant
Trusts(role) == role = "control"
AddPhone(d) ==
    LET c == dialog[d].code
        step == dialog[d].step
        phone == session[c].won
    IN
    /\ step \in {"keying", "trusting", "linking"}
    /\ \/ Fails(d)
       \/ /\ step = "keying" /\ keyed' = keyed \cup {phone}
          /\ dialog' = To(d, IF Trusts(dialog[d].role) THEN "trusting" ELSE "linking")
          /\ UNCHANGED <<session, trusted>>
       \/ /\ step = "trusting" /\ trusted' = trusted \cup {phone}
          /\ dialog' = To(d, "linking")
          /\ UNCHANGED <<session, keyed>>
       \/ /\ step = "linking" /\ dialog[d].joins \in Stations
          /\ session' = [session EXCEPT ![c].added = TRUE]
          /\ dialog' = Ended(d)
          /\ UNCHANGED <<keyed, trusted>>
    /\ UNCHANGED <<shownCodes, offered, published, asker, claims, station, yes>>

\* The owner removes a station.
RemoveStation(c) ==
    /\ station[c] = "here"
    /\ station' = [station EXCEPT ![c] = "removed"]
    /\ UNCHANGED <<session, shownCodes, offered, published, dialog, asker, claims, keyed,
                   trusted, yes>>

LpNext ==
    \/ \E d \in Dialogs :
          \/ Begin(d) \/ StartAnswered(d) \/ WaitEnds(d) \/ Reenter(d) \/ Dismiss(d) \/ PollStatus(d)
          \/ Approve(d, "control") \/ Approve(d, "view") \/ Reject(d)
          \/ ApproveCloud(d) \/ RejectCloud(d)
          \/ Finalize(d) \/ Hardware(d) \/ Create(d) \/ AddPhone(d)
    \/ \E r \in Requests :
          Post(r) \/ ReadBody(r) \/ Built(r) \/ GivesUp(r) \/ Hear(r) \/ Join(r)
    \/ \E c \in Codes : WindowCloses(c) \/ CloudClaim(c) \/ RemoveStation(c)

LpSpec == LpInit /\ [][LpNext]_lpVars

-----------------------------------------------------------------------------

LpTypeOK ==
    /\ session \in [Codes -> [wrong : 0..MaxWrong, by : {"none", "lan", "cloud"},
           shut : BOOLEAN, candidate : Requests \cup {Nobody}, won : Requests \cup {Nobody},
           cloud : BOOLEAN, added : BOOLEAN, failed : BOOLEAN, over : BOOLEAN]]
    /\ shownCodes \in 0..MaxCodes
    /\ {offered, published} \subseteq 0..shownCodes
    /\ \A d \in Dialogs :
          /\ {dialog[d].code, dialog[d].joins} \subseteq 0..shownCodes
          /\ dialog[d].shown \in Requests \cup {Nobody}
    /\ \A r \in Requests : asker[r].code \in 0..shownCodes
    /\ claims \subseteq 1..shownCodes
    /\ {keyed, trusted} \subseteq SUBSET Requests

\* What a phone got: its station, or a key on one.
Granted(r) ==
    \/ r \in keyed \cup trusted
    \/ \E c \in Codes : station[c] # "none" /\ session[c].won = r

(* Nothing is granted that the owner did not approve by name: a station is *)
(* created for the phone, or the cloud claim, the dialog named when the    *)
(* owner tapped, a phone is let in only so, and its signing key trusted    *)
(* only with control (config_flow.py:786-853, local_pairing.py:218-236).   *)
(* A phone told 200 was approved, and one refused has nothing: however its *)
(* call, its retries, a cloud claim and the owner's taps interleave.       *)
PairedAsShown ==
    /\ \A c \in Codes : station[c] # "none" =>
          IF session[c].by = "cloud" THEN <<c, "cloud">> \in yes
          ELSE <<session[c].won, "control">> \in yes
    /\ \A r \in keyed : \E role \in Roles : <<r, role>> \in yes
    /\ \A r \in trusted : <<r, "control">> \in yes
    /\ \A r \in Requests :
          /\ asker[r].at = "paired" => \E role \in Roles : <<r, role>> \in yes
          /\ asker[r].at = "refused" => ~Granted(r)
=============================================================================
