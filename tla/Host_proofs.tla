----------------------------- MODULE Host_proofs -----------------------------
(***************************************************************************)
(* Theorems about LocalPairing: nobody gets in who was not approved by     *)
(* name, for any number of config flows, pair-local calls and codes; about *)
(* EntryUpdates: what a command changed is what runs, for any choice of    *)
(* commands and any number of edits and mishaps; about SettingsSync: what  *)
(* is served is of the model the entry lists, for any inverters; and about *)
(* TelegramAlerts: an outage is told once, for any number of phones,       *)
(* alerts and faults.  The types of MCHost are those of its parts.         *)
(***************************************************************************)
EXTENDS MCHost, SequenceTheorems, FiniteSetTheorems, WellFoundedInduction, TLAPS

(***************************************************************************)
(* LocalPairing.                                                           *)
(***************************************************************************)

\* Where a call is once the owner has said yes to it, and before it hears.
Welcome == {"approved", "joining", "paired"}
Past == Welcome \cup {"failed", "timeout", "left"}
Calls == [at : {"idle", "refused", "reading", "building", "asked", "rejected", "gone"} \cup Past,
          code : Codes \cup {NoCode}]
Sessions == [wrong : 0..MaxWrong, by : {"none", "lan", "cloud"},
             shut : BOOLEAN, candidate : Requests \cup {Nobody}, won : Requests \cup {Nobody},
             cloud : BOOLEAN, added : BOOLEAN, failed : BOOLEAN, over : BOOLEAN]
Holding == {"pair", "ask", "askCloud", "finalizing", "hardware", "creating", "keying",
            "trusting", "linking"}
Steps == Holding \cup {"unopened", "starting", "restarting", "closed", "ghost", "ended"}
Polls == {"none", "on", "seen", "expired", "failed"}
Windows == [step : Steps, code : Codes \cup {NoCode}, joins : Codes \cup {NoCode},
            seen : {"nothing", "approval", "cloud_approval", "end"}, poll : Polls,
            shown : Requests \cup {Nobody}, role : Roles \cup {"none"}, again : BOOLEAN]

-----------------------------------------------------------------------------
(* The inductive invariant. *)

CodesOK ==
    /\ shownCodes \in 0..MaxCodes
    /\ offered \in Codes \cup {NoCode} /\ published \in Codes \cup {NoCode}
    /\ claims \subseteq Codes
SessionsOK == session \in [Codes -> Sessions]
CallsOK ==
    /\ asker \in [Requests -> Calls]
    /\ \A r \in Requests : asker[r].at \notin {"idle", "refused"} => asker[r].code \in Codes

\* A candidate's call waits for its answer, for that code.
Waiting ==
    \A c \in Codes : session[c].candidate # Nobody =>
        /\ asker[session[c].candidate].at = "asked"
        /\ asker[session[c].candidate].code = c

Approved(r) == \E role \in Roles : <<r, role>> \in yes
Answered == \A r \in Requests : asker[r].at \in Welcome => Approved(r)

\* A decided session: the cloud's was approved, and so was the call that won.
Claimed ==
    \A c \in Codes :
        /\ session[c].by = "cloud" => <<c, "cloud">> \in yes
        /\ session[c].by = "lan" =>
              /\ session[c].won \in Requests
              /\ asker[session[c].won].at \in Past
              /\ Approved(session[c].won)
        /\ session[c].by # "lan" => session[c].won = Nobody

\* What may become a station: a claim through the cloud, or a phone with control.
Commands(c) ==
    \/ session[c].by = "cloud"
    \/ session[c].by = "lan" /\ <<session[c].won, "control">> \in yes
StationsOK ==
    /\ station \in [Codes -> {"none", "here", "removed"}]
    /\ \A c \in Codes : station[c] # "none" => Commands(c)

\* A dialog past the owner's yes works for the one the owner said yes to.
Fits(d) ==
    LET c == dialog[d].code
        step == dialog[d].step
    IN
    /\ step \in Holding \/ dialog[d].poll = "on" => c \in Codes
    /\ step = "creating" => Commands(c)
    /\ step \in {"finalizing", "hardware"} => session[c].by = "cloud"
    /\ step \in {"keying", "trusting", "linking"} =>
          /\ session[c].by = "lan" /\ dialog[d].role \in Roles
          /\ <<session[c].won, dialog[d].role>> \in yes
    /\ step = "trusting" => dialog[d].role = "control"
DialogsOK == dialog \in [Dialogs -> Windows] /\ \A d \in Dialogs : Fits(d)

KeysOK ==
    /\ keyed \subseteq Requests /\ trusted \subseteq Requests
    /\ \A r \in keyed : asker[r].at \in Past /\ Approved(r)
    /\ \A r \in trusted : asker[r].at \in Past /\ <<r, "control">> \in yes

PairInv ==
    /\ CodesOK /\ SessionsOK /\ CallsOK /\ Waiting /\ Answered /\ Claimed
    /\ StationsOK /\ DialogsOK /\ KeysOK

LEMMA InitPairInv == LpInit => PairInv
<1> SUFFICES ASSUME LpInit PROVE PairInv
  OBVIOUS
<1>1. shownCodes \in 0..MaxCodes /\ MaxWrong \in Nat /\ NoCode \notin Codes
  BY PairingAssumption DEF LpInit, NoCode, Codes
<1>2. CodesOK
  BY <1>1 DEF LpInit, CodesOK
<1>3. \A c \in Codes : /\ session[c] \in Sessions
                       /\ session[c].by = IF c <= shownCodes THEN "cloud" ELSE "none"
                       /\ session[c].won = Nobody /\ session[c].candidate = Nobody
  <2>1. Unclaimed \in Sessions /\ Unclaimed.by = "none"
        /\ Unclaimed.won = Nobody /\ Unclaimed.candidate = Nobody
    BY <1>1 DEF Unclaimed, Sessions
  <2>2. ASSUME NEW by \in {"cloud", "none"}
        PROVE  LET s == [Unclaimed EXCEPT !.by = by]
               IN  s \in Sessions /\ s.by = by /\ s.won = Nobody /\ s.candidate = Nobody
    BY <2>1 DEF Sessions
  <2>3. ASSUME NEW c \in Codes
        PROVE  session[c] = [Unclaimed EXCEPT !.by = IF c <= shownCodes THEN "cloud" ELSE "none"]
    BY <2>1, <2>3 DEF LpInit
  <2> QED BY <2>2, <2>3
<1>4. SessionsOK
  BY <1>3 DEF LpInit, SessionsOK
<1>5. CallsOK /\ Waiting /\ Answered
  <2>1. [at |-> "idle", code |-> NoCode] \in Calls
    BY DEF Calls
  <2>2. CallsOK
    BY <2>1 DEF LpInit, CallsOK
  <2>3. Waiting
    BY <1>3 DEF Waiting
  <2> QED BY <2>2, <2>3 DEF LpInit, Answered, Welcome
<1>6. Claimed
  BY <1>1, <1>3 DEF LpInit, Claimed, Codes
<1>7. StationsOK
  BY <1>3 DEF LpInit, StationsOK, Commands
<1>8. DialogsOK
  <2>1. Unopened \in Windows /\ Unopened.step = "unopened" /\ Unopened.poll = "none"
    BY DEF Unopened, Windows, Steps, Polls
  <2> QED BY <2>1 DEF LpInit, DialogsOK, Fits, Holding
<1>9. KeysOK
  BY DEF LpInit, KeysOK
<1> QED BY <1>2, <1>4, <1>5, <1>6, <1>7, <1>8, <1>9 DEF PairInv

-----------------------------------------------------------------------------
(* Steps that answer nobody and claim nothing leave what was approved alone. *)

Quiet ==
    /\ SessionsOK' /\ CallsOK' /\ Waiting'
    /\ \A c \in Codes : session'[c].by = session[c].by /\ session'[c].won = session[c].won
    /\ \A r \in Requests : /\ asker[r].at \in Past => asker'[r].at \in Past
                           /\ asker'[r].at \in Welcome => asker[r].at \in Welcome
    /\ yes \subseteq yes'

LEMMA QuietKeeps ==
    ASSUME PairInv, Quiet
    PROVE  Answered' /\ Claimed' /\ \A c \in Codes : Commands(c) => Commands(c)'
<1>1. \A r : Approved(r) => Approved(r)'
  BY DEF Approved, Quiet
<1>2. Answered'
  BY <1>1 DEF PairInv, Answered, Quiet
<1>3. Claimed'
  BY <1>1 DEF PairInv, Claimed, Quiet
<1>4. \A c \in Codes : Commands(c) => Commands(c)'
  BY DEF Quiet, Commands
<1> QED BY <1>2, <1>3, <1>4

\* A quiet step of one dialog keeps the invariant if the dialog still fits.
OneMoves(d) ==
    /\ dialog' \in [Dialogs -> Windows]
    /\ \A e \in Dialogs \ {d} : dialog'[e] = dialog[e]
    /\ Fits(d)'
LEMMA OthersFit ==
    ASSUME PairInv, Quiet, NEW d \in Dialogs, OneMoves(d)
    PROVE  DialogsOK'
<1>1. ASSUME NEW e \in Dialogs \ {d} PROVE Fits(e)'
  <2>1. Fits(e) /\ dialog'[e] = dialog[e] /\ dialog[e] \in Windows
    BY <1>1 DEF PairInv, DialogsOK, OneMoves
  <2>2. dialog[e].step \in Holding => dialog[e].code \in Codes
    BY <2>1 DEF Fits
  <2>3. \A c \in Codes : session'[c].by = session[c].by /\ session'[c].won = session[c].won
    BY DEF Quiet
  <2> QED BY <2>1, <2>2, <2>3, QuietKeeps DEF Fits, Holding, Quiet
<1> QED BY <1>1 DEF OneMoves, DialogsOK

LEMMA KeysStay ==
    ASSUME PairInv, Quiet, UNCHANGED <<keyed, trusted>>
    PROVE  KeysOK'
<1>1. \A r : Approved(r) => Approved(r)'
  BY DEF Approved, Quiet
<1> QED BY <1>1 DEF PairInv, KeysOK, Quiet

LEMMA StationsStay ==
    ASSUME PairInv, Quiet, UNCHANGED station
    PROVE  StationsOK'
BY QuietKeeps DEF PairInv, StationsOK

\* A step of no dialog.
LEMMA DialogsRest ==
    ASSUME PairInv, Quiet, UNCHANGED <<dialog, station, keyed, trusted>>, CodesOK'
    PROVE  PairInv'
<1>1. ASSUME NEW d \in Dialogs PROVE Fits(d)'
  <2>1. Fits(d)
    BY <1>1 DEF PairInv, DialogsOK
  <2>2. dialog[d].step \in Holding => dialog[d].code \in Codes
    BY <2>1 DEF Fits
  <2> QED BY <2>1, <2>2, QuietKeeps DEF Fits, Holding, Quiet
<1> QED BY <1>1, QuietKeeps, KeysStay, StationsStay DEF PairInv, Quiet, DialogsOK

-----------------------------------------------------------------------------
(* The steps of a call. *)

\* What a call's step may do: go somewhere that is not a welcome.
CallMoves(r, at) ==
    /\ asker' = Goes(r, at)
    /\ at \notin Welcome \/ asker[r].at \in Welcome
    /\ at \in Past \/ asker[r].at \notin Past
    /\ at \in {"idle", "refused", "reading", "building", "asked", "rejected", "gone"} \cup Past

\* Sessions change in nothing but what is counted, or lose a candidate.
Uncounted ==
    /\ SessionsOK'
    /\ \A c \in Codes : /\ session'[c].by = session[c].by /\ session'[c].won = session[c].won
                        /\ session'[c].candidate \in {session[c].candidate, Nobody}

LEMMA CallTypes ==
    ASSUME PairInv, NEW r \in Requests, NEW at, CallMoves(r, at),
           at \in {"idle", "refused"} \/ asker[r].code \in Codes
    PROVE  /\ CallsOK'
           /\ asker'[r].at = at /\ asker'[r].code = asker[r].code
           /\ \A q \in Requests \ {r} : asker'[q] = asker[q]
           /\ \A q \in Requests : /\ asker[q].at \in Past => asker'[q].at \in Past
                                  /\ asker'[q].at \in Welcome => asker[q].at \in Welcome
<1>1. asker \in [Requests -> Calls] /\ asker' = [asker EXCEPT ![r].at = at]
  BY DEF PairInv, CallsOK, CallMoves, Goes
<1>2. /\ asker' \in [Requests -> Calls] /\ asker'[r].at = at /\ asker'[r].code = asker[r].code
      /\ \A q \in Requests \ {r} : asker'[q] = asker[q]
  BY <1>1 DEF Calls, CallMoves
<1>3. CallsOK'
  BY <1>2 DEF PairInv, CallsOK
<1> QED BY <1>2, <1>3 DEF CallMoves

\* A call that was asking, and is no candidate any more, may go anywhere.
LEMMA CallStepKeeps ==
    ASSUME PairInv, NEW r \in Requests, NEW at, CallMoves(r, at), Uncounted,
           at \in {"idle", "refused"} \/ asker[r].code \in Codes,
           asker[r].at = "asked" => \A c \in Codes : session'[c].candidate # r,
           yes' = yes
    PROVE  Quiet
<1>1. Waiting'
  <2> SUFFICES ASSUME NEW c \in Codes, session'[c].candidate # Nobody
               PROVE  /\ asker'[session'[c].candidate].at = "asked"
                      /\ asker'[session'[c].candidate].code = c
    BY DEF Waiting
  <2>1. /\ session'[c].candidate = session[c].candidate /\ session[c].candidate \in Requests
        /\ asker[session[c].candidate].at = "asked"
        /\ asker[session[c].candidate].code = c
    BY DEF Uncounted, PairInv, Waiting, SessionsOK, Sessions
  <2> QED BY <2>1, CallTypes
<1> QED BY <1>1, CallTypes DEF Quiet, Uncounted

LEMMA RequestedKeeps ==
    ASSUME PairInv, NEW r \in Requests, asker[r].at \in {"reading", "building"}, Requested(r),
           yes' = yes
    PROVE  Quiet
<1> DEFINE c == asker[r].code
<1>1. c \in Codes /\ session[c] \in Sessions /\ session \in [Codes -> Sessions]
  BY DEF PairInv, CallsOK, SessionsOK
<1>2. CASE LanOpen(c)
  <2>1. asker' = Goes(r, "asked") /\ session' = [session EXCEPT ![c].candidate = r]
    BY <1>2 DEF Requested
  <2>2. CallMoves(r, "asked")
    BY <2>1 DEF CallMoves, Past, Welcome
  <2>3. /\ SessionsOK'
        /\ session'[c].by = session[c].by /\ session'[c].won = session[c].won
        /\ session'[c].candidate = r
        /\ \A b \in Codes \ {c} : session'[b] = session[b]
    BY <1>1, <2>1 DEF SessionsOK, Sessions
  <2> HIDE DEF c
  <2>4. Waiting'
    <3>1. ASSUME NEW b \in Codes \ {c}, session[b].candidate # Nobody
          PROVE  /\ asker'[session[b].candidate].at = "asked"
                 /\ asker'[session[b].candidate].code = b
      <4>1. /\ session[b].candidate \in Requests
            /\ asker[session[b].candidate].at = "asked"
            /\ asker[session[b].candidate].code = b
        BY <3>1 DEF PairInv, Waiting, SessionsOK, Sessions
      <4> QED BY <1>1, <2>2, <4>1, CallTypes DEF c
    <3>2. asker'[r].at = "asked" /\ asker'[r].code = c
      BY <1>1, <2>2, CallTypes DEF c
    <3> QED BY <1>1, <2>3, <3>1, <3>2 DEF Waiting
  <2> QED BY <1>1, <2>2, <2>3, <2>4, CallTypes DEF Quiet, c
<1>3. CASE ~LanOpen(c)
  <2>1. asker' = Goes(r, "refused") /\ UNCHANGED session
    BY <1>3 DEF Requested
  <2>2. CallMoves(r, "refused") /\ Uncounted
    BY <1>1, <2>1 DEF CallMoves, Uncounted, SessionsOK, Past, Welcome
  <2> QED BY <2>2, CallStepKeeps
<1> QED BY <1>2, <1>3

LEMMA UnchangedCounts == SessionsOK /\ UNCHANGED session => Uncounted
BY DEF SessionsOK, Uncounted

LEMMA CallKeeps ==
    ASSUME PairInv, NEW r \in Requests,
           Post(r) \/ ReadBody(r) \/ Built(r) \/ GivesUp(r) \/ Hear(r) \/ Join(r)
    PROVE  PairInv'
<1> DEFINE c == asker[r].code
<1>1. /\ UNCHANGED <<dialog, station, keyed, trusted, yes>> /\ CodesOK'
      /\ SessionsOK /\ asker \in [Requests -> Calls]
  BY DEF PairInv, CodesOK, CallsOK, Post, ReadBody, Built, GivesUp, Hear, Join
<1>2. asker[r].at \notin {"idle", "refused"} => c \in Codes
  BY DEF PairInv, CallsOK
<1> USE DEF Past, Welcome
<1>3. ASSUME NEW at, at \in {"idle", "refused", "reading", "building"} \/ at \in {"joining", "paired", "failed"},
             asker' = Goes(r, at), UNCHANGED session,
             \/ asker[r].at \in {"idle", "reading", "building", "rejected", "gone"} /\ at \in {"refused", "building"}
             \/ asker[r].at = "approved" /\ at = "joining"
             \/ asker[r].at = "joining" /\ at \in {"paired", "failed"},
             asker[r].at = "idle" => at = "refused"
      PROVE  Quiet
  <2>1. CallMoves(r, at)
    BY <1>3 DEF CallMoves
  <2>2. at \in {"idle", "refused"} \/ asker[r].code \in Codes
    BY <1>2, <1>3
  <2>3. asker[r].at # "asked"
    BY <1>3
  <2> QED BY <1>1, <1>3, <2>1, <2>2, <2>3, CallStepKeeps, UnchangedCounts
<1>4. CASE Post(r)
  <2>1. asker[r].at = "idle" /\ UNCHANGED session
    BY <1>4 DEF Post
  <2>2. CASE offered # NoCode /\ asker' = [asker EXCEPT ![r] = [at |-> "reading", code |-> offered]]
    <3>1. offered \in Codes
      BY <2>2 DEF PairInv, CodesOK
    <3>2. asker'[r] = [at |-> "reading", code |-> offered]
          /\ \A q \in Requests \ {r} : asker'[q] = asker[q]
      BY <1>1, <2>2
    <3>3. CallsOK'
      BY <1>1, <2>2, <3>1, <3>2 DEF PairInv, CallsOK, Calls
    <3>4. Waiting'
      BY <2>1, <3>2 DEF PairInv, Waiting, SessionsOK, Sessions
    <3>5. Quiet
      BY <1>1, <2>1, <3>2, <3>3, <3>4 DEF Quiet, SessionsOK
    <3> QED BY <1>1, <3>5, DialogsRest
  <2>3. CASE asker' = Goes(r, "refused")
    BY <1>1, <1>3, <2>1, <2>3, DialogsRest
  <2> QED BY <1>4, <2>2, <2>3 DEF Post
<1>5. CASE ReadBody(r)
  <2>1. asker[r].at = "reading" /\ c \in Codes
    BY <1>2, <1>5 DEF ReadBody
  <2>2. CASE asker' = Goes(r, "refused") /\ ~UNCHANGED session /\ ~Requested(r)
    <3>1. session' = [session EXCEPT ![c].wrong = IF @ < MaxWrong THEN @ + 1 ELSE @,
                                     ![c].shut = @ \/ session[c].wrong + 1 >= MaxWrong]
      BY <1>5, <2>2 DEF ReadBody
    <3>2. /\ session'[c].by = session[c].by /\ session'[c].won = session[c].won
          /\ session'[c].candidate = session[c].candidate
          /\ \A b \in Codes \ {c} : session'[b] = session[b]
      BY <2>1, <1>1, <3>1 DEF SessionsOK, Sessions
    <3>3. SessionsOK'
      <4>1. session[c] \in Sessions
        BY <1>1, <2>1 DEF SessionsOK
      <4>2. (IF session[c].wrong < MaxWrong THEN session[c].wrong + 1 ELSE session[c].wrong) \in 0..MaxWrong
        BY <4>1, PairingAssumption DEF Sessions
      <4>3. (session[c].shut \/ session[c].wrong + 1 >= MaxWrong) \in BOOLEAN
        OBVIOUS
      <4> QED BY <1>1, <2>1, <3>1, <4>1, <4>2, <4>3 DEF SessionsOK, Sessions
    <3>4. Uncounted
      BY <1>1, <3>2, <3>3 DEF Uncounted
    <3>5. CallMoves(r, "refused")
      BY <2>1, <2>2 DEF CallMoves
    <3>6. Quiet
      BY <1>1, <2>1, <3>4, <3>5, CallStepKeeps
    <3> QED BY <1>1, <3>6, DialogsRest
  <2>3. CASE \E at \in {"refused", "building"} : asker' = Goes(r, at) /\ UNCHANGED session
    BY <1>1, <1>3, <2>1, <2>3, DialogsRest
  <2>4. CASE Requested(r)
    BY <1>1, <2>1, <2>4, RequestedKeeps, DialogsRest
  <2> QED BY <1>5, <2>2, <2>3, <2>4 DEF ReadBody
<1>6. CASE Built(r)
  <2>1. asker[r].at = "building"
    BY <1>6 DEF Built
  <2>2. CASE Requested(r)
    BY <1>1, <2>1, <2>2, RequestedKeeps, DialogsRest
  <2>3. CASE asker' = Goes(r, "refused") /\ UNCHANGED session
    BY <1>1, <1>3, <2>1, <2>3, DialogsRest
  <2> QED BY <1>6, <2>2, <2>3 DEF Built
<1>7. CASE GivesUp(r)
  <2>1. PICK end \in {"timeout", "left"} : asker' = Goes(r, end)
    BY <1>7 DEF GivesUp
  <2>2. /\ asker[r].at \in Undelivered /\ c \in Codes
        /\ session' = [session EXCEPT ![c].candidate = IF @ = r THEN Nobody ELSE @]
    BY <1>2, <1>7 DEF GivesUp, Undelivered
  <2>3. CallMoves(r, end)
    BY <2>1 DEF CallMoves
  <2>4. /\ SessionsOK'
        /\ session'[c].by = session[c].by /\ session'[c].won = session[c].won
        /\ session'[c].candidate = IF session[c].candidate = r THEN Nobody ELSE session[c].candidate
        /\ \A b \in Codes \ {c} : session'[b] = session[b]
    BY <1>1, <2>2 DEF SessionsOK, Sessions
  <2>5. Uncounted
    BY <2>4 DEF Uncounted
  <2>6. \A b \in Codes : session'[b].candidate # r
    BY <2>4, PairingAssumption DEF PairInv, Waiting
  <2>7. Quiet
    BY <1>1, <2>2, <2>3, <2>5, <2>6, CallStepKeeps
  <2> QED BY <1>1, <2>7, DialogsRest
<1>8. CASE Hear(r)
  <2>1. /\ asker[r].at \in {"approved", "rejected", "gone"} /\ UNCHANGED session
        /\ asker' = Goes(r, IF asker[r].at = "approved" THEN "joining" ELSE "refused")
    BY <1>8 DEF Hear, Undelivered
  <2> QED BY <1>1, <1>3, <2>1, DialogsRest
<1>9. CASE Join(r)
  <2>1. /\ asker[r].at = "joining" /\ UNCHANGED session
        /\ \E at \in {"paired", "failed"} : asker' = Goes(r, at)
    BY <1>9 DEF Join
  <2> QED BY <1>1, <1>3, <2>1, DialogsRest
<1> QED BY <1>4, <1>5, <1>6, <1>7, <1>8, <1>9

-----------------------------------------------------------------------------
(* The steps of a dialog. *)

LEMMA DecideQuiet ==
    ASSUME PairInv, NEW c \in Codes, NEW answer \in {"rejected", "gone"}, Decide(c, answer),
           yes' = yes
    PROVE  Quiet
<1> DEFINE q == session[c].candidate
<1>1. /\ asker \in [Requests -> Calls] /\ session \in [Codes -> Sessions]
      /\ \A b \in Codes : session[b].candidate # Nobody =>
            /\ session[b].candidate \in Requests
            /\ asker[session[b].candidate].at = "asked"
            /\ asker[session[b].candidate].code = b
  BY DEF PairInv, CallsOK, SessionsOK, Waiting, Sessions
<1>2. /\ SessionsOK' /\ session'[c].candidate = Nobody
      /\ \A b \in Codes : session'[b].by = session[b].by /\ session'[b].won = session[b].won
      /\ \A b \in Codes \ {c} : session'[b] = session[b]
  BY <1>1 DEF Decide, SessionsOK, Sessions
<1>3. \A r \in Requests : asker'[r] = IF r = q /\ asker[r].at = "asked"
                                      THEN [asker[r] EXCEPT !.at = answer] ELSE asker[r]
  BY DEF Decide, Decided
<1>4. asker' \in [Requests -> Calls]
  <2>1. \A r \in Requests : [asker[r] EXCEPT !.at = answer] \in Calls
    BY <1>1 DEF Calls
  <2>2. asker' = [r \in Requests |-> IF r = q /\ asker[r].at = "asked"
                                     THEN [asker[r] EXCEPT !.at = answer] ELSE asker[r]]
    BY DEF Decide, Decided
  <2> QED BY <1>1, <2>1, <2>2
<1>5. \A r \in Requests : /\ asker'[r].code = asker[r].code
                          /\ asker'[r].at # asker[r].at => asker'[r].at = answer /\ asker[r].at = "asked"
                          /\ r # q => asker'[r] = asker[r]
  <2> TAKE r \in Requests
  <2>1. asker[r] \in Calls
    BY <1>1
  <2>2. /\ [asker[r] EXCEPT !.at = answer].code = asker[r].code
        /\ [asker[r] EXCEPT !.at = answer].at = answer
    BY <2>1 DEF Calls
  <2> QED BY <1>3, <2>2
<1> HIDE DEF q
<1>6. CallsOK'
  BY <1>4, <1>5 DEF PairInv, CallsOK
<1>7. \A b \in Codes \ {c} : session[b].candidate # Nobody => session[b].candidate # q
  BY <1>1 DEF q
<1>8. Waiting'
  BY <1>1, <1>2, <1>5, <1>7 DEF Waiting
<1> QED BY <1>2, <1>5, <1>6, <1>8 DEF Quiet, Past, Welcome

LEMMA UnchangedQuiet == PairInv /\ UNCHANGED <<session, asker, yes>> => Quiet
BY DEF PairInv, Quiet, SessionsOK, CallsOK, Waiting

LEMMA CloseQuiet ==
    ASSUME PairInv, NEW c \in Codes \cup {NoCode}, Close(c), yes' = yes
    PROVE  Quiet /\ {offered', published'} \subseteq Codes \cup {NoCode}
<1>1. {offered', published'} \subseteq Codes \cup {NoCode}
  BY DEF Close, TakenDown, PairInv, CodesOK
<1>2. CASE c # NoCode /\ Decide(c, "gone")
  BY <1>1, <1>2, DecideQuiet
<1>3. CASE UNCHANGED <<session, asker>>
  BY <1>1, <1>3, UnchangedQuiet
<1> QED BY <1>2, <1>3 DEF Close

LEMMA DialogKeeps ==
    ASSUME PairInv, NEW d \in Dialogs, Quiet, OneMoves(d), CodesOK',
           UNCHANGED <<station, keyed, trusted>>
    PROVE  PairInv'
BY QuietKeeps, OthersFit, KeysStay, StationsStay DEF PairInv, Quiet

\* A step to where no code and no approval is needed.
Free == {"starting", "restarting", "closed", "ended"}
LEMMA LeavesOff ==
    ASSUME PairInv, NEW d \in Dialogs, NEW w \in Windows, w.step \in Free,
           w.poll = "on" => w.code \in Codes, dialog' = [dialog EXCEPT ![d] = w]
    PROVE  OneMoves(d)
BY DEF PairInv, DialogsOK, OneMoves, Fits, Free, Holding

LEMMA Ends ==
    ASSUME PairInv, NEW d \in Dialogs, dialog' = Ended(d)
    PROVE  OneMoves(d)
<1>1. [Unopened EXCEPT !.step = "ended"] \in Windows
      /\ [Unopened EXCEPT !.step = "ended"].step = "ended"
      /\ [Unopened EXCEPT !.step = "ended"].poll = "none"
  BY DEF Unopened, Windows, Steps, Polls
<1> QED BY <1>1, LeavesOff DEF Ended, Free

\* A step to `step`, which its code's session allows.
LEMMA Moves ==
    ASSUME PairInv, Quiet, NEW d \in Dialogs, NEW step \in Steps, dialog' = To(d, step),
           step \in Holding => dialog[d].code \in Codes,
           step \in {"creating", "finalizing", "hardware"} => session'[dialog[d].code].by = "cloud",
           step \notin {"keying", "trusting", "linking"}
    PROVE  OneMoves(d)
<1>1. dialog \in [Dialogs -> Windows] /\ Fits(d)
  BY DEF PairInv, DialogsOK
<1>2. /\ dialog' \in [Dialogs -> Windows] /\ \A e \in Dialogs \ {d} : dialog'[e] = dialog[e]
      /\ dialog'[d].step = step /\ dialog'[d].code = dialog[d].code /\ dialog'[d].poll = dialog[d].poll
  BY <1>1 DEF To, Windows
<1> QED BY <1>1, <1>2 DEF OneMoves, Fits, Commands

\* A dialog that shows a code, or asks about it.
LEMMA Settles ==
    ASSUME PairInv, NEW d \in Dialogs, NEW w \in Windows, w.step \in {"pair", "ask", "askCloud", "ghost"},
           w.code \in Codes, dialog' = [dialog EXCEPT ![d] = w]
    PROVE  OneMoves(d)
BY DEF PairInv, DialogsOK, OneMoves, Fits

\* Back to the code, or on to the question about the phone that waits.
LEMMA Looks ==
    ASSUME PairInv, Quiet, NEW d \in Dialogs, dialog[d].code \in Codes,
           dialog' = Waits(d) \/ dialog' = Asks(d)
    PROVE  OneMoves(d)
<1> DEFINE c == dialog[d].code
<1>1. dialog \in [Dialogs -> Windows] /\ session[c].candidate \in Requests \cup {Nobody}
  BY DEF PairInv, DialogsOK, SessionsOK, Sessions
<1> HIDE DEF c
<1>2. CASE dialog' = Waits(d)
  <2> DEFINE v == [dialog[d] EXCEPT !.step = "pair"]
             w == [v EXCEPT !.seen = "nothing", !.shown = Nobody]
  <2>1. v \in Windows /\ v.step = "pair" /\ v.code = dialog[d].code
    BY <1>1 DEF Windows, Steps, Holding
  <2>2. dialog' = [dialog EXCEPT ![d] = w]
    BY <1>1, <1>2 DEF Waits, Windows
  <2> HIDE DEF v
  <2>3. w \in Windows /\ w.step = "pair" /\ w.code = dialog[d].code
    BY <2>1 DEF Windows
  <2> QED BY <1>1, <2>2, <2>3, Settles
<1>3. CASE dialog' = [dialog EXCEPT ![d].step = "ask", ![d].shown = session[c].candidate]
  <2> DEFINE w == [dialog[d] EXCEPT !.step = "ask", !.shown = session[c].candidate]
  <2>1. w \in Windows /\ w.step = "ask" /\ w.code = dialog[d].code
    BY <1>1 DEF Windows, Steps, Holding
  <2>2. dialog' = [dialog EXCEPT ![d] = w]
    BY <1>1, <1>3 DEF Windows
  <2> QED BY <1>1, <2>1, <2>2, Settles
<1> QED BY <1>2, <1>3 DEF Asks, c

LEMMA Shows ==
    ASSUME PairInv, NEW d \in Dialogs, NEW step \in {"pair", "ghost"}, NEW poll \in {"on", "none"},
           NEW joins \in Codes \cup {NoCode}, Show(d, step, poll, joins), claims' = claims
    PROVE  OneMoves(d) /\ CodesOK'
<1>1. shownCodes' \in Codes /\ shownCodes' \in 0..MaxCodes /\ dialog \in [Dialogs -> Windows]
  BY PairingAssumption DEF Show, PairInv, CodesOK, Codes, DialogsOK
<1>2. CodesOK'
  BY <1>1 DEF PairInv, CodesOK, Show
<1> DEFINE u == [dialog[d] EXCEPT !.step = step, !.code = shownCodes']
           v == [u EXCEPT !.joins = joins, !.seen = "nothing"]
           w == [v EXCEPT !.poll = poll, !.shown = Nobody]
<1>3. u \in Windows /\ u.step = step /\ u.code = shownCodes'
  BY <1>1 DEF Windows, Steps, Holding
<1>4. dialog' = [dialog EXCEPT ![d] = w]
  BY <1>1 DEF Show, Windows
<1> HIDE DEF u
<1>5. v \in Windows /\ v.step = step /\ v.code = shownCodes'
  BY <1>3 DEF Windows
<1> HIDE DEF v
<1>6. w \in Windows /\ w.step = step /\ w.code = shownCodes'
  BY <1>5 DEF Windows, Polls
<1> QED BY <1>1, <1>2, <1>4, <1>6, Settles

\* Sessions that change in what is counted only, when no call moves.
LEMMA CountsQuiet ==
    ASSUME PairInv, NEW c \in Codes, NEW s \in Sessions, session' = [session EXCEPT ![c] = s],
           s.by = session[c].by, s.won = session[c].won, s.candidate = session[c].candidate,
           UNCHANGED <<asker, yes>>
    PROVE  Quiet
BY DEF PairInv, SessionsOK, CallsOK, Waiting, Quiet

LEMMA QuietDialogKeeps ==
    ASSUME PairInv, NEW d \in Dialogs,
           \/ Begin(d) \/ StartAnswered(d) \/ WaitEnds(d) \/ Reenter(d) \/ Dismiss(d)
           \/ Reject(d) \/ RejectCloud(d) \/ Finalize(d) \/ Hardware(d)
    PROVE  PairInv'
<1> DEFINE c == dialog[d].code
<1>1. /\ UNCHANGED <<claims, station, keyed, trusted, yes>>
  BY DEF Begin, StartAnswered, WaitEnds, Reenter, Dismiss, Reject, RejectCloud, Finalize, Hardware
<1>2. /\ dialog \in [Dialogs -> Windows] /\ Fits(d) /\ c \in Codes \cup {NoCode}
      /\ dialog[d].step \in Holding => c \in Codes
  BY DEF PairInv, DialogsOK, Windows, Fits
<1>3. ASSUME UNCHANGED <<shownCodes, offered, published>> PROVE CodesOK'
  BY <1>1, <1>3 DEF PairInv, CodesOK
<1>4. ASSUME NEW a \in Codes \cup {NoCode}, Close(a), UNCHANGED shownCodes
      PROVE  Quiet /\ CodesOK'
  BY <1>1, <1>4, CloseQuiet DEF PairInv, CodesOK
<1>5. UNCHANGED <<session, asker>> => Quiet
  BY <1>1, UnchangedQuiet
<1>6. ASSUME Joins(d), UNCHANGED <<session, asker>> PROVE PairInv'
  BY <1>1, <1>5, <1>6, Shows, DialogKeeps DEF Joins, Stations
<1>7. ASSUME Quiet, OneMoves(d), CodesOK' PROVE PairInv'
  BY <1>1, <1>7, DialogKeeps
<1> HIDE DEF c
<1>8. CASE Begin(d)
  <2>1. CASE dialog' = To(d, "starting") /\ UNCHANGED <<shownCodes, offered, published>>
    <3>1. UNCHANGED <<session, asker>>
      BY <1>8 DEF Begin
    <3>2. "starting" \in Steps \ Holding
      BY DEF Steps, Holding
    <3>3. OneMoves(d)
      BY <1>5, <2>1, <3>1, <3>2, Moves
    <3> QED BY <1>3, <1>5, <1>7, <2>1, <3>1, <3>3
  <2> QED BY <1>6, <1>8, <2>1 DEF Begin
<1>9. CASE StartAnswered(d)
  <2>1. UNCHANGED <<session, asker>>
        /\ \E step \in {"pair", "ghost"}, poll \in {"on", "none"} : Show(d, step, poll, NoCode)
    BY <1>9 DEF StartAnswered
  <2> QED BY <1>1, <1>5, <1>7, <2>1, Shows
<1>10. CASE WaitEnds(d)
  <2> DEFINE w == [dialog[d] EXCEPT !.seen = Sees(d)]
  <2>1. dialog[d].step = "pair" /\ UNCHANGED <<session, asker, shownCodes, offered, published>>
        /\ dialog' = [dialog EXCEPT ![d].seen = Sees(d)]
    BY <1>10 DEF WaitEnds
  <2>2. Sees(d) \in {"nothing", "approval", "cloud_approval", "end"}
    BY DEF Sees
  <2>3. w \in Windows /\ w.step = "pair" /\ w.code = c
    BY <1>2, <2>1, <2>2 DEF Windows, c
  <2>4. dialog' = [dialog EXCEPT ![d] = w]
    BY <1>2, <2>1
  <2> QED BY <1>2, <1>3, <1>5, <1>7, <2>1, <2>3, <2>4, Settles DEF Holding
<1>11. CASE Reenter(d)
  <2>1. dialog[d].step = "pair" /\ c \in Codes /\ UNCHANGED shownCodes
    BY <1>2, <1>11 DEF Reenter, Holding
  <2>2. CASE UNCHANGED <<session, asker, offered, published>>
             /\ (dialog' = Asks(d) \/ dialog' = Waits(d))
    BY <1>3, <1>5, <1>7, <2>1, <2>2, Looks DEF c
  <2>3. CASE UNCHANGED <<session, asker, offered, published>> /\ dialog' = To(d, "askCloud")
    <3>1. "askCloud" \in Steps
      BY DEF Steps, Holding
    <3> QED BY <1>3, <1>5, <1>7, <2>1, <2>3, <3>1, Moves DEF c
  <2>4. CASE Close(c) /\ dialog' = Ended(d)
    BY <1>4, <1>7, <2>1, <2>4, Ends
  <2> QED BY <1>11, <2>2, <2>3, <2>4 DEF Reenter, c
<1>12. CASE Dismiss(d)
  <2>1. Close(c) /\ UNCHANGED shownCodes /\ (dialog' = Ended(d) \/ dialog' = To(d, "closed"))
    BY <1>12 DEF Dismiss, c
  <2>2. "closed" \in Steps \ Holding
    BY DEF Steps, Holding
  <2>3. Quiet /\ CodesOK'
    BY <1>2, <1>4, <2>1
  <2>4. OneMoves(d)
    BY <2>1, <2>2, <2>3, Ends, Moves
  <2> QED BY <1>7, <2>3, <2>4
<1>13. CASE Reject(d)
  <2>1. /\ dialog[d].step = "ask" /\ UNCHANGED <<shownCodes, offered, published>>
        /\ Decide(c, "rejected") \/ UNCHANGED <<session, asker>>
        /\ dialog' = Waits(d)
    BY <1>13 DEF Reject, c
  <2>2. c \in Codes
    BY <1>2, <2>1 DEF Holding
  <2>3. Quiet
    BY <1>1, <1>5, <2>1, <2>2, DecideQuiet
  <2> QED BY <1>3, <1>7, <2>1, <2>2, <2>3, Looks DEF c
<1>14. CASE RejectCloud(d)
  <2> DEFINE w == [Unopened EXCEPT !.step = "restarting", !.again = dialog[d].again]
  <2>1. CASE Close(c) /\ UNCHANGED shownCodes /\ dialog' = [dialog EXCEPT ![d] = w]
    <3>1. w \in Windows /\ w.step = "restarting" /\ w.poll = "none"
      BY <1>2 DEF Unopened, Windows, Steps, Polls
    <3>2. OneMoves(d)
      BY <2>1, <3>1, LeavesOff DEF Free
    <3> QED BY <1>2, <1>4, <1>7, <2>1, <3>2
  <2> QED BY <1>6, <1>14, <2>1 DEF RejectCloud, c
<1>15. CASE Finalize(d)
  <2>1. dialog[d].step = "finalizing" /\ UNCHANGED <<session, asker>> /\ c \in Codes
    BY <1>2, <1>15 DEF Finalize, Holding
  <2>2. session[c].by = "cloud" /\ session'[c].by = "cloud"
    BY <1>2, <2>1 DEF Fits, c
  <2>3. CASE \E next \in {"creating", "hardware"} :
                 dialog' = To(d, next) /\ UNCHANGED <<shownCodes, offered, published>>
    <3>1. PICK next \in {"creating", "hardware"} : dialog' = To(d, next)
      BY <2>3
    <3>2. next \in Steps /\ next \notin {"keying", "trusting", "linking", "finalizing"}
      BY DEF Steps, Holding
    <3>3. OneMoves(d)
      BY <1>5, <2>1, <2>2, <3>1, <3>2, Moves DEF c
    <3> QED BY <1>3, <1>5, <1>7, <2>1, <2>3, <3>3
  <2>4. CASE dialog' = Ended(d) /\ UNCHANGED <<shownCodes, offered, published>>
    BY <1>3, <1>5, <1>7, <2>1, <2>4, Ends
  <2>5. CASE /\ dialog' = [dialog EXCEPT ![d].step = "restarting", ![d].again = TRUE]
             /\ UNCHANGED <<shownCodes, offered, published>>
    <3> DEFINE w == [dialog[d] EXCEPT !.step = "restarting", !.again = TRUE]
    <3>1. w \in Windows /\ w.step = "restarting" /\ w.code = c
      BY <1>2 DEF Windows, Steps, c
    <3>2. dialog' = [dialog EXCEPT ![d] = w]
      BY <1>2, <2>5 DEF Windows
    <3>3. OneMoves(d)
      BY <2>1, <3>1, <3>2, LeavesOff DEF Free
    <3> QED BY <1>3, <1>5, <1>7, <2>1, <2>5, <3>3
  <2> QED BY <1>6, <1>15, <2>1, <2>3, <2>4, <2>5 DEF Finalize
<1>16. CASE Hardware(d)
  <2>1. /\ dialog[d].step = "hardware" /\ UNCHANGED <<session, asker, shownCodes, offered, published>>
        /\ c \in Codes /\ dialog' = To(d, "creating")
    BY <1>2, <1>16 DEF Hardware, Holding
  <2>2. session'[c].by = "cloud"
    BY <1>2, <2>1 DEF Fits, c
  <2>3. "creating" \in Steps
    BY DEF Steps, Holding
  <2>4. OneMoves(d)
    BY <1>5, <2>1, <2>2, <2>3, Moves DEF c
  <2> QED BY <1>3, <1>5, <1>7, <2>1, <2>4
<1> QED BY <1>8, <1>9, <1>10, <1>11, <1>12, <1>13, <1>14, <1>15, <1>16

LEMMA PollStatusKeeps ==
    ASSUME PairInv, NEW d \in Dialogs, PollStatus(d)
    PROVE  PairInv'
<1> DEFINE c == dialog[d].code
<1>1. /\ UNCHANGED <<shownCodes, offered, published, asker, claims, station, keyed, trusted, yes>>
      /\ dialog[d].poll = "on"
  BY DEF PollStatus
<1>2. dialog \in [Dialogs -> Windows] /\ Fits(d) /\ c \in Codes
  BY <1>1 DEF PairInv, DialogsOK, Fits
<1>3. PICK poll \in {"seen", "expired", "failed"} : dialog' = [dialog EXCEPT ![d].poll = poll]
  BY DEF PollStatus
<1>4. Quiet
  <2>1. CASE UNCHANGED session
    BY <1>1, <2>1, UnchangedQuiet
  <2>2. CASE session' = [session EXCEPT ![c].cloud = @ \/ session[c].by = "none"]
    <3> DEFINE s == [session[c] EXCEPT !.cloud = @ \/ session[c].by = "none"]
    <3>1. session[c] \in Sessions /\ session \in [Codes -> Sessions]
      BY <1>2 DEF PairInv, SessionsOK
    <3>2. s \in Sessions /\ s.by = session[c].by /\ s.won = session[c].won
          /\ s.candidate = session[c].candidate
      BY <3>1 DEF Sessions
    <3>3. session' = [session EXCEPT ![c] = s]
      BY <1>2, <2>2, <3>1
    <3> HIDE DEF s, c
    <3> QED BY <1>1, <1>2, <3>2, <3>3, CountsQuiet
  <2> QED BY <2>1, <2>2 DEF PollStatus
<1>5. OneMoves(d)
  <2>1. /\ dialog' \in [Dialogs -> Windows] /\ \A e \in Dialogs \ {d} : dialog'[e] = dialog[e]
        /\ dialog'[d].step = dialog[d].step /\ dialog'[d].code = c
        /\ dialog'[d].role = dialog[d].role
    BY <1>2, <1>3 DEF Windows, Polls
  <2>2. session'[c].by = session[c].by /\ session'[c].won = session[c].won /\ yes' = yes
    BY <1>1, <1>2, <1>4 DEF Quiet
  <2>3. Commands(c) => session'[c].by = "cloud"
                       \/ (session'[c].by = "lan" /\ <<session'[c].won, "control">> \in yes')
    BY <2>2 DEF Commands
  <2> QED BY <1>2, <2>1, <2>2, <2>3 DEF OneMoves, Fits, Commands
<1>6. CodesOK'
  BY <1>1 DEF PairInv, CodesOK
<1> QED BY <1>1, <1>4, <1>5, <1>6, DialogKeeps

LEMMA CodeKeeps ==
    ASSUME PairInv, NEW c \in Codes, WindowCloses(c) \/ CloudClaim(c) \/ RemoveStation(c)
    PROVE  PairInv'
<1>1. CASE WindowCloses(c)
  <2> DEFINE s == [session[c] EXCEPT !.over = TRUE]
  <2>1. session[c] \in Sessions /\ session \in [Codes -> Sessions]
    BY DEF PairInv, SessionsOK
  <2>2. s \in Sessions /\ s.by = session[c].by /\ s.won = session[c].won
        /\ s.candidate = session[c].candidate
    BY <2>1 DEF Sessions
  <2>3. session' = [session EXCEPT ![c] = s]
    BY <1>1, <2>1 DEF WindowCloses
  <2>4. UNCHANGED <<asker, yes, dialog, station, keyed, trusted>> /\ CodesOK'
    BY <1>1 DEF WindowCloses, PairInv, CodesOK
  <2> HIDE DEF s
  <2> QED BY <2>2, <2>3, <2>4, CountsQuiet, DialogsRest
<1>2. CASE CloudClaim(c)
  <2>1. UNCHANGED <<session, asker, yes, dialog, station, keyed, trusted>> /\ CodesOK'
    BY <1>2 DEF CloudClaim, PairInv, CodesOK
  <2> QED BY <2>1, UnchangedQuiet, DialogsRest
<1>3. CASE RemoveStation(c)
  <2>1. /\ UNCHANGED <<session, shownCodes, offered, published, dialog, asker, claims, keyed, trusted, yes>>
        /\ station[c] = "here" /\ station' = [station EXCEPT ![c] = "removed"]
    BY <1>3 DEF RemoveStation
  <2>2. Quiet
    BY <2>1, UnchangedQuiet
  <2>3. StationsOK'
    <3>1. station' \in [Codes -> {"none", "here", "removed"}]
      BY <2>1 DEF PairInv, StationsOK
    <3>2. \A b \in Codes : station'[b] # "none" => Commands(b)
      BY <2>1 DEF PairInv, StationsOK
    <3> QED BY <2>2, <3>1, <3>2, QuietKeeps DEF StationsOK
  <2>4. DialogsOK' /\ CodesOK'
    BY <2>1 DEF PairInv, DialogsOK, Fits, CodesOK, Commands
  <2> QED BY <2>1, <2>2, <2>3, <2>4, QuietKeeps, KeysStay DEF PairInv, Quiet
<1> QED BY <1>1, <1>2, <1>3

LEMMA CreateKeeps ==
    ASSUME PairInv, NEW d \in Dialogs, Create(d)
    PROVE  PairInv'
<1> DEFINE c == dialog[d].code
<1>1. /\ UNCHANGED <<session, shownCodes, offered, published, asker, claims, keyed, trusted, yes>>
      /\ dialog[d].step = "creating" /\ dialog' = Ended(d)
      /\ station' = [station EXCEPT ![c] = "here"]
  BY DEF Create
<1>2. c \in Codes /\ Commands(c)
  BY <1>1 DEF PairInv, DialogsOK, Fits, Holding
<1>3. Quiet
  BY <1>1, UnchangedQuiet
<1>4. OneMoves(d)
  BY <1>1, Ends
<1>5. StationsOK'
  <2>1. station' \in [Codes -> {"none", "here", "removed"}]
    BY <1>1 DEF PairInv, StationsOK
  <2>2. \A b \in Codes : station'[b] # "none" => Commands(b)
    BY <1>1, <1>2 DEF PairInv, StationsOK
  <2> QED BY <1>3, <2>1, <2>2, QuietKeeps DEF StationsOK
<1>6. CodesOK'
  BY <1>1 DEF PairInv, CodesOK
<1> QED BY <1>1, <1>3, <1>4, <1>5, <1>6, QuietKeeps, OthersFit, KeysStay DEF PairInv, Quiet

-----------------------------------------------------------------------------
(* The keys a phone that joins a station gets. *)

LEMMA AddPhoneKeeps ==
    ASSUME PairInv, NEW d \in Dialogs, AddPhone(d)
    PROVE  PairInv'
<1> DEFINE c == dialog[d].code  phone == session[c].won
<1>1. /\ UNCHANGED <<shownCodes, offered, published, asker, claims, station, yes>> /\ CodesOK'
      /\ dialog[d].step \in {"keying", "trusting", "linking"}
  BY DEF AddPhone, PairInv, CodesOK
<1>2. /\ dialog \in [Dialogs -> Windows] /\ Fits(d) /\ c \in Codes
      /\ session[c] \in Sessions /\ session \in [Codes -> Sessions]
  BY <1>1 DEF PairInv, DialogsOK, Fits, Holding, SessionsOK
<1>3. /\ session[c].by = "lan" /\ dialog[d].role \in Roles /\ <<phone, dialog[d].role>> \in yes
      /\ dialog[d].step = "trusting" => dialog[d].role = "control"
  BY <1>1, <1>2 DEF Fits
<1>4. phone \in Requests /\ asker[phone].at \in Past /\ Approved(phone)
  BY <1>2, <1>3 DEF PairInv, Claimed
<1> HIDE DEF c
<1>5. ASSUME Quiet, UNCHANGED <<keyed, trusted>>, dialog' = Ended(d) PROVE PairInv'
  BY <1>1, <1>5, Ends, DialogKeeps
\* What the session counts may change.
<1>6. ASSUME NEW s \in Sessions, s.by = session[c].by, s.won = session[c].won,
             s.candidate = session[c].candidate, session' = [session EXCEPT ![c] = s]
      PROVE  Quiet
  BY <1>1, <1>2, <1>6, CountsQuiet
<1>7. CASE Fails(d)
  <2> DEFINE s == [session[c] EXCEPT !.failed = TRUE]
  <2>1. s \in Sessions /\ s.by = session[c].by /\ s.won = session[c].won
        /\ s.candidate = session[c].candidate
    BY <1>2 DEF Sessions
  <2>2. session' = [session EXCEPT ![c] = s]
    BY <1>2, <1>7 DEF Fails, c
  <2> HIDE DEF s
  <2> QED BY <1>5, <1>6, <1>7, <2>1, <2>2 DEF Fails
\* A phone with a key goes on to the next one.
<1>8. ASSUME NEW step \in {"trusting", "linking"}, dialog' = To(d, step), UNCHANGED session,
             step = "trusting" => dialog[d].role = "control", KeysOK'
      PROVE  PairInv'
  <2>1. Quiet
    BY <1>1, <1>8, UnchangedQuiet
  <2>2. /\ dialog' \in [Dialogs -> Windows] /\ \A e \in Dialogs \ {d} : dialog'[e] = dialog[e]
        /\ dialog'[d].step = step /\ dialog'[d].code = c /\ dialog'[d].poll = dialog[d].poll
        /\ dialog'[d].role = dialog[d].role
    <3> DEFINE w == [dialog[d] EXCEPT !.step = step]
    <3>1. step \in Steps /\ dialog[d] \in Windows
      BY <1>2, <1>8 DEF Steps, Holding
    <3>2. /\ w \in Windows /\ w.step = step /\ w.code = dialog[d].code
          /\ w.poll = dialog[d].poll /\ w.role = dialog[d].role
      <4> HIDE DEF Steps, Polls
      <4> QED BY <3>1 DEF Windows
    <3>3. dialog' = [dialog EXCEPT ![d] = w]
      BY <1>8 DEF To
    <3> HIDE DEF w
    <3> QED BY <1>2, <3>2, <3>3 DEF c
  <2>3. OneMoves(d)
    BY <1>1, <1>2, <1>3, <1>8, <2>2 DEF OneMoves, Fits
  <2> QED BY <1>1, <1>8, <2>1, <2>3, QuietKeeps, OthersFit, StationsStay DEF PairInv, Quiet
<1>9. CASE /\ dialog[d].step = "keying" /\ keyed' = keyed \cup {phone}
           /\ dialog' = To(d, IF Trusts(dialog[d].role) THEN "trusting" ELSE "linking")
           /\ UNCHANGED <<session, trusted>>
  <2>1. KeysOK'
    BY <1>1, <1>4, <1>9 DEF PairInv, KeysOK, Approved
  <2> QED BY <1>8, <1>9, <2>1 DEF Trusts
<1>10. CASE /\ dialog[d].step = "trusting" /\ trusted' = trusted \cup {phone}
            /\ dialog' = To(d, "linking")
            /\ UNCHANGED <<session, keyed>>
  <2>1. KeysOK'
    BY <1>1, <1>3, <1>4, <1>10 DEF PairInv, KeysOK, Approved
  <2> QED BY <1>8, <1>10, <2>1
<1>11. CASE /\ session' = [session EXCEPT ![c].added = TRUE]
            /\ dialog' = Ended(d) /\ UNCHANGED <<keyed, trusted>>
  <2> DEFINE s == [session[c] EXCEPT !.added = TRUE]
  <2>1. s \in Sessions /\ s.by = session[c].by /\ s.won = session[c].won
        /\ s.candidate = session[c].candidate
    BY <1>2 DEF Sessions
  <2>2. session' = [session EXCEPT ![c] = s]
    BY <1>2, <1>11
  <2> HIDE DEF s
  <2> QED BY <1>5, <1>6, <1>11, <2>1, <2>2
<1> QED BY <1>7, <1>9, <1>10, <1>11 DEF AddPhone, c

-----------------------------------------------------------------------------
(* The owner's yes. *)

\* A session that was open until now led to nothing, and no other changes.
LEMMA OpenUntilNow ==
    ASSUME PairInv, NEW c \in Codes, session[c].by = "none",
           \A b \in Codes \ {c} : session'[b] = session[b], yes \subseteq yes',
           NEW d \in Dialogs, OneMoves(d), station' = station
    PROVE  StationsOK' /\ DialogsOK'
<1>1. \A b \in Codes : Commands(b) => b # c /\ Commands(b)'
  BY DEF Commands
<1>2. StationsOK'
  BY <1>1 DEF PairInv, StationsOK
<1>3. ASSUME NEW e \in Dialogs \ {d} PROVE Fits(e)'
  <2>1. Fits(e) /\ dialog'[e] = dialog[e]
    BY <1>3 DEF PairInv, DialogsOK, OneMoves
  <2>2. dialog[e].step \in Holding => dialog[e].code \in Codes
    BY <2>1 DEF Fits
  <2> QED BY <1>1, <2>1, <2>2 DEF Fits, Holding
<1> QED BY <1>2, <1>3 DEF OneMoves, DialogsOK

LEMMA ApproveCloudKeeps ==
    ASSUME PairInv, NEW d \in Dialogs, ApproveCloud(d)
    PROVE  PairInv'
<1> DEFINE c == dialog[d].code
<1>1. /\ UNCHANGED <<shownCodes, asker, claims, station, keyed, trusted>>
      /\ dialog[d].step = "askCloud"
  BY DEF ApproveCloud
<1>2. /\ dialog \in [Dialogs -> Windows] /\ c \in Codes
      /\ session[c] \in Sessions /\ session \in [Codes -> Sessions]
  BY <1>1 DEF PairInv, DialogsOK, Fits, Holding, SessionsOK
<1> HIDE DEF c
<1>3. CASE ~CloudAwaits(c)
  <2>1. UNCHANGED <<session, offered, published, yes>> /\ dialog' = Waits(d)
    BY <1>3 DEF ApproveCloud, c
  <2>2. Quiet
    BY <1>1, <2>1, UnchangedQuiet
  <2>3. OneMoves(d)
    BY <1>2, <2>1, <2>2, Looks DEF c
  <2>4. CodesOK'
    BY <1>1, <2>1 DEF PairInv, CodesOK
  <2> QED BY <1>1, <2>2, <2>3, <2>4, DialogKeeps
<1>4. CASE CloudAwaits(c)
  <2>1. /\ session' = [session EXCEPT ![c].by = "cloud"] /\ TakenDown(c, "cloud")
        /\ dialog' = [dialog EXCEPT ![d].step = "finalizing", ![d].poll = "none"]
        /\ yes' = yes \cup {<<c, "cloud">>}
    BY <1>4 DEF ApproveCloud, c
  <2>2. session[c].by = "none" /\ session[c].candidate = Nobody
    BY <1>4 DEF CloudAwaits
  <2>3. /\ SessionsOK'
        /\ session'[c].by = "cloud" /\ session'[c].won = session[c].won
        /\ session'[c].candidate = session[c].candidate
        /\ \A b \in Codes \ {c} : session'[b] = session[b]
    BY <1>2, <2>1 DEF SessionsOK, Sessions
  <2>4. OneMoves(d)
    <3> DEFINE w == [dialog[d] EXCEPT !.step = "finalizing", !.poll = "none"]
    <3>0. dialog[d] \in Windows /\ dialog[d].code = c /\ "finalizing" \in Steps /\ "none" \in Polls
      BY <1>2 DEF Steps, Holding, Polls, c
    <3>1. w \in Windows /\ w.step = "finalizing" /\ w.code = c
      BY <3>0 DEF Windows
    <3>2. dialog' = [dialog EXCEPT ![d] = w]
      BY <1>2, <2>1 DEF Windows
    <3> HIDE DEF w
    <3>3. dialog' \in [Dialogs -> Windows] /\ dialog'[d] = w
          /\ \A e \in Dialogs \ {d} : dialog'[e] = dialog[e]
      BY <1>2, <3>1, <3>2
    <3>4. Fits(d)'
      BY <1>2, <2>3, <3>1, <3>3 DEF Fits, Holding
    <3> QED BY <3>3, <3>4 DEF OneMoves
  <2>5. StationsOK' /\ DialogsOK'
    BY <1>1, <1>2, <2>1, <2>2, <2>3, <2>4, OpenUntilNow
  <2>6. Waiting' /\ CallsOK'
    BY <1>1, <2>3 DEF PairInv, Waiting, CallsOK
  <2>7. Answered' /\ KeysOK'
    BY <1>1, <2>1 DEF PairInv, Answered, KeysOK, Approved
  <2>8. Claimed'
    <3>1. \A r : Approved(r) => Approved(r)'
      BY <2>1 DEF Approved
    <3> QED BY <1>1, <2>1, <2>2, <2>3, <3>1 DEF PairInv, Claimed
  <2>9. CodesOK'
    BY <1>1, <2>1 DEF PairInv, CodesOK, TakenDown
  <2> QED BY <2>3, <2>5, <2>6, <2>7, <2>8, <2>9 DEF PairInv
<1> QED BY <1>3, <1>4

\* The yes reaches the phone the dialog named, and it alone.
LEMMA ApproveReaches ==
    ASSUME PairInv, NEW c \in Codes, session[c].candidate # Nobody,
           asker' = Decided(c, "approved")
    PROVE  LET q == session[c].candidate IN
           /\ q \in Requests /\ CallsOK' /\ asker[q].at = "asked" /\ asker'[q].at = "approved"
           /\ \A r \in Requests \ {q} : asker'[r] = asker[r]
           /\ \A b \in Codes \ {c} : session[b].candidate # q
<1> DEFINE q == session[c].candidate
<1>1. /\ asker \in [Requests -> Calls] /\ q \in Requests
      /\ asker[q].at = "asked" /\ asker[q].code = c
      /\ \A b \in Codes \ {c} : session[b].candidate # q
  BY DEF PairInv, CallsOK, SessionsOK, Sessions, Waiting
<1>2. asker' = [r \in Requests |-> IF r = q /\ asker[r].at = "asked"
                                   THEN [asker[r] EXCEPT !.at = "approved"] ELSE asker[r]]
  BY DEF Decided
<1> HIDE DEF q
<1>3. asker'[q] = [asker[q] EXCEPT !.at = "approved"]
      /\ \A r \in Requests \ {q} : asker'[r] = asker[r]
  BY <1>1, <1>2
<1>4. asker'[q] \in Calls /\ asker'[q].at = "approved" /\ asker'[q].code = c
  BY <1>1, <1>3 DEF Calls, Past, Welcome
<1>5. asker' \in [Requests -> Calls]
  BY <1>1, <1>2, <1>3, <1>4
<1>6. CallsOK'
  BY <1>3, <1>4, <1>5 DEF PairInv, CallsOK
<1> QED BY <1>1, <1>3, <1>4, <1>6 DEF q

LEMMA ApproveKeeps ==
    ASSUME PairInv, NEW d \in Dialogs, NEW role \in Roles, Approve(d, role)
    PROVE  PairInv'
<1> DEFINE c == dialog[d].code  q == dialog[d].shown  joins == dialog[d].joins
<1>1. /\ UNCHANGED <<shownCodes, claims, station, keyed, trusted>>
      /\ dialog[d].step = "ask" /\ yes' = yes \cup {<<q, role>>}
      /\ role = "control" \/ joins # NoCode
  BY DEF Approve
<1>2. /\ dialog \in [Dialogs -> Windows] /\ c \in Codes
      /\ session[c] \in Sessions /\ session \in [Codes -> Sessions]
  BY <1>1 DEF PairInv, DialogsOK, Fits, Holding, SessionsOK
<1>3. \A r : Approved(r) => Approved(r)'
  BY <1>1 DEF Approved
<1> HIDE DEF c, q, joins
<1>4. CASE ~Approves(c, q)
  <2>1. UNCHANGED <<session, asker, offered, published>> /\ dialog' = Asks(d)
    BY <1>4 DEF Approve, c, q
  <2>2. Quiet
    BY <1>1, <2>1 DEF PairInv, Quiet, SessionsOK, CallsOK, Waiting
  <2>3. OneMoves(d)
    BY <1>2, <2>1, <2>2, Looks DEF c
  <2>4. CodesOK'
    BY <1>1, <2>1 DEF PairInv, CodesOK
  <2> QED BY <1>1, <2>2, <2>3, <2>4, DialogKeeps
<1>5. CASE Approves(c, q)
  <2> DEFINE fails == joins # NoCode /\ joins \notin Stations
  <2>1. /\ asker' = Decided(c, "approved") /\ TakenDown(c, "lan")
        /\ session' = [session EXCEPT ![c].by = "lan", ![c].won = session[c].candidate,
                                      ![c].candidate = Nobody, ![c].failed = fails]
        /\ dialog' = IF fails THEN Ended(d)
                     ELSE [dialog EXCEPT ![d].step = IF joins = NoCode THEN "creating" ELSE "keying",
                                         ![d].poll = "none", ![d].role = role]
    BY <1>5 DEF Approve, c, q, joins
  <2>2. session[c].by = "none" /\ session[c].candidate = q /\ q # Nobody /\ fails \in BOOLEAN
    BY <1>5 DEF Approves
  <2> HIDE DEF fails
  <2>3. /\ q \in Requests /\ CallsOK' /\ asker[q].at = "asked" /\ asker'[q].at = "approved"
        /\ \A r \in Requests \ {q} : asker'[r] = asker[r]
        /\ \A b \in Codes \ {c} : session[b].candidate # q
    BY <1>2, <2>1, <2>2, ApproveReaches
  <2>4. /\ SessionsOK'
        /\ session'[c].by = "lan" /\ session'[c].won = q /\ session'[c].candidate = Nobody
        /\ \A b \in Codes \ {c} : session'[b] = session[b]
    <3> DEFINE t == [session[c] EXCEPT !.by = "lan", !.won = q]
               s == [t EXCEPT !.candidate = Nobody, !.failed = fails]
    <3>1. t \in Sessions /\ t.by = "lan" /\ t.won = q
      BY <1>2, <2>3 DEF Sessions
    <3>2. session' = [session EXCEPT ![c] = s]
      BY <1>2, <2>1, <2>2 DEF Sessions
    <3> HIDE DEF t
    <3>3. s \in Sessions /\ s.by = "lan" /\ s.won = q /\ s.candidate = Nobody
      BY <2>2, <3>1 DEF Sessions
    <3> HIDE DEF s
    <3> QED BY <1>2, <3>2, <3>3 DEF SessionsOK
  <2>5. OneMoves(d)
    <3>1. CASE fails
      BY <2>1, <3>1, Ends
    <3>2. CASE ~fails
      <4> DEFINE v == [dialog[d] EXCEPT !.step = IF joins = NoCode THEN "creating" ELSE "keying"]
                 w == [v EXCEPT !.poll = "none", !.role = role]
      <4>1. /\ v \in Windows /\ v.code = c
            /\ v.step = IF joins = NoCode THEN "creating" ELSE "keying"
        BY <1>2 DEF Windows, Steps, Holding, c
      <4>2. dialog' = [dialog EXCEPT ![d] = w]
        BY <1>2, <2>1, <3>2 DEF Windows
      <4> HIDE DEF v
      <4>3. w \in Windows /\ w.code = c /\ w.role = role /\ w.step = v.step
        BY <4>1 DEF Windows, Polls
      <4> HIDE DEF w
      <4>4. /\ dialog' \in [Dialogs -> Windows] /\ dialog'[d] = w
            /\ \A e \in Dialogs \ {d} : dialog'[e] = dialog[e]
        BY <1>2, <4>2, <4>3
      <4>5. /\ <<session'[c].won, role>> \in yes'
            /\ w.step \in {"creating", "keying"}
            /\ w.step = "creating" => role = "control"
        BY <1>1, <2>4, <4>1, <4>3
      <4>6. /\ dialog'[d].code = c /\ dialog'[d].role = role
            /\ dialog'[d].step \in {"creating", "keying"}
            /\ dialog'[d].step = "creating" => role = "control"
        BY <4>3, <4>4, <4>5
      <4>7. Fits(d)'
        BY <1>2, <2>4, <4>5, <4>6 DEF Fits, Commands
      <4> QED BY <4>4, <4>7 DEF OneMoves
    <3> QED BY <3>1, <3>2
  <2>6. StationsOK' /\ DialogsOK'
    BY <1>1, <1>2, <2>2, <2>4, <2>5, OpenUntilNow
  <2>7. Waiting'
    <3>1. ASSUME NEW b \in Codes \ {c}, session[b].candidate # Nobody
          PROVE  /\ asker'[session[b].candidate].at = "asked"
                 /\ asker'[session[b].candidate].code = b
      BY <2>3, <3>1 DEF PairInv, Waiting, SessionsOK, Sessions
    <3> QED BY <2>4, <3>1 DEF Waiting
  <2>8. <<q, role>> \in yes'
    BY <1>1
  <2>9. "approved" \in Past /\ \A r \in Requests : asker[r].at \in Past => asker'[r].at \in Past
    BY <2>3 DEF Past, Welcome
  <2>10. Answered'
    <3> SUFFICES ASSUME NEW r \in Requests, asker'[r].at \in Welcome PROVE Approved(r)'
      BY DEF Answered
    <3>1. CASE r = q
      BY <2>8, <3>1 DEF Approved
    <3>2. CASE r # q
      BY <1>3, <2>3, <3>2 DEF PairInv, Answered
    <3> QED BY <3>1, <3>2
  <2>11. Claimed'
    <3> DEFINE Won(b) == /\ session'[b].won \in Requests
                         /\ asker'[session'[b].won].at \in Past
                         /\ \E x \in Roles : <<session'[b].won, x>> \in yes'
    <3>1. ASSUME NEW b \in Codes \ {c}
          PROVE  /\ session'[b].by = "cloud" => <<b, "cloud">> \in yes'
                 /\ session'[b].by = "lan" => Won(b)
                 /\ session'[b].by # "lan" => session'[b].won = Nobody
      BY <1>1, <2>4, <2>9 DEF PairInv, Claimed, Approved
    <3>2. Won(c)
      BY <2>3, <2>4, <2>8, <2>9
    <3> QED BY <2>4, <3>1, <3>2 DEF Claimed, Approved
  <2>12. KeysOK'
    BY <1>1, <1>3, <2>9 DEF PairInv, KeysOK
  <2>13. CodesOK'
    BY <1>1, <2>1 DEF PairInv, CodesOK, TakenDown
  <2> QED BY <2>3, <2>4, <2>6, <2>7, <2>10, <2>11, <2>12, <2>13 DEF PairInv
<1> QED BY <1>4, <1>5

LEMMA NextPairInv == PairInv /\ [LpNext]_lpVars => PairInv'
<1> SUFFICES ASSUME PairInv, [LpNext]_lpVars PROVE PairInv'
  OBVIOUS
<1>1. ASSUME NEW d \in Dialogs, Approve(d, "control") \/ Approve(d, "view") PROVE PairInv'
  BY <1>1, ApproveKeeps DEF Roles
<1>2. CASE UNCHANGED lpVars
  <2>1. UNCHANGED <<session, asker, yes, dialog, station, keyed, trusted>> /\ CodesOK'
    BY <1>2 DEF lpVars, PairInv, CodesOK
  <2> QED BY <2>1, UnchangedQuiet, DialogsRest
<1> QED BY <1>1, <1>2, QuietDialogKeeps, PollStatusKeeps, ApproveCloudKeeps, CreateKeeps,
           AddPhoneKeeps, CallKeeps, CodeKeeps DEF LpNext

\* A station, an island key or a trusted key comes only of the owner's yes to
\* the very phone, or cloud claim, the dialog named; a phone told 200 was
\* approved, and one refused has nothing (config_flow.py:786-853,
\* local_pairing.py:218-236).
THEOREM OnlyWhoWasNamed == LpSpec => []PairedAsShown
<1>1. PairInv => PairedAsShown
  <2> SUFFICES ASSUME PairInv PROVE PairedAsShown
    OBVIOUS
  <2>1. ASSUME NEW c \in Codes, station[c] # "none"
        PROVE  IF session[c].by = "cloud" THEN <<c, "cloud">> \in yes
               ELSE <<session[c].won, "control">> \in yes
    BY <2>1 DEF PairInv, StationsOK, Commands, Claimed
  <2>2. ASSUME NEW r \in Requests, asker[r].at = "refused" PROVE ~Granted(r)
    <3>1. "refused" \notin Past
      BY DEF Past, Welcome
    <3>2. r \notin keyed \cup trusted
      BY <2>2, <3>1 DEF PairInv, KeysOK
    <3>3. ASSUME NEW c \in Codes, station[c] # "none", session[c].won = r PROVE FALSE
      BY <2>2, <3>1, <3>3, PairingAssumption DEF PairInv, StationsOK, Commands, Claimed
    <3> QED BY <3>2, <3>3 DEF Granted
  <2>3. \A r \in Requests : asker[r].at = "paired" => Approved(r)
    BY DEF PairInv, Answered, Welcome
  <2> QED BY <2>1, <2>2, <2>3 DEF PairedAsShown, PairInv, KeysOK, Approved
<1> QED BY <1>1, InitPairInv, NextPairInv, PTL DEF LpSpec

-----------------------------------------------------------------------------
(* Codes. *)

\* Every code at hand was shown.
CodesShown ==
    /\ offered <= shownCodes /\ published <= shownCodes
    /\ \A c \in claims : c <= shownCodes
    /\ \A c \in Codes : station[c] # "none" => c <= shownCodes
    /\ \A d \in Dialogs : dialog[d].code <= shownCodes /\ dialog[d].joins <= shownCodes
    /\ \A r \in Requests : asker[r].code <= shownCodes

LEMMA CodesTyped ==
    ASSUME PairInv
    PROVE  /\ shownCodes \in Nat /\ offered \in Nat /\ published \in Nat
           /\ claims \subseteq Codes /\ Codes \subseteq Nat /\ NoCode \in Nat /\ NoCode <= shownCodes
           /\ dialog \in [Dialogs -> Windows] /\ asker \in [Requests -> Calls]
           /\ \A d \in Dialogs : dialog[d].code \in Nat /\ dialog[d].joins \in Nat
           /\ \A r \in Requests : asker[r].code \in Nat
           /\ station \in [Codes -> {"none", "here", "removed"}]
           /\ session \in [Codes -> Sessions]
BY PairingAssumption DEF PairInv, CodesOK, CallsOK, DialogsOK, StationsOK, SessionsOK, Codes, NoCode,
   Windows, Calls

\* A step brings no code in but the one it shows.
NoneBrought ==
    /\ shownCodes' \in {shownCodes, shownCodes + 1}
    /\ offered' \in {offered, NoCode, shownCodes'} /\ published' \in {published, NoCode, shownCodes'}
    /\ \A d \in Dialogs :
          /\ dialog'[d].code \in {dialog[d].code, NoCode, shownCodes'}
          /\ dialog'[d].joins \in {dialog[d].joins, NoCode} \cup Stations
    /\ \A r \in Requests : asker'[r].code \in {asker[r].code, offered}
    /\ claims' \subseteq claims \cup {dialog[d].code : d \in Dialogs}
    /\ \A c \in Codes : station'[c] # "none" =>
          station[c] # "none" \/ \E d \in Dialogs : c = dialog[d].code

LEMMA NoneBroughtKeeps ==
    ASSUME PairInv, CodesShown, NoneBrought
    PROVE  CodesShown'
<1>1. /\ shownCodes \in Nat /\ shownCodes' \in Nat /\ shownCodes <= shownCodes'
      /\ NoCode <= shownCodes' /\ Codes \subseteq Nat
      /\ offered \in Nat /\ published \in Nat /\ claims \subseteq Codes
  BY CodesTyped DEF NoneBrought, NoCode
<1>2. offered' <= shownCodes' /\ published' <= shownCodes'
  BY <1>1 DEF NoneBrought, CodesShown
<1>3. \A d \in Dialogs : dialog'[d].code <= shownCodes' /\ dialog'[d].joins <= shownCodes'
  <2> TAKE d \in Dialogs
  <2>1. \A c \in Stations : c \in Nat /\ c <= shownCodes
    BY <1>1 DEF Stations, CodesShown
  <2>2. dialog[d].code \in Nat /\ dialog[d].joins \in Nat
    BY CodesTyped
  <2> QED BY <1>1, <2>1, <2>2 DEF NoneBrought, CodesShown
<1>4. \A r \in Requests : asker'[r].code <= shownCodes'
  BY <1>1, CodesTyped DEF NoneBrought, CodesShown
<1>5. \A c \in claims' : c <= shownCodes'
  BY <1>1, CodesTyped DEF NoneBrought, CodesShown
<1>6. \A c \in Codes : station'[c] # "none" => c <= shownCodes'
  BY <1>1 DEF NoneBrought, CodesShown
<1> QED BY <1>2, <1>3, <1>4, <1>5, <1>6 DEF CodesShown

LEMMA DecidesCodes ==
    ASSUME PairInv, NEW c, NEW answer
    PROVE  \A r \in Requests : Decided(c, answer)[r].code = asker[r].code
BY CodesTyped DEF Decided, Calls

LEMMA ClosesCodes ==
    ASSUME PairInv, NEW c, Close(c)
    PROVE  /\ offered' \in {offered, NoCode} /\ published' \in {published, NoCode}
           /\ \A r \in Requests : asker'[r].code = asker[r].code
BY DecidesCodes DEF Close, TakenDown, Decide

LEMMA ShowsCodes ==
    ASSUME PairInv, NEW d \in Dialogs, NEW step, NEW poll, NEW joins, Show(d, step, poll, joins)
    PROVE  /\ shownCodes' = shownCodes + 1 /\ offered' = shownCodes' /\ published' = shownCodes'
           /\ \A e \in Dialogs : /\ dialog'[e].code \in {dialog[e].code, shownCodes'}
                                 /\ dialog'[e].joins \in {dialog[e].joins, joins}
BY CodesTyped DEF Show, Windows

LEMMA JoinsCodes ==
    ASSUME PairInv, NEW d \in Dialogs, Joins(d)
    PROVE  /\ shownCodes' = shownCodes + 1 /\ offered' = shownCodes' /\ published' = shownCodes'
           /\ \A e \in Dialogs : /\ dialog'[e].code \in {dialog[e].code, shownCodes'}
                                 /\ dialog'[e].joins \in {dialog[e].joins} \cup Stations
BY ShowsCodes DEF Joins

\* What a step makes of a dialog keeps its codes, or forgets them.
LEMMA DialogCodes ==
    ASSUME PairInv, NEW d \in Dialogs
    PROVE  /\ \A step : \A e \in Dialogs :
                 To(d, step)[e].code = dialog[e].code /\ To(d, step)[e].joins = dialog[e].joins
           /\ \A e \in Dialogs : /\ Ended(d)[e].code \in {dialog[e].code, NoCode}
                                 /\ Ended(d)[e].joins \in {dialog[e].joins, NoCode}
           /\ \A e \in Dialogs : /\ Waits(d)[e].code = dialog[e].code
                                 /\ Waits(d)[e].joins = dialog[e].joins
           /\ \A e \in Dialogs : /\ Asks(d)[e].code = dialog[e].code
                                 /\ Asks(d)[e].joins = dialog[e].joins
<1>1. dialog \in [Dialogs -> Windows]
  BY CodesTyped
<1>2. \A e \in Dialogs : Waits(d)[e].code = dialog[e].code /\ Waits(d)[e].joins = dialog[e].joins
  BY <1>1 DEF Waits, Windows
<1>3. \A e \in Dialogs : /\ Ended(d)[e].code \in {dialog[e].code, NoCode}
                         /\ Ended(d)[e].joins \in {dialog[e].joins, NoCode}
  BY <1>1 DEF Ended, Unopened, Windows
<1>4. \A e \in Dialogs : Asks(d)[e].code = dialog[e].code /\ Asks(d)[e].joins = dialog[e].joins
  BY <1>1, <1>2 DEF Asks, Windows
<1>5. \A step : \A e \in Dialogs :
         To(d, step)[e].code = dialog[e].code /\ To(d, step)[e].joins = dialog[e].joins
  BY <1>1 DEF To, Windows
<1> QED BY <1>2, <1>3, <1>4, <1>5

LEMMA DialogBrings ==
    ASSUME PairInv, NEW d \in Dialogs,
           \/ Begin(d) \/ StartAnswered(d) \/ WaitEnds(d) \/ Reenter(d) \/ Dismiss(d)
           \/ PollStatus(d) \/ Reject(d) \/ RejectCloud(d)
           \/ Finalize(d) \/ Hardware(d) \/ Create(d) \/ AddPhone(d)
    PROVE  NoneBrought
<1>1. CASE Begin(d)
  BY <1>1, JoinsCodes, DialogCodes DEF Begin, NoneBrought
<1>2. CASE StartAnswered(d)
  BY <1>2, ShowsCodes DEF StartAnswered, NoneBrought
<1>3. CASE WaitEnds(d)
  BY <1>3, CodesTyped DEF WaitEnds, NoneBrought, Windows
<1>4. CASE Reenter(d)
  BY <1>4, ClosesCodes, DialogCodes DEF Reenter, NoneBrought
<1>5. CASE Dismiss(d)
  BY <1>5, ClosesCodes, DialogCodes DEF Dismiss, NoneBrought
<1>6. CASE PollStatus(d)
  BY <1>6, CodesTyped DEF PollStatus, NoneBrought, Windows
<1>7. CASE Reject(d)
  BY <1>7, DecidesCodes, DialogCodes DEF Reject, Decide, NoneBrought
<1>8. CASE RejectCloud(d)
  <2>1. CASE Joins(d) /\ UNCHANGED <<session, asker>>
    BY <1>8, <2>1, JoinsCodes DEF RejectCloud, NoneBrought
  <2>2. CASE /\ Close(dialog[d].code) /\ UNCHANGED shownCodes
             /\ dialog' = [dialog EXCEPT ![d] = [Unopened EXCEPT !.step = "restarting",
                                                                !.again = dialog[d].again]]
    <3>1. \A e \in Dialogs : /\ dialog'[e].code \in {dialog[e].code, NoCode}
                             /\ dialog'[e].joins \in {dialog[e].joins, NoCode}
      BY <2>2, CodesTyped DEF Unopened
    <3> QED BY <1>8, <2>2, <3>1, ClosesCodes DEF RejectCloud, NoneBrought
  <2> QED BY <1>8, <2>1, <2>2 DEF RejectCloud
<1>9. CASE Finalize(d)
  <2>1. CASE Joins(d)
    BY <1>9, <2>1, JoinsCodes DEF Finalize, NoneBrought
  <2>2. CASE ~Joins(d)
    <3>1. \/ \E step : dialog' = To(d, step)
          \/ dialog' = Ended(d)
          \/ dialog' = [dialog EXCEPT ![d].step = "restarting", ![d].again = TRUE]
      BY <1>9, <2>2 DEF Finalize
    <3>2. \A e \in Dialogs : /\ dialog'[e].code \in {dialog[e].code, NoCode}
                             /\ dialog'[e].joins \in {dialog[e].joins, NoCode}
      <4>1. ASSUME dialog' = [dialog EXCEPT ![d].step = "restarting", ![d].again = TRUE]
            PROVE  \A e \in Dialogs : /\ dialog'[e].code = dialog[e].code
                                      /\ dialog'[e].joins = dialog[e].joins
        BY <4>1, CodesTyped DEF Windows
      <4> QED BY <3>1, <4>1, DialogCodes
    <3> QED BY <1>9, <2>2, <3>2 DEF Finalize, NoneBrought
  <2> QED BY <2>1, <2>2
<1>10. CASE Hardware(d)
  BY <1>10, DialogCodes DEF Hardware, NoneBrought
<1>11. CASE Create(d)
  BY <1>11, DialogCodes, CodesTyped DEF Create, NoneBrought
<1>12. CASE AddPhone(d)
  <2>1. UNCHANGED <<shownCodes, offered, published, asker, claims, station>>
    BY <1>12 DEF AddPhone
  <2>2. dialog' = Ended(d) \/ \E step : dialog' = To(d, step)
    BY <1>12 DEF AddPhone, Fails
  <2> QED BY <2>1, <2>2, DialogCodes DEF NoneBrought
<1> QED BY <1>1, <1>2, <1>3, <1>4, <1>5, <1>6, <1>7, <1>8, <1>9, <1>10, <1>11, <1>12

LEMMA ApprovalBrings ==
    ASSUME PairInv, NEW d \in Dialogs,
           Approve(d, "control") \/ Approve(d, "view") \/ ApproveCloud(d)
    PROVE  NoneBrought
<1>1. ASSUME NEW role \in Roles, Approve(d, role) PROVE NoneBrought
  <2> DEFINE c == dialog[d].code
             fails == dialog[d].joins # NoCode /\ dialog[d].joins \notin Stations
  <2>1. CASE ~Approves(c, dialog[d].shown)
    BY <1>1, <2>1, DialogCodes DEF Approve, NoneBrought
  <2>2. CASE Approves(c, dialog[d].shown)
    <3>1. /\ asker' = Decided(c, "approved") /\ TakenDown(c, "lan")
          /\ \/ dialog' = Ended(d)
             \/ \E step : dialog' = [dialog EXCEPT ![d].step = step, ![d].poll = "none",
                                                   ![d].role = role]
          /\ UNCHANGED <<shownCodes, claims, station>>
      BY <1>1, <2>2 DEF Approve
    <3>2. \A e \in Dialogs : /\ dialog'[e].code \in {dialog[e].code, NoCode}
                             /\ dialog'[e].joins \in {dialog[e].joins, NoCode}
      <4>1. ASSUME NEW step, dialog' = [dialog EXCEPT ![d].step = step, ![d].poll = "none",
                                                      ![d].role = role]
            PROVE  \A e \in Dialogs : /\ dialog'[e].code = dialog[e].code
                                      /\ dialog'[e].joins = dialog[e].joins
        BY <4>1, CodesTyped DEF Windows
      <4> QED BY <3>1, <4>1, DialogCodes
    <3>3. /\ offered' \in {offered, NoCode} /\ published' \in {published, NoCode}
          /\ \A r \in Requests : asker'[r].code = asker[r].code
      <4>1. offered' \in {offered, NoCode} /\ published' \in {published, NoCode}
        BY <3>1 DEF TakenDown
      <4>2. \A r \in Requests : Decided(c, "approved")[r].code = asker[r].code
        BY DecidesCodes
      <4> QED BY <3>1, <4>1, <4>2
    <3> QED BY <3>1, <3>2, <3>3 DEF NoneBrought
  <2> QED BY <2>1, <2>2
<1>2. CASE ApproveCloud(d)
  <2>1. \/ dialog' = Waits(d) /\ UNCHANGED <<offered, published>>
        \/ /\ TakenDown(dialog[d].code, "cloud")
           /\ dialog' = [dialog EXCEPT ![d].step = "finalizing", ![d].poll = "none"]
    BY <1>2 DEF ApproveCloud
  <2>2. \A e \in Dialogs : dialog'[e].code = dialog[e].code /\ dialog'[e].joins = dialog[e].joins
    BY <2>1, DialogCodes, CodesTyped DEF Windows
  <2> QED BY <1>2, <2>1, <2>2 DEF ApproveCloud, TakenDown, NoneBrought
<1> QED BY <1>1, <1>2 DEF Roles

LEMMA CallBrings ==
    ASSUME PairInv, NEW r \in Requests,
           Post(r) \/ ReadBody(r) \/ Built(r) \/ GivesUp(r) \/ Hear(r) \/ Join(r)
    PROVE  NoneBrought
<1>1. UNCHANGED <<shownCodes, offered, published, dialog, claims, station>>
  BY DEF Post, ReadBody, Built, GivesUp, Hear, Join
<1>2. \/ \E at : asker' = Goes(r, at)
      \/ asker' = [asker EXCEPT ![r] = [at |-> "reading", code |-> offered]]
  BY DEF Post, ReadBody, Built, GivesUp, Hear, Join, Requested
<1>3. \A q \in Requests : asker'[q].code \in {asker[q].code, offered}
  BY <1>2, CodesTyped DEF Goes, Calls
<1> QED BY <1>1, <1>3 DEF NoneBrought

LEMMA CodeBrings ==
    ASSUME PairInv, NEW c \in Codes, WindowCloses(c) \/ CloudClaim(c) \/ RemoveStation(c)
    PROVE  NoneBrought
<1>1. CASE WindowCloses(c)
  BY <1>1 DEF WindowCloses, NoneBrought
<1>2. CASE CloudClaim(c)
  BY <1>2 DEF CloudClaim, NoneBrought
<1>3. CASE RemoveStation(c)
  BY <1>3, CodesTyped DEF RemoveStation, NoneBrought
<1> QED BY <1>1, <1>2, <1>3

LEMMA CodesStayShown == PairInv /\ CodesShown /\ [LpNext]_lpVars => CodesShown'
<1>1. ASSUME PairInv, LpNext PROVE NoneBrought
  BY <1>1, DialogBrings, ApprovalBrings, CallBrings, CodeBrings DEF LpNext
<1>2. CodesShown /\ UNCHANGED lpVars => CodesShown'
  BY DEF lpVars, CodesShown
<1> QED BY <1>1, <1>2, NoneBroughtKeeps

LEMMA CodesStartShown == LpInit => CodesShown
BY PairingAssumption DEF LpInit, CodesShown, Codes, NoCode, Unopened

\* Sessions, dialogs and calls are well formed, and every code offered, published,
\* claimed, asked with or paired under was shown by a dialog before.
THEOREM PairingTypeCorrect == LpSpec => []LpTypeOK
<1>1. PairInv /\ CodesShown => LpTypeOK
  <2> SUFFICES ASSUME PairInv, CodesShown PROVE LpTypeOK
    OBVIOUS
  <2>1. session \in [Codes -> Sessions] /\ shownCodes \in 0..MaxCodes
    BY DEF PairInv, SessionsOK, CodesOK
  <2>2. {offered, published} \subseteq 0..shownCodes /\ claims \subseteq 1..shownCodes
    BY <2>1, CodesTyped DEF CodesShown, Codes
  <2>3. \A d \in Dialogs : /\ {dialog[d].code, dialog[d].joins} \subseteq 0..shownCodes
                           /\ dialog[d].shown \in Requests \cup {Nobody}
    BY CodesTyped DEF CodesShown, Windows
  <2>4. \A r \in Requests : asker[r].code \in 0..shownCodes
    BY CodesTyped DEF CodesShown
  <2>5. {keyed, trusted} \subseteq SUBSET Requests
    BY DEF PairInv, KeysOK
  <2> QED BY <2>1, <2>2, <2>3, <2>4, <2>5 DEF LpTypeOK, Sessions
<1> QED BY <1>1, InitPairInv, NextPairInv, CodesStartShown, CodesStayShown, PTL DEF LpSpec

(***************************************************************************)
(* EntryUpdates.                                                           *)
(***************************************************************************)

RunnerType == [at : {"idle", "probe", "ack", "apply"}, cmd : Changes \cup {"none"},
               verdict : Verdicts \cup {"none"}]
CloudType == [Changes -> {"pending", "delivered"} \cup Verdicts]

\* A change of the entry is typed, if the fields it writes are.
LEMMA UpdateType ==
    ASSUME NEW new \in [Fields -> Nat], NEW skips \in BOOLEAN, NEW own \in Nat,
           NEW once \in BOOLEAN, NEW cadence \in BOOLEAN, reloads \in Nat,
           Update(new, skips, own, once, cadence)
    PROVE  /\ data' = new /\ data' \in [Fields -> Nat]
           /\ reloads' \in Nat /\ reloads' >= reloads + own
           /\ skipOnce' \in BOOLEAN /\ cadenceOnly' \in BOOLEAN
<1>1. data' = new /\ skipOnce' \in BOOLEAN /\ cadenceOnly' \in BOOLEAN
  BY DEF Update
<1>2. reloads' = reloads + own \/ reloads' = reloads + own + 1
  BY DEF Update
<1> QED
  BY <1>1, <1>2

LEMMA RestingType == Resting \in RunnerType /\ Resting.at = "idle"
  BY DEF Resting, RunnerType

LEMMA AfterAckType ==
    ASSUME runner \in RunnerType
    PROVE  /\ AfterAck \in RunnerType
           /\ AfterAck.at = "apply" => AfterAck.verdict = "success" /\ runner.verdict = "success"
           /\ AfterAck.at # "idle" => AfterAck.cmd = runner.cmd
  BY RestingType DEF AfterAck, Applies, RunnerType, Resting

\* A status of the cloud changes to a verdict.
LEMMA AnsweredType ==
    ASSUME cloud \in CloudType, runner \in RunnerType, runner.verdict # "none"
    PROVE  [cloud EXCEPT ![runner.cmd] = runner.verdict] \in CloudType
  BY DEF CloudType, RunnerType

-----------------------------------------------------------------------------
(* The inductive invariant: a command under way has a verdict, an inverter *)
(* being added is not there yet, and where no reload is outstanding setup  *)
(* has read what the commands changed.                                     *)

RunnerKnows ==
    /\ runner.at # "idle" => runner.verdict # "none" /\ runner.cmd # "none"
    /\ runner.at = "apply" => runner.verdict = "success"
AddedOnce ==
    /\ data["add"] <= 1 /\ data["map"] \in {0, 1}
    /\ runner.at # "idle" /\ runner.cmd = "add" /\ runner.verdict = "success" => data["add"] = 0
ReadUnlessReloading ==
    phase # "down" /\ reloads = 0 => \A c \in CommandKinds : running[c] = data[c]
EuInv == EuTypeOK /\ RunnerKnows /\ AddedOnce /\ ReadUnlessReloading

-----------------------------------------------------------------------------
LEMMA EuInitEstablishes == EuInit => EuInv
<1> SUFFICES ASSUME EuInit PROVE EuInv
  OBVIOUS
<1>1. data \in [Fields -> Nat] /\ running \in [Fields -> Nat]
  BY DEF EuInit
<1>2. cloud \in CloudType
  BY DEF EuInit, CloudType
<1>3. runner \in RunnerType /\ runner.at = "idle"
  BY RestingType DEF EuInit
<1>4. EuTypeOK
  BY <1>1, <1>2, <1>3 DEF EuInit, EuTypeOK, CloudType, RunnerType
<1>5. RunnerKnows /\ AddedOnce
  BY <1>3 DEF EuInit, RunnerKnows, AddedOnce, Fields, CommandKinds
<1>6. ReadUnlessReloading
  BY DEF EuInit, ReadUnlessReloading
<1> QED
  BY <1>4, <1>5, <1>6 DEF EuInv

\* A reload ends what the poller was doing, and a setup reads everything.
LEMMA ReloadStepKeeps == EuInv /\ ReloadStep => EuInv'
<1> SUFFICES ASSUME EuInv, ReloadStep PROVE EuInv'
  OBVIOUS
<1> USE DEF EuInv
<1>1. runner \in RunnerType /\ cloud \in CloudType
  BY DEF EuTypeOK, RunnerType, CloudType
<1>2. CASE Unload
  <2>1. cloud' \in CloudType
    BY <1>1, <1>2, AnsweredType DEF Unload, RunnerKnows
  <2>2. runner' \in RunnerType /\ runner'.at = "idle"
    BY <1>2, RestingType DEF Unload
  <2>3. EuTypeOK'
    BY <1>2, <2>1, <2>2 DEF Unload, EuTypeOK, CloudType, RunnerType
  <2>4. (RunnerKnows /\ AddedOnce /\ ReadUnlessReloading)'
    BY <1>2, <2>2 DEF Unload, RunnerKnows, AddedOnce, ReadUnlessReloading
  <2> QED
    BY <2>3, <2>4
<1>3. CASE SetupReads
  <2>1. EuTypeOK'
    BY <1>3 DEF SetupReads, EuTypeOK
  <2>2. (RunnerKnows /\ AddedOnce /\ ReadUnlessReloading)'
    BY <1>3 DEF SetupReads, RunnerKnows, AddedOnce, ReadUnlessReloading
  <2> QED
    BY <2>1, <2>2
<1>4. CASE SetupEnds
  <2>1. EuTypeOK'
    BY <1>4 DEF SetupEnds, EuTypeOK
  <2>2. (RunnerKnows /\ AddedOnce /\ ReadUnlessReloading)'
    BY <1>4 DEF SetupEnds, RunnerKnows, AddedOnce, ReadUnlessReloading
  <2> QED
    BY <2>1, <2>2
<1> QED
  BY <1>2, <1>3, <1>4 DEF ReloadStep

\* The poller's steps up to the change leave the entry alone.
LEMMA PollKeeps == ASSUME NEW c \in Changes, EuInv, Poll(c) PROVE EuInv'
<1> USE DEF EuInv
<1>1. runner' = [at |-> IF Probes(c) THEN "probe" ELSE "ack", cmd |-> c, verdict |-> Judged(c)]
  BY DEF Poll
<1>2. Judged(c) \in Verdicts /\ c # "none"
  BY EntryAssumption DEF Judged, Verdicts, CommandKinds
<1>3. runner' \in RunnerType /\ runner'.verdict # "none" /\ runner'.cmd # "none"
         /\ runner'.at # "apply"
  BY <1>1, <1>2 DEF RunnerType, Verdicts
<1>4. cloud' \in CloudType
  BY DEF Poll, EuTypeOK, CloudType
<1>5. EuTypeOK'
  BY <1>3, <1>4 DEF Poll, EuTypeOK, CloudType, RunnerType
<1>6. c = "add" /\ Judged(c) = "success" => data["add"] = 0
  <2>1. data["add"] \in Nat
    BY DEF EuTypeOK, Fields, CommandKinds
  <2> QED
    BY <2>1 DEF Judged, Present
<1>7. (RunnerKnows /\ AddedOnce /\ ReadUnlessReloading)'
  BY <1>1, <1>3, <1>6 DEF Poll, RunnerKnows, AddedOnce, ReadUnlessReloading
<1> QED
  BY <1>5, <1>7

LEMMA BeforeApplyKeeps == EuInv /\ (Probe \/ Ack \/ AckFails) => EuInv'
<1> SUFFICES ASSUME EuInv, Probe \/ Ack \/ AckFails PROVE EuInv'
  OBVIOUS
<1> USE DEF EuInv
<1>1. runner \in RunnerType /\ cloud \in CloudType
  BY DEF EuTypeOK, RunnerType, CloudType
<1>2. UNCHANGED <<data, running, phase, reloads, skipOnce, cadenceOnly>>
  BY DEF Probe, Ack, AckFails
<1>3. runner.at # "idle" /\ runner.verdict # "none" /\ runner.cmd # "none"
  BY DEF Probe, Ack, AckFails, RunnerKnows
<1>4. cloud' \in CloudType
  BY <1>1, <1>3, AnsweredType DEF Probe, Ack, AckFails
<1>5. /\ runner' \in RunnerType
      /\ runner'.at = "apply" => runner'.verdict = "success"
      /\ runner'.at # "idle" => /\ runner'.cmd = runner.cmd
                                /\ runner'.verdict # "none"
                                /\ runner'.verdict = "success" => runner.verdict = "success"
  <2>1. CASE Probe
    <3>1. CASE runner' = [runner EXCEPT !.at = "ack"]
      BY <1>1, <1>3, <3>1 DEF RunnerType
    <3>2. CASE runner' = [runner EXCEPT !.at = "ack", !.verdict = "rejected"]
      BY <1>1, <1>3, <3>2 DEF RunnerType, Verdicts
    <3> QED
      BY <2>1, <3>1, <3>2 DEF Probe
  <2>2. CASE runner' = AfterAck
    <3>1. AfterAck.at # "idle" => AfterAck.verdict = runner.verdict
      BY <1>1, RestingType DEF AfterAck, Applies, RunnerType
    <3> QED
      BY <1>1, <1>3, <2>2, <3>1, AfterAckType
  <2>3. CASE runner' = Resting
    BY <2>3, RestingType
  <2> QED
    BY <2>1, <2>2, <2>3 DEF Ack, AckFails
<1>6. EuTypeOK'
  BY <1>2, <1>4, <1>5 DEF EuTypeOK, CloudType, RunnerType
<1>7. RunnerKnows'
  BY <1>3, <1>5 DEF RunnerKnows
<1>8. AddedOnce'
  BY <1>2, <1>3, <1>5 DEF AddedOnce
<1>9. ReadUnlessReloading'
  BY <1>2 DEF ReadUnlessReloading
<1> QED
  BY <1>6, <1>7, <1>8, <1>9

\* A command changes the entry and leaves a reload behind, or changes nothing.
LEMMA ApplyKeeps == EuInv /\ Apply => EuInv'
<1> SUFFICES ASSUME EuInv, Apply PROVE EuInv'
  OBVIOUS
<1> USE DEF EuInv
<1> DEFINE c == runner.cmd
<1>1. /\ runner.at = "apply" /\ runner' = Resting
      /\ UNCHANGED <<running, phase, cloud>>
  BY DEF Apply
<1>2. runner' \in RunnerType /\ runner'.at = "idle" /\ runner.verdict = "success"
  BY <1>1, RestingType DEF RunnerKnows
<1>3. /\ data \in [Fields -> Nat] /\ reloads \in Nat
      /\ skipOnce \in BOOLEAN /\ cadenceOnly \in BOOLEAN
  BY DEF EuTypeOK
<1>4. c \in CommandKinds => /\ Applied(c) \in [Fields -> Nat]
                            /\ Applied(c)["add"] <= 1
                            /\ Applied(c)["map"] = data["map"]
  <2>1. /\ "add" \in Fields /\ "map" \in Fields /\ CommandKinds \subseteq Fields
       /\ "map" \notin CommandKinds
    BY DEF Fields, CommandKinds
  <2>2. CASE c = "add"
    <3>1. data["add"] = 0
      BY <1>1, <1>2, <2>2 DEF AddedOnce
    <3>2. Applied(c) = [data EXCEPT !["add"] = 1]
      BY <2>2, <3>1, <1>3 DEF Applied
    <3> QED
      BY <3>2, <2>1, <1>3
  <2>3. CASE c # "add"
    <3>1. Applied(c) = [data EXCEPT ![c] = 1]
      BY <2>3 DEF Applied
    <3> QED
      BY <3>1, <2>3, <2>1, <1>3 DEF AddedOnce
  <2> QED
    BY <2>2, <2>3
<1>5. \/ UNCHANGED <<data, reloads, skipOnce, cadenceOnly>>
      \/ /\ c \in CommandKinds
         /\ \E skips, once \in BOOLEAN :
               Update(Applied(c), skips, 1, once, cadenceOnly)
  BY <1>3 DEF Apply, OwnReload, CommandKinds
<1>6. /\ data' \in [Fields -> Nat] /\ reloads' \in Nat
      /\ skipOnce' \in BOOLEAN /\ cadenceOnly' \in BOOLEAN
      /\ data'["add"] <= 1 /\ data'["map"] \in {0, 1}
      /\ reloads' = 0 => data' = data /\ reloads = 0
  <2>1. CASE UNCHANGED <<data, reloads, skipOnce, cadenceOnly>>
    BY <2>1, <1>3 DEF AddedOnce
  <2>2. ASSUME c \in CommandKinds, NEW skips \in BOOLEAN, NEW once \in BOOLEAN,
               Update(Applied(c), skips, 1, once, cadenceOnly)
        PROVE  /\ data' \in [Fields -> Nat] /\ reloads' \in Nat
               /\ skipOnce' \in BOOLEAN /\ cadenceOnly' \in BOOLEAN
               /\ data'["add"] <= 1 /\ data'["map"] \in {0, 1}
               /\ reloads' = 0 => data' = data /\ reloads = 0
    <3> HIDE DEF c
    <3>1. /\ data' = Applied(c) /\ data' \in [Fields -> Nat]
          /\ reloads' \in Nat /\ reloads' >= reloads + 1
          /\ skipOnce' \in BOOLEAN /\ cadenceOnly' \in BOOLEAN
      BY <2>2, <1>3, <1>4, UpdateType
    <3> QED
      BY <3>1, <2>2, <1>4, <1>3 DEF AddedOnce
  <2> QED
    BY <1>5, <2>1, <2>2
<1>7. EuTypeOK'
  BY <1>1, <1>2, <1>6 DEF EuTypeOK, RunnerType
<1>8. (RunnerKnows /\ AddedOnce /\ ReadUnlessReloading)'
  BY <1>1, <1>2, <1>6 DEF RunnerKnows, AddedOnce, ReadUnlessReloading
<1> QED
  BY <1>7, <1>8

\* What the owner edits is no command's field, or leaves a reload behind.
LEMMA OwnerKeeps == EuInv /\ (OptionsEdit \/ CadencePut \/ LanIngest) => EuInv'
<1> SUFFICES ASSUME EuInv, OptionsEdit \/ CadencePut \/ LanIngest PROVE EuInv'
  OBVIOUS
<1> USE DEF EuInv
<1>1. UNCHANGED <<running, phase, cloud, runner>>
  BY DEF OptionsEdit, CadencePut, LanIngest
<1>2. /\ data \in [Fields -> Nat] /\ reloads \in Nat
      /\ skipOnce \in BOOLEAN /\ cadenceOnly \in BOOLEAN
  BY DEF EuTypeOK
<1>3. \E f \in {"map", "cadence", "ingest"}, v, own \in {0, 1},
         skips, once, cadence \in BOOLEAN :
         /\ f = "ingest" => own = 1
         /\ Update([data EXCEPT ![f] = v], skips, own, once, cadence)
  <2>1. CASE OptionsEdit
    <3>1. 1 - data["map"] \in {0, 1}
      BY DEF AddedOnce
    <3>2. Update([data EXCEPT !["map"] = 1 - data["map"]], FALSE, 0, skipOnce, cadenceOnly)
      BY <2>1 DEF OptionsEdit
    <3> QED
      BY <3>1, <3>2, <1>2
  <2>2. CASE CadencePut
    BY <2>2, <1>2 DEF CadencePut
  <2>3. CASE LanIngest
    BY <2>3, <1>2 DEF LanIngest, OwnReload
  <2> QED
    BY <2>1, <2>2, <2>3
<1>4. PICK f \in {"map", "cadence", "ingest"}, v \in {0, 1}, own \in {0, 1},
           skips \in BOOLEAN, once \in BOOLEAN, cadence \in BOOLEAN :
         /\ f = "ingest" => own = 1
         /\ Update([data EXCEPT ![f] = v], skips, own, once, cadence)
  BY <1>3
<1>5. f \in Fields /\ "map" \in Fields /\ CommandKinds \subseteq Fields
         /\ "add" \in Fields /\ f # "add" /\ (f # "ingest" => f \notin CommandKinds)
  BY DEF Fields, CommandKinds
<1> DEFINE new == [data EXCEPT ![f] = v]
<1>6. /\ new \in [Fields -> Nat] /\ new["add"] = data["add"]
      /\ new["map"] \in {v, data["map"]}
      /\ f # "ingest" => \A c \in CommandKinds : new[c] = data[c]
  BY <1>2, <1>5
<1>7. Update(new, skips, own, once, cadence)
  BY <1>4
<1> HIDE DEF new
<1>8. /\ data' = new /\ reloads' \in Nat /\ reloads' >= reloads + own
      /\ skipOnce' \in BOOLEAN /\ cadenceOnly' \in BOOLEAN
  BY <1>2, <1>6, <1>7, UpdateType
<1>9. EuTypeOK'
  BY <1>1, <1>6, <1>8 DEF EuTypeOK
<1>10. (RunnerKnows /\ AddedOnce)'
  BY <1>1, <1>6, <1>8 DEF RunnerKnows, AddedOnce
<1>11. ReadUnlessReloading'
  <2> SUFFICES ASSUME phase # "down", reloads' = 0
               PROVE  \A c \in CommandKinds : running[c] = data'[c]
    BY <1>1 DEF ReadUnlessReloading
  <2>1. reloads = 0 /\ own = 0
    BY <1>2, <1>8
  <2> QED
    BY <2>1, <1>4, <1>6, <1>8 DEF ReadUnlessReloading
<1> QED
  BY <1>9, <1>10, <1>11

LEMMA EuInvPreserved == EuInv /\ [EuNext]_euVars => EuInv'
<1> SUFFICES ASSUME EuInv, [EuNext]_euVars PROVE EuInv'
  OBVIOUS
<1>1. CASE UNCHANGED euVars
  BY <1>1 DEF euVars, EuInv, EuTypeOK, RunnerKnows, AddedOnce, ReadUnlessReloading
<1> QED
  BY <1>1, ReloadStepKeeps, PollKeeps, BeforeApplyKeeps, ApplyKeeps, OwnerKeeps
     DEF EuNext, PollerStep

\* The entry, the flags, the cloud's statuses and the poller are well typed in
\* every state.
THEOREM EntryTypeCorrect == EuSpec => []EuTypeOK
<1>1. EuInv => EuTypeOK
  BY DEF EuInv
<1> QED
  BY <1>1, EuInitEstablishes, EuInvPreserved, PTL DEF EuSpec

\* Once the reloads are over, what commands and LAN routes wrote to the entry
\* is what setup has read (entry_reload.py:20-28), and no redelivery has added
\* an inverter twice (command_poller.py:492-497).
THEOREM ChangesAreRead == EuSpec => []ChangesTakeEffect
<1>1. EuInv => ChangesTakeEffect
  BY DEF EuInv, ChangesTakeEffect, Settled, ReadUnlessReloading, AddedOnce
<1> QED
  BY <1>1, EuInitEstablishes, EuInvPreserved, PTL DEF EuSpec

(***************************************************************************)
(* SettingsSync.                                                           *)
(***************************************************************************)

Passes == [at : {"top", "seed", "begin", "read", "post", "save", "sleep", "dead"},
           seeded : BOOLEAN, retrying : BOOLEAN, retries : 0..Retries,
           read : SUBSET Units, todo : SUBSET Units, new : SUBSET Units,
           listed : [Units -> Models \cup {NoRead}], upload : BOOLEAN,
           unit : Units \cup {NoRead}, resized : BOOLEAN]
\* Whom it reads the entry lists, and what it uploads is served.
PassKnows ==
    /\ pass.at \in {"read", "post"} => \A u \in pass.todo : pass.listed[u] # NoRead
    /\ pass.at = "post" => pass.unit \in Units /\ served[pass.unit] # NoRead
SsInv == SsTypeOK /\ PassKnows

LEMMA SettingsTypes ==
    SsTypeOK <=>
        /\ conf \in [Units -> Models \cup {NoRead}]
        /\ edited \in BOOLEAN /\ ingest \in BOOLEAN
        /\ setting \in [Units -> {0, 1}]
        /\ served \in [Units -> Snaps] /\ stored \in [Units -> Snaps]
        /\ seeding \in [Units -> Snaps]
        /\ pass \in Passes
        /\ cache \in [Units -> {0, 1, NoRead}] /\ remote \in [Units -> {0, 1, NoRead}]
        /\ beat \subseteq Units /\ backoff \subseteq Units
BY DEF SsTypeOK, Passes

LEMMA SnapIs ==
    ASSUME NEW m \in Models, NEW v \in {0, 1}, NEW by \in {"read", "store", "phone"}
    PROVE  Snap(m, v, by) \in Snaps /\ Snap(m, v, by) # NoRead /\ Snap(m, v, by).value = v
BY SettingsAssumption DEF Snap, Snaps, Snapshots

LEMMA StartedIs == Started \in Passes /\ Started.at = "top" /\ Nothing \in [Units -> Snaps]
<1>1. Nothing \in [Units -> Snaps] /\ Nothing \in [Units -> Models \cup {NoRead}]
  BY DEF Nothing, Snaps
<1>2. 0 \in 0..Retries
  BY SettingsAssumption
<1> QED BY <1>1, <1>2 DEF Started, Passes

LEMMA SsStarts == SsInit => SsInv
<1> SUFFICES ASSUME SsInit PROVE SsInv
  OBVIOUS
<1>1. Nothing \in [Units -> {0, 1, NoRead}]
  BY DEF Nothing
<1> QED BY <1>1, StartedIs, SettingsTypes DEF SsInit, SsInv, PassKnows

\* What a step leaves to be shown when it touches the pass and what is served.
OnlyPassMoves ==
    UNCHANGED <<conf, edited, setting, stored, ingest, cache, beat, backoff, remote, seeding>>

LEMMA PassMoves ==
    ASSUME SsInv, OnlyPassMoves, pass' \in Passes, served' \in [Units -> Snaps], PassKnows'
    PROVE  SsInv'
BY SettingsTypes DEF SsInv, OnlyPassMoves, SsTypeOK, Passes

LEMMA PassBeginsKeeps == SsInv /\ PassBegins => SsInv'
<1> SUFFICES ASSUME SsInv, PassBegins PROVE SsInv'
  OBVIOUS
<1>1. pass' \in Passes /\ pass'.at \in {"begin", "seed"}
  BY SettingsTypes DEF SsInv, PassBegins, Passes, Listed
<1>2. served' \in [Units -> Snaps]
  BY SettingsTypes DEF SsInv, PassBegins, Snaps
<1> QED BY <1>1, <1>2, PassMoves DEF PassBegins, OnlyPassMoves, PassKnows

LEMMA SeedOneKeeps == ASSUME SsInv, NEW u \in Units, SeedOne(u) PROVE SsInv'
<1>1. pass' \in Passes /\ pass'.at = "seed"
  BY SettingsTypes DEF SsInv, SeedOne, Passes
<1>2. served' \in [Units -> Snaps]
  <2>1. CASE SeedTakes(u, stored[u])
    <3>1. stored[u] \in Snapshots
      BY <2>1, SettingsTypes DEF SsInv, SeedTakes, Snaps
    <3>2. [stored[u] EXCEPT !.by = "store"] \in Snaps
      BY <3>1 DEF Snaps, Snapshots
    <3> QED BY <2>1, <3>2, SettingsTypes DEF SsInv, SeedOne
  <2>2. CASE ~SeedTakes(u, stored[u])
    BY <2>2, SettingsTypes DEF SsInv, SeedOne
  <2> QED BY <2>1, <2>2
<1> QED BY <1>1, <1>2, PassMoves DEF SeedOne, OnlyPassMoves, PassKnows

LEMMA ReadsBeginKeeps == SsInv /\ ReadsBegin => SsInv'
<1> SUFFICES ASSUME SsInv, ReadsBegin PROVE SsInv'
  OBVIOUS
<1>1. Due \in SUBSET Units /\ \A u \in Due : pass.listed[u] # NoRead
  BY DEF Due
<1>2. pass' \in Passes /\ pass'.at = "read" /\ pass'.todo = Due /\ pass'.listed = pass.listed
  BY <1>1, SettingsTypes DEF SsInv, ReadsBegin, Passes
<1>3. served' \in [Units -> Snaps]
  BY SettingsTypes DEF SsInv, ReadsBegin
<1> QED BY <1>1, <1>2, <1>3, PassMoves DEF ReadsBegin, OnlyPassMoves, PassKnows

LEMMA ReadUnitKeeps == ASSUME SsInv, NEW u \in Units, ReadUnit(u) PROVE SsInv'
<1>1. pass \in Passes /\ pass.at = "read" /\ u \in pass.todo /\ pass.listed[u] # NoRead
      /\ \A w \in pass.todo : pass.listed[w] # NoRead
  BY SettingsTypes DEF SsInv, ReadUnit, PassKnows
<1>2. CASE ~Skips(u) /\ served' = [served EXCEPT ![u] = Snap(pass.listed[u], setting[u], "read")]
           /\ pass' = [pass EXCEPT !.todo = @ \ {u}, !.new = @ \cup {u},
                                   !.at = IF Uploads(u) THEN "post" ELSE "read",
                                   !.unit = IF Uploads(u) THEN u ELSE NoRead]
  <2>1. Snap(pass.listed[u], setting[u], "read") \in Snaps \ {NoRead}
    <3>1. pass.listed[u] \in Models /\ setting[u] \in {0, 1}
      BY <1>1, SettingsTypes DEF SsInv, Passes
    <3> QED BY <3>1, SnapIs
  <2>2. served' \in [Units -> Snaps] /\ served'[u] # NoRead
    BY <1>2, <2>1, SettingsTypes DEF SsInv
  <2>3. pass' \in Passes /\ pass'.todo = pass.todo \ {u} /\ pass'.listed = pass.listed
    BY <1>1, <1>2 DEF Passes
  <2>4. pass'.at = "post" => pass'.unit = u
    BY <1>1, <1>2 DEF Passes
  <2> QED BY <1>1, <2>2, <2>3, <2>4, PassMoves DEF ReadUnit, OnlyPassMoves, PassKnows
<1>3. CASE pass' = [pass EXCEPT !.todo = @ \ {u}] /\ UNCHANGED served
  <2>1. pass' \in Passes /\ pass'.at = "read" /\ pass'.todo = pass.todo \ {u}
        /\ pass'.listed = pass.listed
    BY <1>1, <1>3 DEF Passes
  <2>2. served' \in [Units -> Snaps]
    BY <1>3, SettingsTypes DEF SsInv
  <2> QED BY <1>1, <2>1, <2>2, PassMoves DEF ReadUnit, OnlyPassMoves, PassKnows
<1> QED BY <1>2, <1>3 DEF ReadUnit

LEMMA PostEndsKeeps == SsInv /\ PostEnds => SsInv'
<1> SUFFICES ASSUME SsInv, PostEnds PROVE SsInv'
  OBVIOUS
<1> DEFINE u == pass.unit
           v == served[u].value
<1>1. u \in Units /\ v \in {0, 1}
  BY SettingsTypes DEF SsInv, PassKnows, PostEnds, Snaps, Snapshots
<1>2. pass \in Passes /\ pass' \in Passes /\ pass'.at = "read" /\ pass'.todo = pass.todo
      /\ pass'.listed = pass.listed
  BY SettingsTypes DEF SsInv, PostEnds, Passes
<1>3. remote' \in {remote, [remote EXCEPT ![u] = v]} /\ cache' \in {cache, [cache EXCEPT ![u] = v]}
      /\ beat' \subseteq beat /\ backoff' \subseteq backoff \cup {u}
  BY DEF PostEnds
<1> HIDE DEF u, v
<1>4. /\ remote' \in [Units -> {0, 1, NoRead}] /\ cache' \in [Units -> {0, 1, NoRead}]
      /\ beat' \subseteq Units /\ backoff' \subseteq Units
  BY <1>1, <1>3, SettingsTypes DEF SsInv
<1>5. SsTypeOK'
  BY <1>2, <1>4, SettingsTypes DEF SsInv, PostEnds, SsTypeOK, Passes
<1>6. PassKnows'
  BY <1>2 DEF SsInv, PostEnds, PassKnows
<1> QED BY <1>5, <1>6 DEF SsInv

LEMMA SavesBeginKeeps == SsInv /\ SavesBegin => SsInv'
<1> SUFFICES ASSUME SsInv, SavesBegin PROVE SsInv'
  OBVIOUS
<1>1. pass' \in Passes /\ pass'.at = "save"
  BY SettingsTypes DEF SsInv, SavesBegin, Passes
<1>2. served' \in [Units -> Snaps]
  BY SettingsTypes DEF SsInv, SavesBegin
<1> QED BY <1>1, <1>2, PassMoves DEF SavesBegin, OnlyPassMoves, PassKnows

LEMMA SavedIs ==
    ASSUME SsInv, NEW u \in Units
    PROVE  Saved(u) \in [Units -> Snaps]
BY SettingsTypes DEF SsInv, Saved

LEMMA SaveOneKeeps == ASSUME SsInv, NEW u \in Units, SaveOne(u) PROVE SsInv'
<1>1. pass' \in Passes /\ pass'.at \in {"dead", "save"}
  BY SettingsTypes DEF SsInv, SaveOne, Passes
<1>2. stored' \in [Units -> Snaps]
  BY SavedIs DEF SaveOne
<1>3. SsTypeOK'
  BY <1>1, <1>2, SettingsTypes DEF SsInv, SaveOne, SsTypeOK, Passes
<1> QED BY <1>1, <1>3 DEF SsInv, PassKnows

LEMMA PassEndsKeeps == SsInv /\ (PassEnds \/ PassWakes) => SsInv'
<1> SUFFICES ASSUME SsInv, PassEnds \/ PassWakes PROVE SsInv'
  OBVIOUS
<1>1. served' \in [Units -> Snaps]
  BY SettingsTypes DEF SsInv, PassEnds, PassWakes
<1>2. CASE PassEnds
  <2> DEFINE retry == Unread /\ pass.retries < Retries
             tries == IF retry THEN pass.retries + 1 ELSE pass.retries
  <2>1. pass \in Passes /\ tries \in 0..Retries /\ retry \in BOOLEAN
    BY SettingsTypes, SettingsAssumption DEF SsInv, Passes
  <2>2. pass' = [pass EXCEPT !.at = "sleep", !.retrying = retry, !.retries = tries,
                             !.listed = Nothing, !.new = {}]
    BY <1>2, <2>1 DEF PassEnds, Passes
  <2>3. Nothing \in [Units -> Models \cup {NoRead}]
    BY DEF Nothing
  <2> HIDE DEF retry, tries
  <2>4. pass' \in Passes /\ pass'.at = "sleep"
    BY <2>1, <2>2, <2>3 DEF Passes
  <2> QED BY <1>1, <1>2, <2>4, PassMoves DEF PassEnds, OnlyPassMoves, PassKnows
<1>3. CASE PassWakes
  <2>1. pass' \in Passes /\ pass'.at = "top"
    BY <1>3, SettingsTypes DEF SsInv, PassWakes, Passes
  <2> QED BY <1>1, <1>3, <2>1, PassMoves DEF PassWakes, OnlyPassMoves, PassKnows
<1> QED BY <1>2, <1>3

\* What happens around the loop.
LEMMA SeedOnboardingKeeps == ASSUME SsInv, NEW u \in Units, SeedOnboarding(u) PROVE SsInv'
<1>1. conf[u] \in Models
  BY SettingsTypes DEF SsInv, SeedOnboarding, Listed
<1>2. PICK v \in {0, 1} : served' = [served EXCEPT ![u] = Snap(conf[u], v, "phone")]
  BY DEF SeedOnboarding
<1>3. Snap(conf[u], v, "phone") \in Snaps \ {NoRead}
  BY <1>1, SnapIs
<1>4. served' \in [Units -> Snaps] /\ \A w \in Units : served[w] # NoRead => served'[w] # NoRead
  BY <1>2, <1>3, SettingsTypes DEF SsInv
<1>5. seeding' \in [Units -> Snaps]
  BY <1>4, SettingsTypes DEF SsInv, SeedOnboarding
<1>6. pass' \in Passes /\ pass'.at = pass.at /\ pass'.todo = pass.todo
      /\ pass'.listed = pass.listed /\ pass'.unit = pass.unit
  <2> DEFINE new == IF pass.at \in {"read", "post"} THEN pass.new \cup {u} ELSE pass.new
             resized == pass.resized \/ (pass.at = "save" /\ served[u] = NoRead)
  <2>1. pass \in Passes
    BY SettingsTypes DEF SsInv
  <2>2. pass' = [pass EXCEPT !.new = new, !.resized = resized]
    BY <2>1 DEF SeedOnboarding, Passes
  <2>3. new \in SUBSET Units /\ resized \in BOOLEAN
    BY <2>1 DEF Passes
  <2> HIDE DEF new, resized
  <2> QED BY <2>1, <2>2, <2>3 DEF Passes
<1>7. SsTypeOK'
  BY <1>4, <1>5, <1>6, SettingsTypes DEF SsInv, SeedOnboarding, SsTypeOK, Passes
<1> QED BY <1>4, <1>6, <1>7 DEF SsInv, PassKnows

LEMMA UnitStepKeeps ==
    ASSUME SsInv, NEW u \in Units,
           SeedSaved(u) \/ SettingChanges(u) \/ BeatDue(u) \/ BackoffOver(u) \/ EditEntry(u)
    PROVE  SsInv'
<1>1. UNCHANGED <<pass, served>>
  BY DEF SeedSaved, SettingChanges, BeatDue, BackoffOver, EditEntry
<1>2. CASE SeedSaved(u)
  BY <1>1, <1>2, SettingsTypes DEF SsInv, PassKnows, SeedSaved, SsTypeOK, Passes, Snaps
<1>3. CASE SettingChanges(u)
  BY <1>1, <1>3, SettingsTypes DEF SsInv, PassKnows, SettingChanges, SsTypeOK, Passes
<1>4. CASE BeatDue(u) \/ BackoffOver(u)
  BY <1>1, <1>4, SettingsTypes DEF SsInv, PassKnows, BeatDue, BackoffOver, SsTypeOK, Passes
<1>5. CASE EditEntry(u)
  BY <1>1, <1>5, SettingsTypes DEF SsInv, PassKnows, EditEntry, SsTypeOK, Passes
<1> QED BY <1>2, <1>3, <1>4, <1>5

LEMMA SetIngestKeeps == SsInv /\ SetIngest => SsInv'
BY SettingsTypes DEF SsInv, PassKnows, SetIngest, SsTypeOK, Passes

LEMMA ReloadEntryKeeps == SsInv /\ ReloadEntry => SsInv'
<1> SUFFICES ASSUME SsInv, ReloadEntry PROVE SsInv'
  OBVIOUS
<1>1. stored' \in [Units -> Snaps]
  <2>1. pass.todo \subseteq Units
    BY SettingsTypes DEF SsInv, Passes
  <2>2. \/ stored' = stored
        \/ \E u \in pass.todo : stored' = Saved(u)
    BY DEF ReloadEntry
  <2> QED BY <2>1, <2>2, SavedIs, SettingsTypes DEF SsInv
<1>2. Nothing \in [Units -> {0, 1, NoRead}]
  BY DEF Nothing
<1>3. SsTypeOK'
  BY <1>1, <1>2, StartedIs, SettingsTypes DEF SsInv, ReloadEntry, SsTypeOK, Passes
<1> QED BY <1>3, StartedIs DEF SsInv, ReloadEntry, PassKnows

LEMMA SsStays == SsInv /\ [SsNext]_ssVars => SsInv'
<1> SUFFICES ASSUME SsInv, [SsNext]_ssVars PROVE SsInv'
  OBVIOUS
<1>1. CASE PassStep
  BY <1>1, PassBeginsKeeps, ReadsBeginKeeps, PostEndsKeeps, SavesBeginKeeps, PassEndsKeeps,
     SeedOneKeeps, ReadUnitKeeps, SaveOneKeeps DEF PassStep
<1>2. CASE UNCHANGED ssVars
  BY <1>2 DEF ssVars, SsInv, SsTypeOK, PassKnows
<1> QED BY <1>1, <1>2, SeedOnboardingKeeps, UnitStepKeeps, SetIngestKeeps, ReloadEntryKeeps
        DEF SsNext

\* The loop's variables, what is served, stored and on its way, and the records of
\* the uploads are well typed, for any inverters and models.
THEOREM SettingsTypeCorrect == SsSpec => []SsTypeOK
<1>1. SsInv => SsTypeOK
  BY DEF SsInv
<1> QED BY <1>1, SsStarts, SsStays, PTL DEF SsSpec

\* What is served and what a pass goes by are of the models the entry lists; and
\* what is still to be seeded was not read.
PassIsOfEntry == ~edited /\ pass.at \in {"seed", "begin", "read", "post", "save"} => pass.listed = conf
SeedsUnread ==
    pass.at = "seed" => \A u \in pass.todo : served[u] = NoRead \/ served[u].by # "read"
ServedInv == SsInv /\ PassIsOfEntry /\ SeedsUnread /\ ServedIsOfModel

LEMMA ServedStarts == SsInit => ServedInv
<1> SUFFICES ASSUME SsInit PROVE ServedInv
  OBVIOUS
<1>1. \A u \in Units : served[u] = NoRead
  BY DEF SsInit, Nothing
<1>2. pass.at = "top"
  BY DEF SsInit, Started
<1> QED BY <1>1, <1>2, SsStarts DEF ServedInv, PassIsOfEntry, SeedsUnread, ServedIsOfModel, Listed

\* A step of the loop leaves the entry and what it lists alone.
LEMMA LoopServes ==
    ASSUME ServedInv, PassStep
    PROVE  PassIsOfEntry' /\ SeedsUnread' /\ ServedIsOfModel'
<1>1. pass \in Passes /\ served \in [Units -> Snaps] /\ stored \in [Units -> Snaps]
  BY SettingsTypes DEF ServedInv, SsInv
<1>2. UNCHANGED <<conf, edited>> /\ Listed' = Listed /\ Listed \subseteq Units
  BY DEF PassStep, PassBegins, SeedOne, ReadsBegin, ReadUnit, PostEnds, SavesBegin, SaveOne,
         PassEnds, PassWakes, Listed
<1>3. CASE PassBegins
  <2>1. /\ pass'.listed = conf /\ pass'.at \in {"seed", "begin"}
        /\ pass'.at = "seed" => pass'.todo = {u \in Listed : served'[u] = NoRead}
    BY <1>1, <1>3 DEF PassBegins, Passes
  <2>2. \A u \in Units : served'[u] \in {served[u], NoRead}
    BY <1>3 DEF PassBegins
  <2>3. PassIsOfEntry'
    BY <1>2, <2>1 DEF PassIsOfEntry
  <2>4. SeedsUnread'
    BY <2>1 DEF SeedsUnread
  <2>5. ServedIsOfModel'
    BY <1>2, <2>2 DEF ServedInv, ServedIsOfModel
  <2> QED BY <2>3, <2>4, <2>5
<1>4. CASE \E u \in Units : SeedOne(u)
  <2> PICK u \in Units : SeedOne(u)
    BY <1>4
  <2>1. pass'.listed = pass.listed /\ pass'.at = "seed" /\ pass.at = "seed"
        /\ pass'.todo = pass.todo \ {u} /\ u \in pass.todo
    BY <1>1 DEF SeedOne, Passes
  <2>2. served' \in [Units -> Snaps] /\ \A w \in Units \ {u} : served'[w] = served[w]
    BY <1>1, SeedOneKeeps, SettingsTypes DEF SeedOne, ServedInv, SsInv, SsTypeOK
  <2>3. served'[u] = served[u] \/ served'[u].model = pass.listed[u]
    <3>1. CASE SeedTakes(u, stored[u])
      <4>1. stored[u] \in Snapshots
        BY <1>1, <3>1 DEF SeedTakes, Snaps
      <4> QED BY <1>1, <3>1, <4>1 DEF SeedOne, SeedTakes, Snapshots
    <3>2. CASE ~SeedTakes(u, stored[u])
      BY <3>2 DEF SeedOne
    <3> QED BY <3>1, <3>2
  <2>4. PassIsOfEntry' /\ (~edited => pass.listed = conf)
    BY <1>2, <2>1 DEF ServedInv, PassIsOfEntry
  <2>5. SeedsUnread'
    <3>1. pass.todo \subseteq Units
      BY <1>1 DEF Passes
    <3> QED BY <2>1, <2>2, <3>1 DEF ServedInv, SeedsUnread
  <2>6. \A w \in Units : served'[w] = served[w] \/ served'[w].model = pass.listed[w]
    BY <2>2, <2>3
  <2>7. ServedIsOfModel'
    BY <1>2, <2>4, <2>6 DEF ServedInv, ServedIsOfModel
  <2> QED BY <2>4, <2>5, <2>7
<1>5. CASE \E u \in Units : ReadUnit(u)
  <2> PICK u \in Units : ReadUnit(u)
    BY <1>5
  <2>1. pass'.listed = pass.listed /\ pass'.at \in {"read", "post"} /\ pass.at = "read"
    BY <1>1 DEF ReadUnit, Passes
  <2>2. \/ UNCHANGED served
        \/ /\ \A w \in Units \ {u} : served'[w] = served[w]
           /\ served'[u].model = pass.listed[u]
    BY <1>1 DEF ReadUnit, Snap
  <2>3. PassIsOfEntry' /\ (~edited => pass.listed = conf)
    BY <1>2, <2>1 DEF ServedInv, PassIsOfEntry
  <2>4. \A w \in Units : served'[w] = served[w] \/ served'[w].model = pass.listed[w]
    BY <2>2
  <2>5. ServedIsOfModel'
    BY <1>2, <2>3, <2>4 DEF ServedInv, ServedIsOfModel
  <2> QED BY <2>1, <2>3, <2>5 DEF SeedsUnread
<1>6. CASE ReadsBegin \/ PostEnds \/ SavesBegin \/ PassEnds \/ PassWakes \/ \E u \in Units : SaveOne(u)
  <2>1. UNCHANGED served /\ pass'.at # "seed"
    BY <1>1, <1>6 DEF ReadsBegin, PostEnds, SavesBegin, PassEnds, PassWakes, SaveOne, Passes
  <2>2. \/ pass'.at \in {"sleep", "top", "dead"}
        \/ pass'.listed = pass.listed /\ pass.at \in {"seed", "begin", "read", "post", "save"}
    BY <1>1, <1>6 DEF ReadsBegin, PostEnds, SavesBegin, PassEnds, PassWakes, SaveOne, Passes
  <2> QED BY <1>2, <2>1, <2>2 DEF ServedInv, PassIsOfEntry, SeedsUnread, ServedIsOfModel, Listed
<1> QED BY <1>3, <1>4, <1>5, <1>6 DEF PassStep

LEMMA OthersServe ==
    ASSUME ServedInv, ~PassStep, [SsNext]_ssVars
    PROVE  PassIsOfEntry' /\ SeedsUnread' /\ ServedIsOfModel'
<1>1. pass \in Passes /\ served \in [Units -> Snaps]
  BY SettingsTypes DEF ServedInv, SsInv
<1>2. CASE \E u \in Units : SeedOnboarding(u)
  <2> PICK u \in Units : SeedOnboarding(u)
    BY <1>2
  <2>1. PICK v \in {0, 1} : served' = [served EXCEPT ![u] = Snap(conf[u], v, "phone")]
    BY DEF SeedOnboarding
  <2>2. UNCHANGED <<conf, edited>> /\ pass'.listed = pass.listed /\ pass'.at = pass.at
        /\ pass'.todo = pass.todo
    BY <1>1 DEF SeedOnboarding, Passes
  <2>3. /\ \A w \in Units \ {u} : served'[w] = served[w]
        /\ served'[u].model = conf[u] /\ served'[u].by = "phone"
    BY <1>1, <2>1 DEF Snap
  <2> QED BY <1>1, <2>2, <2>3
          DEF ServedInv, PassIsOfEntry, SeedsUnread, ServedIsOfModel, Listed, Passes
<1>3. CASE \E u \in Units : EditEntry(u)
  BY <1>3 DEF EditEntry, ServedInv, PassIsOfEntry, SeedsUnread, ServedIsOfModel
<1>4. CASE ReloadEntry
  BY <1>4 DEF ReloadEntry, PassIsOfEntry, SeedsUnread, ServedIsOfModel, Started, Nothing, Listed
<1>5. CASE SetIngest \/ UNCHANGED ssVars \/ \E u \in Units :
                SeedSaved(u) \/ SettingChanges(u) \/ BeatDue(u) \/ BackoffOver(u)
  <2>1. UNCHANGED <<conf, edited, pass, served>>
    BY <1>5 DEF SetIngest, ssVars, SeedSaved, SettingChanges, BeatDue, BackoffOver
  <2> QED BY <2>1 DEF ServedInv, PassIsOfEntry, SeedsUnread, ServedIsOfModel, Listed
<1> QED BY <1>2, <1>3, <1>4, <1>5 DEF SsNext

LEMMA ServedStays == ServedInv /\ [SsNext]_ssVars => ServedInv'
BY SsStays, LoopServes, OthersServe DEF ServedInv

\* Settings read of one model are never served of another: through every order of
\* stored rows, onboarding reads, changes of the entry and reloads.
THEOREM ServesTheModelListed == SsSpec => []ServedIsOfModel
<1>1. ServedInv => ServedIsOfModel
  BY DEF ServedInv
<1> QED BY <1>1, ServedStarts, ServedStays, PTL DEF SsSpec

\* A read the loop made is replaced by its own reads only, never by a stored row
\* whose load was under way or by what the app hands in (seed_onboarding_settings).
THEOREM OwnReadStays == SsSpec => ReadIsKept
<1> DEFINE StaysRead(u) == (served[u] # NoRead /\ served[u].by = "read" /\ served'[u] # NoRead)
                          => served'[u].by = "read"
<1>1. ASSUME ServedInv, [SsNext]_ssVars, NEW u \in Units PROVE StaysRead(u)
  <2>1. pass \in Passes /\ served \in [Units -> Snaps]
    BY <1>1, SettingsTypes DEF ServedInv, SsInv
  <2>2. CASE PassBegins
    BY <2>2 DEF PassBegins
  <2>3. CASE \E w \in Units : SeedOne(w)
    <3> PICK w \in Units : SeedOne(w)
      BY <2>3
    <3>1. w # u => served'[u] = served[u]
      BY <2>1 DEF SeedOne
    <3>2. w = u => served[u] = NoRead \/ served[u].by # "read"
      BY <1>1 DEF SeedOne, ServedInv, SeedsUnread
    <3> QED BY <3>1, <3>2
  <2>4. CASE \E w \in Units : ReadUnit(w)
    BY <2>1, <2>4 DEF ReadUnit, Snap
  <2>5. CASE \E w \in Units : SeedOnboarding(w)
    BY <2>1, <2>5 DEF SeedOnboarding, SeedRefused
  <2>6. CASE ReloadEntry
    BY <2>6 DEF ReloadEntry, Nothing
  <2>7. CASE ReadsBegin \/ PostEnds \/ SavesBegin \/ PassEnds \/ PassWakes \/ SetIngest
             \/ UNCHANGED ssVars
             \/ \E w \in Units : SaveOne(w) \/ SeedSaved(w) \/ SettingChanges(w) \/ BeatDue(w)
                                 \/ BackoffOver(w) \/ EditEntry(w)
    <3>1. UNCHANGED served
      BY <2>7 DEF ReadsBegin, PostEnds, SavesBegin, PassEnds, PassWakes, SetIngest, ssVars,
                  SaveOne, SeedSaved, SettingChanges, BeatDue, BackoffOver, EditEntry
    <3> QED BY <3>1
  <2> QED BY <1>1, <2>2, <2>3, <2>4, <2>5, <2>6, <2>7 DEF SsNext, PassStep
<1>2. ServedInv /\ [SsNext]_ssVars => [\A u \in Units : StaysRead(u)]_ssVars
  BY <1>1
<1> QED BY <1>2, ServedStarts, ServedStays, PTL DEF SsSpec, ReadIsKept

(***************************************************************************)
(* TelegramAlerts.                                                         *)
(***************************************************************************)

LEMMA LeastNatural ==
    ASSUME NEW T \in SUBSET Nat, T # {}
    PROVE  \E m \in T : \A k \in T : m <= k
<1>1. PICK m \in T : \A k \in T : <<k, m>> \notin OpToRel(<, Nat)
  BY NatLessThanWellFounded, WFMin
<1>2. \A k \in T : ~(k < m)
  BY <1>1 DEF OpToRel
<1> QED BY <1>2

LEMMA GreatestPosition ==
    ASSUME NEW n \in Nat, NEW T \in SUBSET (1..n), T # {}
    PROVE  \E m \in T : \A k \in T : k <= m
<1> DEFINE U == {u \in Nat : \A k \in T : k <= u}
<1>1. T \subseteq Nat /\ \A k \in T : 1 <= k
  OBVIOUS
<1>2. n \in U
  OBVIOUS
<1>3. PICK m \in U : \A u \in U : m <= u
  BY <1>2, LeastNatural
<1>4. CASE m \in T
  BY <1>3, <1>4
<1>5. CASE m \notin T
  <2>1. \A k \in T : k <= m - 1
    BY <1>1, <1>3, <1>5
  <2>2. m - 1 \in Nat
    <3>1. PICK k \in T : 1 <= k /\ k <= m - 1 /\ k \in Nat
      BY <1>1, <2>1
    <3> QED BY <1>3, <3>1
  <2>3. m - 1 \in U
    BY <2>1, <2>2
  <2> QED BY <1>3, <2>3
<1> QED BY <1>4, <1>5

\* What is kept of a queue was in it.
LEMMA KeptIs ==
    ASSUME NEW S, NEW q \in Seq(S), NEW ks \in SUBSET DOMAIN q
    PROVE  /\ Kept(q, ks) \in Seq(S)
           /\ Len(Kept(q, ks)) <= Len(q)
           /\ \A i \in DOMAIN Kept(q, ks) : \E k \in ks : Kept(q, ks)[i] = q[k]
<1> DEFINE Upto(k) == {j \in ks : j <= k}
           Place(k) == Cardinality(Upto(k))
<1>1. PICK n \in Nat : n = Len(q) /\ DOMAIN q = 1..n /\ ks \subseteq 1..n
  OBVIOUS
<1>2. IsFiniteSet(1..n) /\ Cardinality(1..n) = n
  BY FS_Interval
<1>3. IsFiniteSet(ks) /\ Cardinality(ks) \in Nat /\ Cardinality(ks) <= n
  BY <1>1, <1>2, FS_Subset, FS_CardinalityType
<1>4. ASSUME NEW P \in SUBSET ks
      PROVE  IsFiniteSet(P) /\ Cardinality(P) \in Nat
  BY <1>3, FS_Subset, FS_CardinalityType
<1>5. ASSUME NEW i \in 1..Cardinality(ks)
      PROVE  \E k \in ks : Place(k) = i
  <2> DEFINE T == {k \in ks : i <= Place(k)}
  <2>1. ks # {}
    BY <1>3, FS_EmptySet
  <2>2. PICK m \in ks : \A k \in ks : k <= m
    BY <1>1, <2>1, GreatestPosition
  <2>3. Upto(m) = ks
    BY <2>2
  <2>4. Place(m) = Cardinality(ks)
    BY <2>3
  <2>5. \A k \in ks : Place(k) \in Nat
    BY <1>4
  <2> HIDE DEF Place
  <2>6. m \in T
    BY <1>3, <2>4
  <2>7. PICK k \in T : \A t \in T : k <= t
    <3>1. T \in SUBSET Nat /\ T # {}
      BY <1>1, <2>6
    <3> HIDE DEF T
    <3> QED BY <3>1, LeastNatural
  <2>8. k \in ks /\ k \in 1..n /\ Place(k) \in Nat /\ i <= Place(k)
    <3>1. k \in ks /\ i <= Place(k)
      BY <2>7
    <3> HIDE DEF T
    <3> QED BY <1>1, <2>5, <3>1
  <2>9x. i \in Nat /\ (Place(k) = i \/ i < Place(k))
    BY <1>3, <2>8
  <2> SUFFICES ASSUME i < Place(k)
               PROVE  FALSE
    BY <2>8, <2>9x, Zenon
  <2> DEFINE L == {j \in ks : j < k}
  <2>9. Upto(k) = L \cup {k} /\ k \notin L /\ L \subseteq ks
    BY <1>1, <2>8
  <2>10. IsFiniteSet(L) /\ Cardinality(L) \in Nat
    BY <1>4, <2>9
  <2> HIDE DEF L
  <2>11. Place(k) = Cardinality(L) + 1
    BY <2>9, <2>10, FS_AddElement DEF Place
  <2>12. i <= Cardinality(L) /\ L # {}
    BY <2>9x, <2>10, <2>11, FS_EmptySet
  <2>13. PICK p \in L : \A j \in L : j <= p
    BY <1>1, <2>9, <2>12, GreatestPosition
  <2>14. p < k /\ p \in ks /\ p \in 1..n
    BY <1>1, <2>13 DEF L
  <2>15. Place(p) = Cardinality(L)
    <3>1. \A j \in ks : j < k <=> j <= p
      BY <1>1, <2>8, <2>13, <2>14 DEF L
    <3>2. Upto(p) = L
      BY <3>1 DEF L
    <3> QED BY <3>2 DEF Place
  <2>16. p \in T
    BY <2>12, <2>14, <2>15
  <2> QED BY <2>7, <2>8, <2>14, <2>16
<1> DEFINE choice(i) == CHOOSE k \in ks : Place(k) = i
           r == Kept(q, ks)
<1>6. r = [i \in 1..Cardinality(ks) |-> q[choice(i)]]
  BY DEF Kept
<1>7. \A i \in 1..Cardinality(ks) : choice(i) \in ks
  BY <1>5
<1> HIDE DEF choice, r
<1>8. \A i \in 1..Cardinality(ks) : r[i] \in S /\ \E k \in ks : r[i] = q[k]
  BY <1>1, <1>6, <1>7
<1>9. r \in Seq(S) /\ Len(r) = Cardinality(ks) /\ DOMAIN r = 1..Cardinality(ks)
  BY <1>3, <1>6, <1>8
<1> QED BY <1>1, <1>3, <1>8, <1>9 DEF r

LEMMA TrimIs ==
    ASSUME NEW S, NEW q \in Seq(S)
    PROVE  /\ Trim(q) \in Seq(S) /\ Len(Trim(q)) <= MaxQueue
           /\ \A i \in DOMAIN Trim(q) : \E k \in DOMAIN q : Trim(q)[i] = q[k]
<1> DEFINE m == (IF Len(q) > MaxQueue THEN Len(q) - MaxQueue ELSE 0) + 1
           n == Len(q)
           r == Trim(q)
<1>1. n \in Nat /\ MaxQueue \in Nat /\ DOMAIN q = 1..n
  BY TelegramAssumption
<1>2. m \in 1..(n + 1) /\ n - m + 1 <= MaxQueue
  BY <1>1
<1>3. r = SubSeq(q, m, n)
  BY DEF Trim
<1> HIDE DEF m, r
<1>4. /\ r \in Seq(S)
      /\ Len(r) = (IF m <= n THEN n - m + 1 ELSE 0)
      /\ \A i \in 1..(n - m + 1) : r[i] = q[m + i - 1]
  BY <1>1, <1>2, <1>3, SubSeqProperties
<1>5. DOMAIN r = 1..Len(r)
  BY <1>4
<1>6. ASSUME NEW i \in DOMAIN r
      PROVE  \E k \in DOMAIN q : r[i] = q[k]
  <2>1. i \in 1..(n - m + 1) /\ m + i - 1 \in 1..n
    BY <1>1, <1>2, <1>4, <1>5
  <2> QED BY <1>1, <1>4, <2>1
<1> QED BY <1>1, <1>2, <1>4, <1>6 DEF r

LEMMA EntriesAre ==
    ASSUME NEW kind, NEW n
    PROVE  /\ Entries(kind, n) \in Seq([to : Phones, kind : {kind}, n : {n}])
<1> DEFINE P == {p \in Phones : tg.chats[p] = "on"}
           c == Cardinality(P)
           on == SetToSeq(P)
<1>1. IsFiniteSet(P)
  BY TelegramAssumption, FS_Subset
<1>2. c \in Nat
  BY <1>1, FS_CardinalityType
<1>3. PICK f \in [1..c -> P] : IsInjective(f)
  <2>1. ExistsBijection(1..c, P)
    BY <1>1, FS_CardinalityType
  <2>2. PICK f \in Bijection(1..c, P) : TRUE
    BY <2>1 DEF ExistsBijection
  <2> QED BY <2>2 DEF Bijection, Injection, IsInjective
<1>4. on \in [1..c -> P]
  BY <1>3 DEF SetToSeq
<1> HIDE DEF on, c
<1>5. Entries(kind, n) = [k \in DOMAIN on |-> [to |-> on[k], kind |-> kind, n |-> n]]
  BY DEF Entries, on
<1>6. DOMAIN on = 1..c /\ \A k \in 1..c : on[k] \in Phones
  BY <1>4
<1> QED BY <1>2, <1>5, <1>6

-----------------------------------------------------------------------------
(* The inductive invariant. *)

\* The restore of s will be told when the grid is back.
Owed(h, s) == s[2] = "grid_restored" /\ h.out /\ ~h.suppressed /\ h.told = s[3]
InQueue(t, s) == \E k \in DOMAIN t.queue : Shown(t.queue[k]) = s
Carries(s) == sender.at \in {"sending", "shown"} /\ Shown(sender.entry) = s
\* It may be shown yet, without a fault.
ToCome(s) ==
    \/ s[3] > outages
    \/ Owed(tg.household, s)
    \/ sender.at = "sending" /\ Carries(s)
    \/ InQueue(tg, s) /\ ~(sender.at = "shown" /\ Carries(s))

\* What is queued is of an outage there was, and not owed again.
OfThePast(t, s) == s[3] <= outages /\ ~Owed(t.household, s)
Consistent(t) ==
    /\ t \in State /\ Len(t.queue) <= MaxQueue
    /\ \A k \in DOMAIN t.queue : OfThePast(t, Shown(t.queue[k]))
    /\ t.household.told <= outages
    /\ t.household.out /\ ~t.household.suppressed => t.household.told # 0
Senders == [at : {"off", "next", "waiting"}] \cup [at : {"sending", "shown"}, entry : Entry]
SenderKnows ==
    /\ sender \in Senders
    /\ sender.at \in {"sending", "shown"} => OfThePast(tg, Shown(sender.entry))
Recorded == tg.household.told # 0 => saved.household.told = tg.household.told
Bounded == \A s \in Alerts : got[s] <= 1 + faults /\ (ToCome(s) => got[s] <= faults)
CountsOK ==
    /\ poller \in 0..MaxBots /\ copied \in BOOLEAN
    /\ outages \in Numbers /\ bots \in 0..MaxBots /\ faults \in 0..MaxFaults
    /\ got \in [Alerts -> Nat] /\ stale \subseteq 1..MaxOutages
TgInv ==
    /\ CountsOK
    /\ Consistent(tg) /\ Consistent(saved)
    /\ SenderKnows
    /\ Recorded
    /\ Bounded

-----------------------------------------------------------------------------
(* What an operation makes of a state. *)

CodesOf(t) == t.status \in {"good", "invalid", "in_use"}

LEMMA Bounds == /\ MaxBots \in Nat /\ MaxOutages \in Nat /\ MaxFaults \in Nat
                /\ MaxQueue \in Nat /\ MaxQueue >= 1
BY TelegramAssumption

LEMMA FreshIs ==
    ASSUME NEW b \in 0..MaxBots, outages \in Nat
    PROVE  /\ Consistent(Fresh(b)) /\ Fresh(b).household.told = 0 /\ Fresh(b).queue = <<>>
           /\ \A s : ~Owed(Fresh(b).household, s) /\ ~InQueue(Fresh(b), s)
<1>1. /\ Fresh(b).queue = <<>> /\ Fresh(b).household = Calm
      /\ Calm.told = 0 /\ Calm.out = FALSE
  BY DEF Fresh, Calm
<1>2. Calm \in [since : SUBSET Inverters, alerted : SUBSET Inverters,
                out : BOOLEAN, suppressed : BOOLEAN, told : Numbers]
  BY Bounds DEF Calm, Numbers
<1>3. [p \in Phones |-> "none"] \in [Phones -> {"none", "on", "off"}] /\ 0 \in 0..MaxBots
  BY Bounds
<1>4. Fresh(b) \in State
  BY <1>2, <1>3 DEF Fresh, State
<1> QED BY <1>1, <1>4, Bounds DEF Consistent, Owed, InQueue

\* Entries that leave the queue, and nothing else that matters here.
LEMMA FewerFit ==
    ASSUME NEW t, NEW u, Consistent(t), u \in State,
           u.household = t.household, Len(u.queue) <= Len(t.queue),
           \A i \in DOMAIN u.queue : \E k \in DOMAIN t.queue : u.queue[i] = t.queue[k]
    PROVE  Consistent(u) /\ \A s : InQueue(u, s) => InQueue(t, s)
<1>1. Len(u.queue) \in Nat /\ Len(t.queue) \in Nat
  BY DEF State, Consistent
<1>2. \A i \in DOMAIN u.queue : OfThePast(u, Shown(u.queue[i]))
  BY DEF Consistent, OfThePast
<1>3. \A s : InQueue(u, s) => InQueue(t, s)
  BY DEF InQueue
<1> QED BY <1>1, <1>2, <1>3, Bounds DEF Consistent

LEMMA KeptFit ==
    ASSUME NEW t, Consistent(t), NEW ks \in SUBSET DOMAIN t.queue
    PROVE  LET u == [t EXCEPT !.queue = Kept(t.queue, ks)] IN
           /\ Consistent(u) /\ u.household = t.household
           /\ \A s : InQueue(u, s) => InQueue(t, s) /\ \E k \in ks : Shown(t.queue[k]) = s
<1> DEFINE u == [t EXCEPT !.queue = Kept(t.queue, ks)]
<1>1. t \in State /\ t.queue \in Seq(Entry)
  BY DEF Consistent, State
<1>2. PICK q : q = Kept(t.queue, ks)
  OBVIOUS
<1>3. /\ q \in Seq(Entry) /\ Len(q) <= Len(t.queue)
      /\ \A i \in DOMAIN q : \E k \in ks : q[i] = t.queue[k]
  BY <1>1, <1>2, KeptIs
<1>4. u = [t EXCEPT !.queue = q]
  BY <1>2
<1>5. u \in State /\ u.queue = q /\ u.household = t.household
  BY <1>1, <1>3, <1>4 DEF State
<1> HIDE DEF u
<1>6. Consistent(u) /\ \A s : InQueue(u, s) => InQueue(t, s)
  BY <1>3, <1>5, FewerFit
<1>7. \A s : InQueue(u, s) => \E k \in ks : Shown(t.queue[k]) = s
  BY <1>3, <1>5 DEF InQueue
<1> QED BY <1>5, <1>6, <1>7 DEF u

\* Entries are told apart by what is shown of them.
LEMMA ShownIs ==
    ASSUME NEW e \in Entry
    PROVE  /\ Shown(e) \in Alerts
           /\ \A f \in Entry : Shown(e) = Shown(f) => e = f
BY DEF Entry, Shown, Alerts

\* While nobody is shown anything and the sender is where it was, what was
\* bounded stays so if nothing becomes due.
LEMMA StaysBounded ==
    ASSUME TgInv, UNCHANGED got, faults' \in {faults, faults + 1},
           \A s \in Alerts : ToCome(s)' => ToCome(s) \/ faults' = faults + 1
    PROVE  Bounded'
<1>1. faults \in Nat /\ \A s \in Alerts : got[s] \in Nat
  BY Bounds DEF TgInv, CountsOK
<1>2. ASSUME NEW s \in Alerts
      PROVE  got'[s] <= 1 + faults' /\ (ToCome(s)' => got'[s] <= faults')
  <2>1. got[s] <= 1 + faults /\ (ToCome(s) => got[s] <= faults)
    BY DEF TgInv, Bounded
  <2>2. CASE faults' = faults
    BY <1>1, <2>1, <2>2
  <2>3. CASE faults' = faults + 1
    BY <1>1, <2>1, <2>3
  <2> QED BY <2>2, <2>3
<1> QED BY <1>2 DEF Bounded

LEMMA TgCarries == ASSUME UNCHANGED outages, Consistent(tg') PROVE Consistent(tg)'
BY DEF Consistent, OfThePast
LEMMA SavedCarries == ASSUME UNCHANGED outages, Consistent(saved') PROVE Consistent(saved)'
BY DEF Consistent, OfThePast

-----------------------------------------------------------------------------
(* The steps. *)

\* The queue and the household stay as they are: the sender may be kicked.
LEMMA ChatKeeps ==
    ASSUME TgInv, tg' \in State, tg'.queue = tg.queue, tg'.household = tg.household,
           UNCHANGED <<saved, outages, got>>, CountsOK',
           faults' \in {faults, faults + 1},
           sender' = sender \/ (sender.at = "off" /\ sender' = [at |-> "next"])
    PROVE  TgInv'
<1>1. Consistent(tg') /\ \A s : InQueue(tg', s) <=> InQueue(tg, s)
  BY DEF TgInv, Consistent, OfThePast, InQueue
<1>2. Consistent(tg)' /\ Consistent(saved)'
  BY <1>1, TgCarries, SavedCarries DEF TgInv
<1>3. SenderKnows'
  <2>1. CASE sender' = sender
    BY <2>1 DEF TgInv, SenderKnows, OfThePast
  <2>2. CASE sender.at = "off" /\ sender' = [at |-> "next"]
    BY <2>2 DEF SenderKnows, Senders
  <2> QED BY <2>1, <2>2
<1>4. Recorded'
  BY DEF TgInv, Recorded
<1>5. \A s : ToCome(s)' => ToCome(s)
  <2>1. \A s : Carries(s)' <=> Carries(s)
    BY DEF Carries
  <2>2. \A s : InQueue(tg, s)' => InQueue(tg, s)
    BY DEF InQueue
  <2>3. /\ sender'.at = "sending" <=> sender.at = "sending"
        /\ sender'.at = "shown" <=> sender.at = "shown"
    OBVIOUS
  <2> QED BY <2>1, <2>2, <2>3 DEF ToCome
<1>6. Bounded'
  BY <1>5, StaysBounded
<1> QED BY <1>2, <1>3, <1>4, <1>6 DEF TgInv

LEMMA KickedIs ==
    ASSUME NEW s, NEW t
    PROVE  Kicked(s, t) = s \/ (s.at = "off" /\ Kicked(s, t) = [at |-> "next"])
BY DEF Kicked

LEMMA PollingIs == ASSUME NEW t \in State PROVE Polling(t) \in 0..MaxBots
BY Bounds DEF Polling, State

LEMMA LinkKeeps ==
    ASSUME TgInv, NEW p \in Phones, Link(p) \/ SetEnabled(p) \/ Unlink(p)
    PROVE  TgInv'
<1>1. tg \in State
  BY DEF TgInv, Consistent
<1>2. tg' \in State /\ tg'.queue = tg.queue /\ tg'.household = tg.household
  <2>1. CASE Link(p)
    BY <1>1, <2>1 DEF Link, State
  <2>2. CASE SetEnabled(p)
    <3>1. PICK x \in {"on", "off"} : tg' = [tg EXCEPT !.chats[p] = x]
      BY <2>2 DEF SetEnabled
    <3> QED BY <1>1, <3>1 DEF State
  <2>3. CASE Unlink(p)
    <3>1. PICK cs \in SUBSET tg.codes : tg' = [tg EXCEPT !.chats[p] = "none", !.codes = cs]
      <4>1. CASE tg' = [tg EXCEPT !.chats[p] = "none"]
        <5>1. [tg EXCEPT !.chats[p] = "none"] = [tg EXCEPT !.chats[p] = "none", !.codes = tg.codes]
          BY <1>1 DEF State
        <5> QED BY <4>1, <5>1
      <4>2. CASE tg' = [tg EXCEPT !.chats[p] = "none", !.codes = @ \ {p}]
        BY <4>2
      <4> QED BY <2>3, <4>1, <4>2 DEF Unlink
    <3>2. cs \subseteq Phones
      BY <1>1, <3>1 DEF State
    <3> QED BY <1>1, <3>1, <3>2 DEF State
  <2> QED BY <2>1, <2>2, <2>3
<1>3. UNCHANGED <<saved, outages, got, copied, bots, faults, stale>>
  BY DEF Link, SetEnabled, Unlink
<1>4. poller' \in 0..MaxBots
  BY <1>1 DEF Link, SetEnabled, Unlink, State, TgInv, CountsOK
<1>5. sender' = sender \/ (sender.at = "off" /\ sender' = [at |-> "next"])
  BY KickedIs DEF Link, SetEnabled, Unlink
<1>6. CountsOK'
  BY <1>3, <1>4 DEF TgInv, CountsOK
<1> QED BY <1>2, <1>3, <1>5, <1>6, ChatKeeps

LEMMA ClearedIs ==
    ASSUME NEW t \in State
    PROVE  Cleared(t) \in State /\ Cleared(t).queue = t.queue /\ Cleared(t).household = t.household
           /\ Cleared(t).chats = t.chats
BY DEF Cleared, State

LEMMA PollerKeeps ==
    ASSUME TgInv, Updates \/ PollFails
    PROVE  TgInv'
<1>1. tg \in State /\ poller \in 0..MaxBots
  BY DEF TgInv, Consistent, CountsOK
<1>2. tg' \in State /\ tg'.queue = tg.queue /\ tg'.household = tg.household
  <2>1. ASSUME NEW p \in Phones,
               tg' = Cleared([tg EXCEPT !.offsetOf = poller, !.codes = @ \ {p}, !.chats[p] = "on"])
        PROVE  tg' \in State /\ tg'.queue = tg.queue /\ tg'.household = tg.household
    <3> DEFINE t == [tg EXCEPT !.offsetOf = poller, !.codes = @ \ {p}, !.chats[p] = "on"]
    <3>1. t \in State /\ t.queue = tg.queue /\ t.household = tg.household
      BY <1>1 DEF State
    <3> HIDE DEF t
    <3> QED BY <2>1, <3>1, ClearedIs DEF t
  <2>2. CASE tg' = Cleared(tg)
    BY <1>1, <2>2, ClearedIs
  <2>3. CASE PollFails
    BY <1>1, <2>3 DEF PollFails, State
  <2>4. tg.codes \subseteq Phones
    BY <1>1 DEF State
  <2> QED BY <2>1, <2>2, <2>3, <2>4 DEF Updates
<1>3. UNCHANGED <<saved, outages, got, copied, bots, stale, sender>>
  BY DEF Updates, PollFails
<1>4. poller' \in 0..MaxBots
  <2>1. poller' \in {0, Polling(tg'), Polling(tg)}
    BY DEF Updates, PollFails
  <2>2. Polling(tg') \in 0..MaxBots /\ Polling(tg) \in 0..MaxBots /\ 0 \in 0..MaxBots
    BY <1>1, <1>2, PollingIs, Bounds
  <2> QED BY <2>1, <2>2
<1>5. faults' \in {faults, faults + 1} /\ faults' \in 0..MaxFaults
  <2>1. faults \in 0..MaxFaults
    BY DEF TgInv, CountsOK
  <2>2. faults' = faults \/ (faults < MaxFaults /\ faults' = faults + 1)
    BY DEF Updates, PollFails, Fault
  <2> QED BY <2>1, <2>2, Bounds
<1>6. CountsOK'
  BY <1>3, <1>4, <1>5 DEF TgInv, CountsOK
<1> QED BY <1>2, <1>3, <1>5, <1>6, ChatKeeps

LEMMA SaveKeeps ==
    ASSUME TgInv, SaveDue
    PROVE  TgInv'
<1>1. saved' = tg /\ UNCHANGED <<tg, sender, poller, copied, outages, bots, faults, got, stale>>
  BY DEF SaveDue
<1>2. Consistent(tg)' /\ Consistent(saved)'
  BY <1>1, TgCarries, SavedCarries DEF TgInv
<1>3. SenderKnows' /\ Recorded' /\ CountsOK'
  BY <1>1 DEF TgInv, SenderKnows, OfThePast, Recorded, CountsOK
<1>4. \A s : ToCome(s)' => ToCome(s)
  BY <1>1 DEF ToCome, InQueue, Carries
<1> QED BY <1>1, <1>2, <1>3, <1>4, StaysBounded DEF TgInv

LEMMA BotKeeps ==
    ASSUME TgInv, SetBot \/ RemoveBot
    PROVE  TgInv'
<1>1. PICK b \in 0..MaxBots : tg' = Fresh(b) /\ saved' = Fresh(b) /\ bots' \in 0..MaxBots
  <2>1. CASE SetBot
    BY <2>1, Bounds DEF SetBot, TgInv, CountsOK
  <2>2. CASE RemoveBot
    BY <2>2, Bounds DEF RemoveBot, TgInv, CountsOK
  <2> QED BY <2>1, <2>2
<1>2. UNCHANGED <<sender, poller, copied, outages, faults, got, stale>>
  BY DEF SetBot, RemoveBot
<1>3. outages \in Nat
  BY Bounds DEF TgInv, CountsOK, Numbers
<1>4. /\ Consistent(tg') /\ tg'.household.told = 0
      /\ \A s : ~Owed(tg'.household, s) /\ ~InQueue(tg', s)
  BY <1>1, <1>3, FreshIs
<1>5. Consistent(tg)' /\ Consistent(saved)'
  BY <1>1, <1>2, <1>4, TgCarries, SavedCarries
<1>6. SenderKnows'
  BY <1>2, <1>4 DEF TgInv, SenderKnows, OfThePast
<1>7. Recorded' /\ CountsOK'
  BY <1>1, <1>2, <1>4 DEF TgInv, Recorded, CountsOK
<1>8. \A s : ToCome(s)' => ToCome(s)
  <2>1. \A s : ~InQueue(tg, s)'
    BY <1>4 DEF InQueue
  <2>2. \A s : (Carries(s)' <=> Carries(s)) /\ sender' = sender
    BY <1>2 DEF Carries
  <2> QED BY <1>2, <1>4, <2>1, <2>2 DEF ToCome
<1> QED BY <1>2, <1>5, <1>6, <1>7, <1>8, StaysBounded DEF TgInv

LEMMA RetryKeeps ==
    ASSUME TgInv, RetryDue
    PROVE  TgInv'
<1>1. /\ sender.at = "waiting" /\ sender' = [at |-> "next"]
      /\ UNCHANGED <<tg, saved, poller, copied, outages, bots, faults, got, stale>>
  BY DEF RetryDue
<1>2. Consistent(tg)' /\ Consistent(saved)'
  BY <1>1, TgCarries, SavedCarries DEF TgInv
<1>3. SenderKnows' /\ Recorded' /\ CountsOK'
  BY <1>1 DEF TgInv, SenderKnows, Senders, Recorded, CountsOK
<1>4. \A s : ToCome(s)' => ToCome(s)
  BY <1>1 DEF ToCome, InQueue, Carries
<1> QED BY <1>1, <1>2, <1>3, <1>4, StaysBounded DEF TgInv

\* Of an entry in hand.
LEMMA InHand ==
    ASSUME TgInv, sender.at \in {"sending", "shown"}
    PROVE  /\ sender.entry \in Entry /\ Shown(sender.entry) \in Alerts
           /\ OfThePast(tg, Shown(sender.entry))
<1>1. sender.entry \in Entry
  BY DEF TgInv, SenderKnows, Senders
<1> QED BY <1>1, ShownIs DEF TgInv, SenderKnows

LEMMA ShowsKeeps ==
    ASSUME TgInv, TelegramShows
    PROVE  TgInv'
<1> DEFINE e == Shown(sender.entry)
<1>1. /\ sender.at = "sending" /\ got' = [got EXCEPT ![e] = @ + 1]
      /\ sender' = [sender EXCEPT !.at = "shown"]
      /\ UNCHANGED <<tg, saved, poller, copied, outages, bots, faults, stale>>
  BY DEF TelegramShows
<1>2. sender.entry \in Entry /\ e \in Alerts /\ OfThePast(tg, e)
  BY <1>1, InHand
<1>3. sender' = [at |-> "shown", entry |-> sender.entry]
  BY <1>1 DEF TgInv, SenderKnows, Senders
<1>4. got \in [Alerts -> Nat] /\ faults \in Nat /\ e[3] \in Nat /\ outages \in Nat
  BY <1>2, Bounds DEF TgInv, CountsOK, Alerts, Numbers
<1>5. Consistent(tg)' /\ Consistent(saved)' /\ Recorded'
  BY <1>1, TgCarries, SavedCarries DEF TgInv, Recorded
<1>6. SenderKnows'
  BY <1>1, <1>2, <1>3 DEF SenderKnows, Senders, OfThePast
<1>7. CountsOK'
  <2>1. got' \in [Alerts -> Nat]
    BY <1>1, <1>2, <1>4
  <2> QED BY <1>1, <2>1 DEF TgInv, CountsOK
<1>8. Carries(e) /\ ToCome(e)
  BY <1>1 DEF Carries, ToCome
<1> HIDE DEF e
<1>9. ASSUME NEW s \in Alerts
      PROVE  got'[s] <= 1 + faults /\ (ToCome(s)' => got'[s] <= faults)
  <2>1. got[s] <= 1 + faults /\ (ToCome(s) => got[s] <= faults) /\ got[s] \in Nat
    BY <1>4 DEF TgInv, Bounded
  <2>2. CASE s = e
    <3>1. got'[s] = got[s] + 1 /\ got[s] <= faults
      BY <1>1, <1>4, <1>8, <2>1, <2>2
    <3>2. Carries(s)' /\ sender'.at = "shown"
      BY <1>3, <2>2 DEF Carries, e
    <3>3. ~ToCome(s)'
      <4>1. s[3] \in Nat /\ s[3] <= outages /\ outages' = outages
        BY <1>1, <1>2, <1>4, <2>2 DEF OfThePast
      <4>2. ~Owed(tg.household, s)' /\ sender'.at # "sending"
        BY <1>1, <1>2, <2>2, <3>2 DEF OfThePast, Owed
      <4> QED BY <1>4, <3>2, <4>1, <4>2 DEF ToCome
    <3>4. got'[s] <= 1 + faults
      BY <1>4, <2>1, <3>1
    <3> QED BY <3>3, <3>4
  <2>3. CASE s # e
    <3>1. got'[s] = got[s]
      BY <1>1, <1>4, <2>3
    <3>2. ~Carries(s) /\ ~Carries(s)'
      BY <1>3, <2>3 DEF Carries, e
    <3>3. ToCome(s)' => ToCome(s)
      BY <1>1, <3>2 DEF ToCome, InQueue
    <3> QED BY <2>1, <3>1, <3>3
  <2> QED BY <2>2, <2>3
<1> QED BY <1>1, <1>5, <1>6, <1>7, <1>9 DEF TgInv, Bounded

LEMMA WithoutIs ==
    ASSUME NEW t, Consistent(t), NEW e \in Entry
    PROVE  /\ Consistent(Without(t, e)) /\ Without(t, e).household = t.household
           /\ \A s : InQueue(Without(t, e), s) => InQueue(t, s) /\ s # Shown(e)
<1> DEFINE ks == {k \in DOMAIN t.queue : t.queue[k] # e}
           u == [t EXCEPT !.queue = Kept(t.queue, ks)]
<1>1. Without(t, e) = u
  BY DEF Without
<1>2. t.queue \in Seq(Entry)
  BY DEF Consistent, State
<1>3. \A k \in ks : Shown(t.queue[k]) # Shown(e)
  BY <1>2, ShownIs
<1>4. ks \in SUBSET DOMAIN t.queue
  OBVIOUS
<1> HIDE DEF ks
<1>5. /\ Consistent(u) /\ u.household = t.household
      /\ \A s : InQueue(u, s) => InQueue(t, s) /\ \E k \in ks : Shown(t.queue[k]) = s
  BY <1>4, KeptFit
<1> HIDE DEF u
<1> QED BY <1>1, <1>3, <1>5

LEMMA ClearedFits ==
    ASSUME NEW t, Consistent(t)
    PROVE  /\ Consistent(Cleared(t)) /\ Cleared(t).household = t.household
           /\ \A s : InQueue(Cleared(t), s) <=> InQueue(t, s)
<1>1. t \in State
  BY DEF Consistent
<1>2. Cleared(t) \in State /\ Cleared(t).queue = t.queue /\ Cleared(t).household = t.household
  BY <1>1, ClearedIs
<1> QED BY <1>2 DEF Consistent, OfThePast, InQueue

LEMMA SentKeeps ==
    ASSUME TgInv, SentOk
    PROVE  TgInv'
<1> DEFINE e == sender.entry
           c == Cleared(tg)
<1>1. /\ sender.at = "shown" /\ sender' = [at |-> "next"] /\ tg' = Without(c, e)
      /\ UNCHANGED <<saved, poller, copied, outages, bots, faults, got, stale>>
  BY DEF SentOk
<1>2. e \in Entry
  BY <1>1, InHand
<1>3. Consistent(c) /\ c.household = tg.household /\ \A s : InQueue(c, s) <=> InQueue(tg, s)
  BY ClearedFits DEF TgInv
<1> HIDE DEF c
<1>4. /\ Consistent(tg') /\ tg'.household = tg.household
      /\ \A s : InQueue(tg', s) => InQueue(tg, s) /\ s # Shown(e)
  BY <1>1, <1>2, <1>3, WithoutIs
<1>5. Consistent(tg)' /\ Consistent(saved)' /\ Recorded'
  BY <1>1, <1>4, TgCarries, SavedCarries DEF TgInv, Recorded
<1>6. SenderKnows' /\ CountsOK'
  BY <1>1 DEF TgInv, SenderKnows, Senders, CountsOK
<1>7. \A s : ToCome(s)' => ToCome(s)
  <2>1. \A s : InQueue(tg, s)' => InQueue(tg, s) /\ s # Shown(e)
    BY <1>4 DEF InQueue
  <2>2. \A s : (Carries(s) <=> Shown(e) = s) /\ ~Carries(s)'
    BY <1>1 DEF Carries
  <2> QED BY <1>1, <1>4, <2>1, <2>2 DEF ToCome
<1> QED BY <1>1, <1>5, <1>6, <1>7, StaysBounded DEF TgInv

LEMMA FaultIs == ASSUME TgInv, Fault PROVE faults' = faults + 1 /\ faults' \in 0..MaxFaults
<1>1. faults \in 0..MaxFaults /\ faults < MaxFaults /\ faults' = faults + 1
  BY DEF TgInv, CountsOK, Fault
<1> QED BY <1>1, Bounds

LEMMA RefusedKeeps ==
    ASSUME TgInv, SendRefused
    PROVE  TgInv'
<1>1. /\ sender.at = "sending" /\ sender' \in {[at |-> "next"], Off}
      /\ UNCHANGED <<saved, poller, copied, outages, bots, got, stale>>
      /\ faults' = faults + 1 /\ faults' \in 0..MaxFaults
  BY FaultIs DEF SendRefused
<1>2. sender.entry \in Entry /\ Consistent(tg) /\ tg \in State
  BY <1>1, InHand DEF TgInv, Consistent
<1>3. Consistent(tg') /\ tg'.household = tg.household
  <2>1. ASSUME NEW p \in Phones,
               tg' = [tg EXCEPT !.chats[p] = "none",
                                !.queue = Kept(@, {k \in DOMAIN @ : @[k].to # p})]
        PROVE  Consistent(tg') /\ tg'.household = tg.household
    <3> DEFINE t == [tg EXCEPT !.chats[p] = "none"]
               ks == {k \in DOMAIN tg.queue : tg.queue[k].to # p}
    <3>1. t \in State /\ t.queue = tg.queue /\ t.household = tg.household
      BY <1>2 DEF State
    <3>2. tg' = [t EXCEPT !.queue = Kept(t.queue, ks)]
      BY <1>2, <2>1 DEF State
    <3>3. ks \in SUBSET DOMAIN t.queue
      BY <3>1
    <3> HIDE DEF t, ks
    <3>4. Consistent(t)
      BY <1>2, <3>1 DEF Consistent, OfThePast
    <3>5. LET u == [t EXCEPT !.queue = Kept(t.queue, ks)] IN
          Consistent(u) /\ u.household = t.household
      BY <3>3, <3>4, KeptFit
    <3> QED BY <3>1, <3>2, <3>5
  <2>2. CASE tg' = Without(tg, sender.entry)
    BY <1>2, <2>2, WithoutIs
  <2>3. CASE tg' = [tg EXCEPT !.status = "invalid"]
    <3>1. tg' \in State /\ tg'.queue = tg.queue /\ tg'.household = tg.household
      BY <1>2, <2>3 DEF State
    <3> QED BY <1>2, <3>1 DEF Consistent, OfThePast
  <2>4. sender.entry.to \in Phones
    BY <1>2 DEF Entry
  <2> QED BY <2>1, <2>2, <2>3, <2>4 DEF SendRefused
<1>4. Consistent(tg)' /\ Consistent(saved)' /\ Recorded'
  BY <1>1, <1>3, TgCarries, SavedCarries DEF TgInv, Recorded
<1>5. SenderKnows' /\ CountsOK'
  BY <1>1 DEF TgInv, SenderKnows, Senders, CountsOK, Off
<1> QED BY <1>1, <1>4, <1>5, StaysBounded DEF TgInv

LEMMA LostKeeps ==
    ASSUME TgInv, SendLost
    PROVE  TgInv'
<1>1. /\ sender.at \in {"sending", "shown"} /\ sender' = [at |-> "waiting"]
      /\ UNCHANGED <<tg, saved, poller, copied, outages, bots, got, stale>>
      /\ sender.at = "shown" => faults' = faults + 1 /\ faults' \in 0..MaxFaults
      /\ sender.at = "sending" => faults' = faults
  BY FaultIs DEF SendLost
<1>2. Consistent(tg)' /\ Consistent(saved)' /\ Recorded'
  BY <1>1, TgCarries, SavedCarries DEF TgInv, Recorded
<1>3. SenderKnows' /\ CountsOK'
  BY <1>1 DEF TgInv, SenderKnows, Senders, CountsOK
<1>4. \A s : ToCome(s)' => ToCome(s) \/ sender.at = "shown"
  BY <1>1 DEF ToCome, InQueue, Carries
<1> QED BY <1>1, <1>2, <1>3, <1>4, StaysBounded DEF TgInv

LEMMA CloudKeeps ==
    ASSUME TgInv, CloudTakesOver \/ CloudHandsBack \/ Restart
    PROVE  TgInv'
<1>1. UNCHANGED <<outages, bots, got>> /\ faults' = faults + 1 /\ faults' \in 0..MaxFaults
      /\ copied' \in BOOLEAN /\ stale' \in {stale, 1..outages}
  BY FaultIs DEF CloudTakesOver, CloudHandsBack, Restart, TgInv, CountsOK
<1>2. outages \in Nat /\ outages <= MaxOutages /\ stale' \subseteq 1..MaxOutages
  BY <1>1, Bounds DEF TgInv, CountsOK, Numbers
<1>3. Consistent(Fresh(0)) /\ Fresh(0).household.told = 0 /\ Consistent(tg) /\ Consistent(saved)
      /\ \A s : ~Owed(Fresh(0).household, s)
  BY <1>2, FreshIs, Bounds DEF TgInv
<1>4. Consistent(Forgotten(tg)) /\ Forgotten(tg).household = Fresh(0).household
  <2>1. tg \in State /\ Calm = Fresh(0).household /\ Fresh(0) \in State /\ Fresh(0).queue = <<>>
    BY <1>2, <1>3, FreshIs, Bounds DEF Consistent, Fresh
  <2>2. Forgotten(tg) \in State /\ Forgotten(tg).queue = <<>> /\ Forgotten(tg).household = Calm
    BY <2>1 DEF Forgotten, State
  <2> QED BY <1>3, <2>1, <2>2 DEF Consistent
<1>5. tg' \in {Forgotten(tg), Fresh(0), tg, saved} /\ saved' \in {Fresh(0), tg, saved}
      /\ Recorded'
  BY <1>3, <1>4 DEF CloudTakesOver, CloudHandsBack, Restart, TgInv, Recorded
<1>6. Consistent(tg') /\ Consistent(saved')
  BY <1>3, <1>4, <1>5
<1>7. Consistent(tg)' /\ Consistent(saved)'
  BY <1>1, <1>6, TgCarries, SavedCarries
<1>8. SenderKnows'
  <2>1. CASE Restart
    <3>1. sender' \in {[at |-> "off"], [at |-> "next"]}
      BY <2>1, KickedIs DEF Restart, Off
    <3> QED BY <3>1 DEF SenderKnows, Senders
  <2>2. CASE ~Restart
    <3>1. sender' = sender /\ tg' \in {Forgotten(tg), Fresh(0), tg}
      BY <2>2 DEF CloudTakesOver, CloudHandsBack
    <3> QED BY <1>1, <1>3, <1>4, <3>1 DEF TgInv, SenderKnows, OfThePast
  <2> QED BY <2>1, <2>2
<1>9. poller' \in 0..MaxBots
  BY <1>6, PollingIs DEF CloudTakesOver, CloudHandsBack, Restart, TgInv, CountsOK, Consistent
<1>10. CountsOK'
  BY <1>1, <1>2, <1>9 DEF TgInv, CountsOK
<1> QED BY <1>1, <1>5, <1>7, <1>8, <1>10, StaysBounded DEF TgInv

LEMMA ForgottenIs ==
    ASSUME NEW t, Consistent(t), outages \in Nat
    PROVE  Consistent(Forgotten(t)) /\ \A s : ~Owed(Forgotten(t).household, s) /\ ~InQueue(Forgotten(t), s)
<1>1. Consistent(Fresh(0)) /\ Calm = Fresh(0).household /\ Fresh(0).queue = <<>>
  BY FreshIs, Bounds DEF Fresh
<1>2. Fresh(0) \in State /\ t \in State
  BY <1>1 DEF Consistent
<1>3. /\ Forgotten(t) \in State /\ Forgotten(t).queue = <<>>
      /\ Forgotten(t).household = Fresh(0).household
  BY <1>1, <1>2 DEF Forgotten, State
<1>4. \A s : ~Owed(Fresh(0).household, s)
  BY FreshIs, Bounds
<1> QED BY <1>1, <1>3, <1>4 DEF Consistent, InQueue

LEMMA NextKeeps ==
    ASSUME TgInv, SenderNext
    PROVE  TgInv'
<1>1. sender.at = "next" /\ UNCHANGED <<saved, poller, copied, outages, bots, faults, got, stale>>
  BY DEF SenderNext
<1>2. Consistent(tg) /\ outages \in Nat
  BY Bounds DEF TgInv, CountsOK, Numbers
<1>3. /\ Consistent(tg') /\ tg'.household.told \in {0, tg.household.told}
      /\ \A s : InQueue(tg', s) => InQueue(tg, s)
      /\ \A s : Owed(tg'.household, s) => Owed(tg.household, s)
  <2>1. CASE tg' = Forgotten(tg)
    <3>1. Forgotten(tg).household.told = 0
      BY <1>2 DEF Forgotten, Calm, Consistent, State
    <3> QED BY <1>2, <2>1, <3>1, ForgottenIs
  <2>2. CASE tg' = [tg EXCEPT !.queue = Live(tg)]
    <3> DEFINE ks == {k \in DOMAIN tg.queue : tg.chats[tg.queue[k].to] = "on"}
    <3>1. tg' = [tg EXCEPT !.queue = Kept(tg.queue, ks)] /\ ks \in SUBSET DOMAIN tg.queue
      BY <2>2 DEF Live
    <3> HIDE DEF ks
    <3>2. /\ Consistent(tg') /\ tg'.household = tg.household
          /\ \A s : InQueue(tg', s) => InQueue(tg, s)
      BY <1>2, <3>1, KeptFit
    <3> QED BY <3>2
  <2>3. CASE tg' = tg
    BY <1>2, <2>3
  <2> QED BY <2>1, <2>2, <2>3 DEF SenderNext
<1>4. \/ sender' = Off
      \/ sender' = [at |-> "sending", entry |-> Head(tg'.queue)] /\ tg'.queue # <<>>
  BY DEF SenderNext
<1>5. Consistent(tg)' /\ Consistent(saved)' /\ Recorded' /\ CountsOK'
  BY <1>1, <1>3, TgCarries, SavedCarries DEF TgInv, Recorded, CountsOK
<1>6. tg'.queue \in Seq(Entry)
  BY <1>3 DEF Consistent, State
<1>7. tg'.queue # <<>> => 1 \in DOMAIN tg'.queue /\ Head(tg'.queue) = tg'.queue[1]
                          /\ Head(tg'.queue) \in Entry
  BY <1>6
<1>8. SenderKnows' /\ \A s : Carries(s)' => InQueue(tg', s)
  <2>1. CASE sender' = Off
    BY <2>1 DEF SenderKnows, Senders, Off, Carries
  <2>2. CASE sender' = [at |-> "sending", entry |-> Head(tg'.queue)] /\ tg'.queue # <<>>
    <3>1. OfThePast(tg', Shown(Head(tg'.queue)))
      BY <1>3, <1>7, <2>2 DEF Consistent
    <3>2. sender'.at = "sending" /\ sender'.entry = Head(tg'.queue) /\ sender' \in Senders
      BY <1>7, <2>2 DEF Senders
    <3>3. SenderKnows'
      BY <1>1, <3>1, <3>2 DEF SenderKnows, OfThePast, Senders
    <3> QED BY <1>7, <2>2, <3>2, <3>3 DEF Carries, InQueue
  <2> QED BY <1>4, <2>1, <2>2
<1>9. \A s : ToCome(s)' => ToCome(s)
  <2>1. \A s : InQueue(tg, s)' => InQueue(tg, s)
    BY <1>3 DEF InQueue
  <2>2. \A s : Carries(s)' => InQueue(tg, s)
    BY <1>3, <1>8
  <2> QED BY <1>1, <1>3, <2>1, <2>2 DEF ToCome
<1> QED BY <1>1, <1>5, <1>8, <1>9, StaysBounded DEF TgInv

-----------------------------------------------------------------------------
(* A reading. *)

Households == [since : SUBSET Inverters, alerted : SUBSET Inverters,
               out : BOOLEAN, suppressed : BOOLEAN, told : Numbers]

\* An outage that will be told the end of is one just told, or one that was
\* told already and is not over.
LEMMA EvaluatedIs ==
    ASSUME NEW h \in Households, NEW i \in Inverters, NEW grid, NEW cool \in BOOLEAN,
           NEW n \in Numbers
    PROVE  LET g == Evaluated(h, i, grid, cool, n) IN
           /\ g \in Households
           /\ g.told = IF TellsOutage(h, i, grid, cool) THEN n ELSE h.told
           /\ g.out /\ ~g.suppressed =>
                 \/ TellsOutage(h, i, grid, cool)
                 \/ h.out /\ ~h.suppressed /\ ~TellsRestore(h, i, grid)
<1> DEFINE alerted == IF grid = "up" THEN h.alerted \ {i}
                      ELSE IF Fires(h, i, grid) THEN h.alerted \cup {i} ELSE h.alerted
           since == IF grid = "up" THEN h.since \ {i} ELSE h.since \cup {i}
           begins == Fires(h, i, grid) /\ ~h.out
           out == (h.out \/ begins) /\ alerted # {}
           suppressed == (IF begins THEN cool ELSE h.suppressed) /\ alerted # {}
           told == IF begins /\ ~cool THEN n ELSE h.told
           g == Evaluated(h, i, grid, cool, n)
<1>1. g = [since |-> since, alerted |-> alerted, out |-> out,
           suppressed |-> suppressed, told |-> told]
  BY DEF Evaluated
<1>2. alerted \subseteq Inverters /\ since \subseteq Inverters /\ told \in Numbers
  BY DEF Households
<1>3. out \in BOOLEAN /\ suppressed \in BOOLEAN
  BY DEF Households, Fires
<1>4. begins /\ ~cool <=> TellsOutage(h, i, grid, cool)
  BY DEF TellsOutage
<1>5. TellsRestore(h, i, grid) => ~out
  BY DEF TellsRestore
<1>6. out /\ ~suppressed => TellsOutage(h, i, grid, cool) \/ (h.out /\ ~h.suppressed)
  BY <1>4
<1> HIDE DEF alerted, since, begins, out, suppressed, g
<1>7. g \in Households /\ g.told = told /\ g.out = out /\ g.suppressed = suppressed
  BY <1>1, <1>2, <1>3 DEF Households
<1> QED BY <1>4, <1>5, <1>6, <1>7 DEF g

LEMMA ReadingKeeps ==
    ASSUME TgInv, NEW i \in Inverters, NEW grid, NEW cool \in BOOLEAN, Reading(i, grid, cool)
    PROVE  TgInv'
<1> DEFINE h == tg.household
           tells == TellsOutage(h, i, grid, cool)
           restores == TellsRestore(h, i, grid)
           n == IF tells THEN outages + 1 ELSE outages
           added == IF tells THEN Entries("outage", n)
                    ELSE IF restores THEN Entries("grid_restored", h.told) ELSE <<>>
           g == Evaluated(h, i, grid, cool, n)
           q == IF added = <<>> THEN tg.queue ELSE Trim(tg.queue \o added)
<1>1. /\ n <= MaxOutages /\ outages' = n
      /\ tg' = [tg EXCEPT !.household = g, !.queue = q]
      /\ saved' = IF tells THEN tg' ELSE saved
      /\ sender' = IF added = <<>> THEN sender ELSE Kicked(sender, tg')
      /\ UNCHANGED <<poller, copied, bots, faults, got, stale>>
  BY DEF Reading
<1>2. /\ tg \in State /\ h \in Households /\ outages \in Nat
      /\ tg.queue \in Seq(Entry) /\ Len(tg.queue) <= MaxQueue
      /\ Consistent(tg) /\ Consistent(saved)
  BY Bounds DEF TgInv, Consistent, State, Households, CountsOK, Numbers
<1>3. n \in Numbers /\ outages <= n /\ n \in Nat
  BY <1>1, <1>2, Bounds DEF Numbers
<1>4. /\ g \in Households /\ g.told = (IF tells THEN n ELSE h.told)
      /\ g.out /\ ~g.suppressed => tells \/ (h.out /\ ~h.suppressed /\ ~restores)
  BY <1>2, <1>3, EvaluatedIs
<1>5. h.told \in Nat /\ h.told <= outages /\ (h.out /\ ~h.suppressed => h.told # 0)
  BY <1>2 DEF Consistent, Households, Numbers
<1>6. restores => h.out /\ ~h.suppressed
  BY DEF TellsRestore
<1>7. tells => n = outages + 1
  OBVIOUS
<1>8. ~tells => n = outages
  OBVIOUS
\* What is added is of the outage just told, or owed.
<1>9. /\ added \in Seq(Entry)
      /\ \A k \in DOMAIN added :
            \/ tells /\ added[k].kind = "outage" /\ added[k].n = n
            \/ ~tells /\ restores /\ added[k].kind = "grid_restored" /\ added[k].n = h.told
  <2>1. CASE tells
    <3>1. added \in Seq([to : Phones, kind : {"outage"}, n : {n}])
      BY <2>1, EntriesAre
    <3>2. n \in 1..MaxOutages
      BY <1>1, <1>2, <1>3, <1>7, <2>1
    <3> DEFINE R == [to : Phones, kind : {"outage"}, n : {n}]
    <3> HIDE DEF added, n, tells
    <3>3. \A e \in R : e \in Entry /\ e.kind = "outage" /\ e.n = n
      BY <3>2 DEF Entry, Kinds
    <3>4. added \in Seq(R)
      BY <3>1
    <3> HIDE DEF R
    <3>5. added \in Seq(Entry) /\ \A k \in DOMAIN added : added[k] \in R
      BY <3>3, <3>4
    <3> QED BY <2>1, <3>3, <3>5
  <2>2. CASE ~tells /\ restores
    <3>1. added \in Seq([to : Phones, kind : {"grid_restored"}, n : {h.told}])
      BY <2>2, EntriesAre
    <3>2. h.told \in 1..MaxOutages
      BY <1>1, <1>2, <1>3, <1>5, <1>6, <2>2, Bounds DEF Numbers
    <3> DEFINE R == [to : Phones, kind : {"grid_restored"}, n : {h.told}]
    <3> HIDE DEF added, n, h, tells, restores
    <3>3. \A e \in R : e \in Entry /\ e.kind = "grid_restored" /\ e.n = h.told
      BY <3>2 DEF Entry, Kinds
    <3>4. added \in Seq(R)
      BY <3>1
    <3> HIDE DEF R
    <3>5. added \in Seq(Entry) /\ \A k \in DOMAIN added : added[k] \in R
      BY <3>3, <3>4
    <3> QED BY <2>2, <3>3, <3>5
  <2>3. CASE ~tells /\ ~restores
    BY <2>3
  <2> QED BY <2>1, <2>2, <2>3
<1>10. /\ q \in Seq(Entry) /\ Len(q) <= MaxQueue
       /\ \A k \in DOMAIN q : \/ \E j \in DOMAIN tg.queue : q[k] = tg.queue[j]
                              \/ \E j \in DOMAIN added : q[k] = added[j]
  <2> HIDE DEF added
  <2>1. CASE added = <<>>
    BY <1>2, <2>1
  <2>2. CASE added # <<>>
    <3> DEFINE c == tg.queue \o added
    <3>1. c \in Seq(Entry)
      BY <1>2, <1>9
    <3>2. \A j \in DOMAIN c : \/ \E k \in DOMAIN tg.queue : c[j] = tg.queue[k]
                              \/ \E k \in DOMAIN added : c[j] = added[k]
      <4>1. PICK a \in Nat, b \in Nat : a = Len(tg.queue) /\ b = Len(added)
        BY <1>2, <1>9
      <4>2. /\ DOMAIN c = 1..(a + b) /\ DOMAIN tg.queue = 1..a /\ DOMAIN added = 1..b
            /\ \A j \in 1..(a + b) : c[j] = IF j <= a THEN tg.queue[j] ELSE added[j - a]
        BY <1>2, <1>9, <4>1
      <4>3. \A j \in 1..(a + b) : j <= a => j \in 1..a
        BY <4>1
      <4>4. \A j \in 1..(a + b) : ~(j <= a) => j - a \in 1..b
        BY <4>1
      <4> HIDE DEF c
      <4> QED BY <4>2, <4>3, <4>4
    <3> HIDE DEF c
    <3>3. /\ Trim(c) \in Seq(Entry) /\ Len(Trim(c)) <= MaxQueue
          /\ \A k \in DOMAIN Trim(c) : \E j \in DOMAIN c : Trim(c)[k] = c[j]
      BY <3>1, TrimIs
    <3>4. q = Trim(c)
      BY <2>2 DEF c
    <3> HIDE DEF q
    <3> QED BY <3>2, <3>3, <3>4
  <2> QED BY <2>1, <2>2
<1> HIDE DEF q, g, added, restores
<1>11. tg' \in State /\ tg'.queue = q /\ tg'.household = g
  BY <1>1, <1>2, <1>4, <1>10 DEF State, Households
<1>12. \A s : Owed(g, s) => (tells /\ s[3] = n) \/ (~tells /\ ~restores /\ Owed(h, s))
  BY <1>4 DEF Owed
<1> HIDE DEF n, tells
\* An entry that was queued, or in hand, is not owed again.
<1>13. ASSUME NEW e \in Entry, OfThePast(tg, Shown(e))
       PROVE  Shown(e)[3] <= n /\ ~Owed(g, Shown(e))
  <2>1. Shown(e)[3] = e.n /\ e.n \in Nat
    BY Bounds DEF Shown, Entry
  <2>2. e.n <= outages /\ ~Owed(h, Shown(e))
    BY <1>13, <2>1 DEF OfThePast
  <2>3. e.n <= n /\ (tells => e.n # n)
    BY <1>2, <1>3, <1>7, <2>1, <2>2
  <2> QED BY <1>12, <2>1, <2>2, <2>3
<1>14. ASSUME NEW k \in DOMAIN added
       PROVE  Shown(added[k])[3] <= n /\ ~Owed(g, Shown(added[k]))
  <2>1. Shown(added[k])[3] = added[k].n /\ Shown(added[k])[2] = added[k].kind
    BY DEF Shown
  <2>2. CASE tells /\ added[k].kind = "outage" /\ added[k].n = n
    BY <1>3, <2>1, <2>2 DEF Owed
  <2>3. CASE ~tells /\ restores /\ added[k].n = h.told
    BY <1>2, <1>3, <1>5, <1>12, <2>1, <2>3
  <2> QED BY <1>9, <2>2, <2>3
<1>15. \A k \in DOMAIN q : Shown(q[k])[3] <= n /\ ~Owed(g, Shown(q[k]))
  <2>1. \A j \in DOMAIN tg.queue : tg.queue[j] \in Entry /\ OfThePast(tg, Shown(tg.queue[j]))
    BY <1>2 DEF Consistent
  <2> QED BY <1>10, <1>13, <1>14, <2>1
<1>16. g.told <= n /\ (g.out /\ ~g.suppressed => g.told # 0)
  BY <1>2, <1>3, <1>4, <1>5, <1>7
<1>17. Consistent(tg)'
  BY <1>1, <1>10, <1>11, <1>15, <1>16 DEF Consistent, OfThePast
<1>18. Consistent(saved)'
  <2>1. CASE tells
    BY <1>1, <1>17, <2>1 DEF Consistent, OfThePast
  <2>2. CASE ~tells
    BY <1>1, <1>2, <1>8, <2>2 DEF Consistent, OfThePast, tells, n
  <2> QED BY <2>1, <2>2
<1>19. sender' = sender \/ (sender.at = "off" /\ sender' = [at |-> "next"])
  BY <1>1, KickedIs
<1>20. SenderKnows'
  <2>1. CASE sender' = sender
    <3>1. sender.at \in {"sending", "shown"} =>
             Shown(sender.entry)[3] <= n /\ ~Owed(g, Shown(sender.entry))
      BY <1>13, InHand
    <3> QED BY <1>1, <1>11, <2>1, <3>1 DEF TgInv, SenderKnows, OfThePast
  <2>2. CASE sender' = [at |-> "next"]
    BY <2>2 DEF SenderKnows, Senders
  <2> QED BY <1>19, <2>1, <2>2
<1>21. Recorded'
  <2>1. CASE tells
    BY <1>1, <2>1 DEF Recorded
  <2>2. CASE ~tells
    BY <1>1, <1>4, <1>11, <2>2 DEF TgInv, Recorded
  <2> QED BY <2>1, <2>2
<1>22. CountsOK'
  BY <1>1, <1>3 DEF TgInv, CountsOK
<1>23. ASSUME NEW s \in Alerts, ToCome(s)'
       PROVE  ToCome(s)
  <2>1. s[3] \in Nat /\ sender' \in {sender, [at |-> "next"]}
    BY <1>19, Bounds DEF Alerts
  <2>2. (Carries(s)' => Carries(s))
        /\ (sender'.at = "sending" => sender.at = "sending")
        /\ (sender.at = "shown" => sender'.at = "shown" /\ (Carries(s) => Carries(s)'))
    BY <1>19 DEF Carries
  <2>3. CASE s[3] > outages'
    BY <1>1, <1>2, <1>3, <2>1, <2>3 DEF ToCome
  <2>4. CASE Owed(g, s)
    <3>1. CASE tells /\ s[3] = n
      BY <1>2, <1>7, <2>1, <3>1 DEF ToCome
    <3> QED BY <1>12, <2>4, <3>1 DEF ToCome
  <2>5. CASE sender'.at = "sending" /\ Carries(s)'
    BY <2>2, <2>5 DEF ToCome
  <2>6. CASE InQueue(tg', s) /\ ~(sender'.at = "shown" /\ Carries(s)')
    <3>1. PICK k \in DOMAIN q : Shown(q[k]) = s
      BY <1>11, <2>6 DEF InQueue
    <3>2. CASE \E j \in DOMAIN tg.queue : q[k] = tg.queue[j]
      BY <2>2, <2>6, <3>1, <3>2 DEF ToCome, InQueue
    <3>3. ASSUME NEW j \in DOMAIN added, q[k] = added[j]
          PROVE  ToCome(s)
      <4>1. s[3] = added[j].n /\ s[2] = added[j].kind
        BY <3>1, <3>3 DEF Shown
      <4>2. CASE tells /\ added[j].n = n
        BY <1>2, <1>7, <2>1, <4>1, <4>2 DEF ToCome
      <4>3. CASE restores /\ added[j].kind = "grid_restored" /\ added[j].n = h.told
        BY <1>6, <4>1, <4>3 DEF ToCome, Owed, restores
      <4> QED BY <1>9, <4>2, <4>3
    <3> QED BY <1>10, <3>2, <3>3
  <2>7. ToCome(s)' => \/ s[3] > outages'
                      \/ Owed(g, s)
                      \/ sender'.at = "sending" /\ Carries(s)'
                      \/ InQueue(tg', s) /\ ~(sender'.at = "shown" /\ Carries(s)')
    BY <1>11 DEF ToCome, InQueue
  <2> QED BY <1>23, <2>3, <2>4, <2>5, <2>6, <2>7
<1>24. Bounded'
  BY <1>1, <1>23, StaysBounded
<1> QED BY <1>17, <1>18, <1>20, <1>21, <1>22, <1>24 DEF TgInv

-----------------------------------------------------------------------------
LEMMA TgStarts == TgInit => TgInv
<1> SUFFICES ASSUME TgInit PROVE TgInv
  OBVIOUS
<1>1. /\ tg = Fresh(0) /\ saved = Fresh(0) /\ sender = Off /\ poller = 0
      /\ copied = FALSE /\ outages = 0 /\ bots = 0 /\ faults = 0
      /\ got = [s \in Alerts |-> 0] /\ stale = {}
  BY DEF TgInit
<1>2. Consistent(tg) /\ Consistent(saved) /\ tg.household.told = 0
  BY <1>1, FreshIs, Bounds
<1>3. CountsOK
  <2>1. got \in [Alerts -> Nat]
    BY <1>1
  <2>2. 0 \in 0..MaxBots /\ 0 \in 0..MaxOutages /\ 0 \in 0..MaxFaults
    BY Bounds
  <2> QED BY <1>1, <2>1, <2>2, Zenon DEF CountsOK, Numbers
<1>4. SenderKnows
  BY <1>1 DEF SenderKnows, Senders, Off
<1>5. Recorded
  BY <1>2 DEF Recorded
<1>6. Bounded
  BY <1>1 DEF Bounded
<1> QED BY <1>2, <1>3, <1>4, <1>5, <1>6 DEF TgInv

LEMMA TgStutters == ASSUME TgInv, UNCHANGED tgVars PROVE TgInv'
<1>1. UNCHANGED <<tg, saved, sender, poller, copied, outages, bots, faults, got, stale>>
  BY DEF tgVars
<1>2. Consistent(tg)' /\ Consistent(saved)'
  BY <1>1, TgCarries, SavedCarries DEF TgInv
<1>3. SenderKnows' /\ Recorded' /\ CountsOK'
  BY <1>1 DEF TgInv, SenderKnows, OfThePast, Recorded, CountsOK
<1>4. \A s : ToCome(s)' => ToCome(s)
  BY <1>1 DEF ToCome, InQueue, Carries
<1> QED BY <1>1, <1>2, <1>3, <1>4, StaysBounded DEF TgInv

LEMMA TgStays == ASSUME TgInv, [TgNext]_tgVars PROVE TgInv'
<1>1. ASSUME NEW i \in Inverters, NEW grid \in {"up", "down", "long", "confirmed"},
             NEW cool \in BOOLEAN, Reading(i, grid, cool)
      PROVE  TgInv'
  BY <1>1, ReadingKeeps
<1>2. CASE SenderNext
  BY <1>2, NextKeeps
<1>3. CASE TelegramShows
  BY <1>3, ShowsKeeps
<1>4. CASE SentOk
  BY <1>4, SentKeeps
<1>5. CASE SendRefused
  BY <1>5, RefusedKeeps
<1>6. CASE SendLost
  BY <1>6, LostKeeps
<1>7. CASE RetryDue
  BY <1>7, RetryKeeps
<1>8. CASE SetBot \/ RemoveBot
  BY <1>8, BotKeeps
<1>9. ASSUME NEW p \in Phones, Link(p) \/ SetEnabled(p) \/ Unlink(p)
      PROVE  TgInv'
  BY <1>9, LinkKeeps
<1>10. CASE Updates \/ PollFails
  BY <1>10, PollerKeeps
<1>11. CASE CloudTakesOver \/ CloudHandsBack \/ Restart
  BY <1>11, CloudKeeps
<1>12. CASE SaveDue
  BY <1>12, SaveKeeps
<1>13. CASE UNCHANGED tgVars
  BY <1>13, TgStutters
<1> QED BY <1>1, <1>2, <1>3, <1>4, <1>5, <1>6, <1>7, <1>8, <1>9, <1>10, <1>11, <1>12, <1>13
        DEF TgNext

LEMMA AlertsStayBounded == TgSpec => []TgInv
BY TgStarts, TgStays, PTL DEF TgSpec

\* The state, its file, the tasks and the counts are well typed in every state,
\* and the queue is never longer than MAX_QUEUE.
THEOREM TgTypeCorrect == TgSpec => []TgTypeOK
<1>1. TgInv => TgTypeOK
  BY DEF TgInv, CountsOK, Consistent, SenderKnows, Senders, TgTypeOK
<1> QED BY <1>1, AlertsStayBounded, PTL

\* An outage a phone was shown is in the file before the phone sees it, so a
\* power cut does not tell it as a new one (runtime.py:247-250); and a phone is
\* shown an alert again only after a crash, a reload or a lost answer: an alert
\* that left the queue, or was shown and waits for its answer, is not due again
\* however readings, links and polls kick the sender.
THEOREM AlertsToldOnce == TgSpec => []ToldOnce
<1>1. TgInv => ToldOnce
  <2> SUFFICES ASSUME TgInv PROVE ToldOnce
    OBVIOUS
  <2>1. \A n \in 1..MaxOutages : tg.household.told = n => saved.household.told = n
    BY Bounds DEF TgInv, Recorded
  <2> QED BY <2>1 DEF TgInv, Bounded, ToldOnce
<1> QED BY <1>1, AlertsStayBounded, PTL

(***************************************************************************)
(* All of it.                                                              *)
(***************************************************************************)

LEMMA HostMoves ==
    /\ HostInit => LpInit /\ EuInit /\ SsInit /\ TgInit
    /\ [HostNext]_hostVars => /\ [LpNext]_lpVars /\ [EuNext]_euVars
                              /\ [SsNext]_ssVars /\ [TgNext]_tgVars
BY DEF HostInit, HostNext, hostVars

\* The alerts, the settings, the entry and the pairing are well typed side by side.
THEOREM HostTypeCorrect == HostSpec => []HostTypeOK
<1>1. HostSpec => LpSpec /\ EuSpec /\ SsSpec /\ TgSpec
  BY HostMoves, PTL DEF HostSpec, LpSpec, EuSpec, SsSpec, TgSpec
<1>2. TgTypeOK /\ SsTypeOK /\ EuTypeOK /\ LpTypeOK => HostTypeOK
  BY DEF HostTypeOK
<1> QED BY <1>1, <1>2, PairingTypeCorrect, EntryTypeCorrect, SettingsTypeCorrect,
           TgTypeCorrect, PTL
==============================================================================
