--------------------------- MODULE TelegramAlerts ---------------------------
(***************************************************************************)
(* Telegram alerts of an island: telegram/state.py, detector.py,           *)
(* runtime.py and views.py, for one household.                             *)
(*                                                                         *)
(* A step is the code between two awaits that may suspend: the answers of  *)
(* Telegram and the sleeps.  The locks of the state and of the runtime are *)
(* free otherwise, except while an outage is flushed, when the sender      *)
(* cannot see the queue either.  An alert has the number of its outage.    *)
(* Not modelled: the age of a week at which a queued alert is dropped, the *)
(* texts, and codes that expire unclaimed.                                 *)
(***************************************************************************)
EXTENDS Naturals, FiniteSets, SequencesExt

CONSTANTS
    Phones,       \* paired phones: device ids
    Inverters,    \* of the household
    MaxQueue,     \* MAX_QUEUE
    MaxBots,      \* bound: bots set
    MaxOutages,   \* bound: outages the detector reports
    MaxFaults     \* bound: crashes, reloads, lost answers, cloud switches

ASSUME TelegramAssumption ==
    /\ IsFiniteSet(Phones)
    /\ MaxQueue \in Nat \ {0}
    /\ {MaxBots, MaxOutages, MaxFaults} \subseteq Nat

VARIABLES
    tg,       \* TelegramState
    saved,    \* the file it is saved to
    sender,   \* the sender task: where it is, and its entry
    poller,   \* the link poller: the bot it polls, 0 when it does not run
    copied,   \* is the cloud copy on for this household?
    outages,  \* outages the detector reported so far
    bots,     \* bots set so far
    faults,
    got,      \* history: how often a phone was shown an alert
    stale     \* history: outages the cloud took over

tgVars == <<tg, saved, sender, poller, copied, outages, bots, faults, got, stale>>

Kinds == {"outage", "grid_restored"}
Numbers == 0..MaxOutages
Alerts == Phones \X Kinds \X (1..MaxOutages)

Calm == [since |-> {}, alerted |-> {}, out |-> FALSE, suppressed |-> FALSE, told |-> 0]
Fresh(b) == [bot |-> b, status |-> "good", chats |-> [p \in Phones |-> "none"],
             codes |-> {}, offsetOf |-> 0, queue |-> <<>>, household |-> Calm]

Off == [at |-> "off"]

TgInit ==
    /\ tg = Fresh(0) /\ saved = Fresh(0)
    /\ sender = Off /\ poller = 0
    /\ copied = FALSE
    /\ outages = 0 /\ bots = 0 /\ faults = 0
    /\ got = [s \in Alerts |-> 0] /\ stale = {}

Fault == faults < MaxFaults /\ faults' = faults + 1

-----------------------------------------------------------------------------
(* The detector: evaluate.                                                 *)

\* What a reading says of one inverter: the grid is up, down, down for longer
\* than the debounce, or down and confirmed by the edge.
Fires(h, i, grid) == grid \in {"long", "confirmed"} /\ i \notin h.alerted

\* `cool`: the last outage told is less than an hour ago.
Evaluated(h, i, grid, cool, n) ==
    LET alerted == IF grid = "up" THEN h.alerted \ {i}
                   ELSE IF Fires(h, i, grid) THEN h.alerted \cup {i} ELSE h.alerted
        begins == Fires(h, i, grid) /\ ~h.out
        out == h.out \/ begins
    IN  [since |-> IF grid = "up" THEN h.since \ {i} ELSE h.since \cup {i},
         alerted |-> alerted,
         out |-> out /\ alerted # {},
         suppressed |-> (IF begins THEN cool ELSE h.suppressed) /\ alerted # {},
         told |-> IF begins /\ ~cool THEN n ELSE h.told]

TellsOutage(h, i, grid, cool) == Fires(h, i, grid) /\ ~h.out /\ ~cool
TellsRestore(h, i, grid) ==
    grid = "up" /\ i \in h.alerted /\ h.alerted = {i} /\ h.out /\ ~h.suppressed

\* One queue entry per enabled chat; the newest MaxQueue are kept.
Entries(kind, n) ==
    LET on == SetToSeq({p \in Phones : tg.chats[p] = "on"})
    IN  [k \in DOMAIN on |-> [to |-> on[k], kind |-> kind, n |-> n]]
Untrimmed(q) == q  \* mutant
Trim(q) == SubSeq(q, (IF Len(q) > MaxQueue THEN Len(q) - MaxQueue ELSE 0) + 1, Len(q))

\* _can_send, and the kick that starts a sender if there is none and need be.
CanSend(t) == t.bot # 0 /\ t.status # "invalid"
NeverKicked(s, t) == s  \* mutant
Kicked(s, t) == IF s.at = "off" /\ CanSend(t) /\ t.queue # <<>> THEN [at |-> "next"] ELSE s

\* on_reading, for a full island with a bot and an enabled chat.  An outage is
\* flushed before the sender can see it.
Reading(i, grid, cool) ==
    LET h == tg.household
        n == IF TellsOutage(h, i, grid, cool) THEN outages + 1 ELSE outages
        added == IF TellsOutage(h, i, grid, cool) THEN Entries("outage", n)
                 ELSE IF TellsRestore(h, i, grid) THEN Entries("grid_restored", h.told)
                 ELSE <<>>
    IN  /\ ~copied
        /\ tg.bot # 0
        /\ \E p \in Phones : tg.chats[p] = "on"
        /\ grid = "long" => i \in h.since
        /\ cool => h.told # 0
        /\ n <= MaxOutages
        /\ outages' = n
        /\ tg' = [tg EXCEPT !.household = Evaluated(h, i, grid, cool, n),
                            !.queue = IF added = <<>> THEN @ ELSE Trim(@ \o added)]
        /\ saved' = IF TellsOutage(h, i, grid, cool) THEN tg' ELSE saved
        /\ sender' = IF added = <<>> THEN sender ELSE Kicked(sender, tg')
        /\ UNCHANGED <<poller, copied, bots, faults, got, stale>>

-----------------------------------------------------------------------------
(* The sender: _send_loop.                                                 *)

\* The entries of a queue at some of its positions, in their order.
Kept(q, ks) ==
    [i \in 1..Cardinality(ks) |-> q[CHOOSE k \in ks : Cardinality({j \in ks : j <= k}) = i]]

\* drop_households: its queued alerts and its detector state.
Forgotten(t) == [t EXCEPT !.queue = <<>>, !.household = Calm]

\* _next_entry: the alerts of a household the cloud covers, and those of chats
\* that are gone or off, are dropped; the first of the others is sent.
Live(t) == Kept(t.queue, {k \in DOMAIN t.queue : t.chats[t.queue[k].to] = "on"})
SenderNext ==
    /\ sender.at = "next"
    /\ IF ~CanSend(tg)
       THEN sender' = Off /\ UNCHANGED tg
       ELSE /\ tg' = IF copied /\ tg.queue # <<>> THEN Forgotten(tg)
                     ELSE [tg EXCEPT !.queue = Live(tg)]
            /\ sender' = IF tg'.queue = <<>> THEN Off
                         ELSE [at |-> "sending", entry |-> Head(tg'.queue)]
    /\ UNCHANGED <<saved, poller, copied, outages, bots, faults, got, stale>>

\* Telegram shows the message; its answer may be lost.
Shown(e) == <<e.to, e.kind, e.n>>
TelegramShows ==
    /\ sender.at = "sending"
    /\ sender' = [sender EXCEPT !.at = "shown"]
    /\ got' = [got EXCEPT ![Shown(sender.entry)] = @ + 1]
    /\ UNCHANGED <<tg, saved, poller, copied, outages, bots, faults, stale>>

\* A good call also clears bot_in_use_elsewhere.
Cleared(t) == [t EXCEPT !.status = IF @ = "in_use" THEN "good" ELSE @]
Within(t, e) == t  \* mutant
Without(t, e) ==
    [t EXCEPT !.queue = Kept(@, {k \in DOMAIN @ : @[k] # e})]
SentOk ==
    /\ sender.at = "shown"
    /\ tg' = Without(Cleared(tg), sender.entry)
    /\ sender' = [at |-> "next"]
    /\ UNCHANGED <<saved, poller, copied, outages, bots, faults, got, stale>>

\* 403 and "chat not found" unlink the chat, any other 4xx drops the entry, a
\* 401 keeps everything and ends the sender.
SendRefused ==
    /\ sender.at = "sending"
    /\ Fault
    /\ LET p == sender.entry.to IN
       \/ /\ tg' = [tg EXCEPT !.chats[p] = "none",
                              !.queue = Kept(@, {k \in DOMAIN @ : @[k].to # p})]
          /\ sender' = [at |-> "next"]
       \/ tg' = Without(tg, sender.entry) /\ sender' = [at |-> "next"]
       \/ tg' = [tg EXCEPT !.status = "invalid"] /\ sender' = Off
    /\ UNCHANGED <<saved, poller, copied, outages, bots, got, stale>>

\* A network error, a 5xx or a 429, before or after Telegram showed it.
SendLost ==
    /\ sender.at \in {"sending", "shown"}
    /\ sender.at = "shown" => Fault
    /\ sender.at = "sending" => UNCHANGED faults
    /\ sender' = [at |-> "waiting"]
    /\ UNCHANGED <<tg, saved, poller, copied, outages, bots, got, stale>>
RetryDue ==
    /\ sender.at = "waiting"
    /\ sender' = [at |-> "next"]
    /\ UNCHANGED <<tg, saved, poller, copied, outages, bots, faults, got, stale>>

-----------------------------------------------------------------------------
(* The owner and the phones: telegram/views.py, and the poller they wake.  *)

\* A new bot, or none, starts from nothing; the running tasks keep the old one.
SetBot ==
    /\ bots < MaxBots
    /\ bots' = bots + 1
    /\ tg' = Fresh(bots') /\ saved' = tg'
    /\ UNCHANGED <<sender, poller, copied, outages, faults, got, stale>>
RemoveBot ==
    /\ tg.bot # 0
    /\ tg' = Fresh(0) /\ saved' = tg'
    /\ UNCHANGED <<sender, poller, copied, outages, bots, faults, got, stale>>

\* POST link: a code for this phone replaces its former one, and wakes both
\* tasks.
Link(p) ==
    /\ tg.bot # 0 /\ p \notin tg.codes
    /\ tg' = [tg EXCEPT !.codes = @ \cup {p}]
    /\ sender' = Kicked(sender, tg')
    /\ poller' = IF poller = 0 /\ CanSend(tg) THEN tg.bot ELSE poller
    /\ UNCHANGED <<saved, copied, outages, bots, faults, got, stale>>

\* PATCH me, DELETE me, and unlink_device of a revoked phone.
SetEnabled(p) ==
    /\ tg.chats[p] # "none"
    /\ tg' = [tg EXCEPT !.chats[p] = IF @ = "on" THEN "off" ELSE "on"]
    /\ UNCHANGED <<saved, sender, poller, copied, outages, bots, faults, got, stale>>
Unlink(p) ==
    /\ tg.chats[p] # "none" \/ p \in tg.codes
    /\ tg' \in {[tg EXCEPT !.chats[p] = "none"],
                [tg EXCEPT !.chats[p] = "none", !.codes = @ \ {p}]}
    /\ UNCHANGED <<saved, sender, poller, copied, outages, bots, faults, got, stale>>

\* The loop polls again, with the bot and the offset of the moment, while a
\* code is pending.
Polling(t) == IF CanSend(t) /\ t.codes # {} THEN t.bot ELSE 0

\* getUpdates is answered: a chat claimed the code of a phone, or nobody did.
\* An offset of another bot hides the updates of this one.
Updates ==
    /\ poller # 0
    /\ \/ \E p \in tg.codes :
            /\ tg.offsetOf \in {0, poller}
            /\ tg' = Cleared([tg EXCEPT !.offsetOf = poller, !.codes = @ \ {p},
                                        !.chats[p] = "on"])
       \/ tg' = Cleared(tg)
    /\ poller' = Polling(tg')
    /\ UNCHANGED <<saved, sender, copied, outages, bots, faults, got, stale>>
PollFails ==
    /\ poller # 0
    /\ Fault
    /\ \/ tg' = [tg EXCEPT !.status = "in_use"] /\ poller' = 0
       \/ tg' = [tg EXCEPT !.status = "invalid"] /\ poller' = 0
       \/ UNCHANGED tg /\ poller' = Polling(tg)
    /\ UNCHANGED <<saved, sender, copied, outages, bots, got, stale>>

-----------------------------------------------------------------------------
(* The cloud copy, saves and restarts.                                     *)

\* Over the LAN: set_cloud_copy forgets the household, leave_island also the
\* bot.  By a command of the cloud: neither.
CloudTakesOver ==
    /\ ~copied /\ Fault
    /\ copied' = TRUE
    /\ tg' \in {Forgotten(tg), Fresh(0), tg}
    /\ saved' = IF tg' = Fresh(0) THEN tg' ELSE saved
    /\ stale' = 1..outages
    /\ UNCHANGED <<sender, poller, outages, bots, got>>
CloudHandsBack ==
    /\ copied /\ Fault
    /\ copied' = FALSE
    /\ UNCHANGED <<tg, saved, sender, poller, outages, bots, got, stale>>

SaveDue ==
    /\ saved # tg
    /\ faults < MaxFaults    \* bound: the file is not read after the last fault
    /\ saved' = tg
    /\ UNCHANGED <<tg, sender, poller, copied, outages, bots, faults, got, stale>>

\* start, after a reload, which flushes, or after a crash.
Restart ==
    /\ Fault
    /\ \/ tg' = tg /\ saved' = tg
       \/ tg' = saved /\ UNCHANGED saved
    /\ sender' = Kicked(Off, tg')
    /\ poller' = Polling(tg')
    /\ UNCHANGED <<copied, outages, bots, got, stale>>

-----------------------------------------------------------------------------
TgNext ==
    \/ \E i \in Inverters, grid \in {"up", "down", "long", "confirmed"}, cool \in BOOLEAN :
          Reading(i, grid, cool)
    \/ SenderNext \/ TelegramShows \/ SentOk \/ SendRefused \/ SendLost \/ RetryDue
    \/ SetBot \/ RemoveBot
    \/ \E p \in Phones : Link(p) \/ SetEnabled(p) \/ Unlink(p)
    \/ Updates \/ PollFails
    \/ CloudTakesOver \/ CloudHandsBack \/ SaveDue \/ Restart

TgSpec == TgInit /\ [][TgNext]_tgVars

\* The sender task goes on, and a message that is sent again and again is
\* answered in the end.
TgFair ==
    /\ WF_tgVars(SenderNext) /\ WF_tgVars(RetryDue)
    /\ SF_tgVars(TelegramShows) /\ SF_tgVars(SentOk)

-----------------------------------------------------------------------------
(* Properties.                                                             *)

Entry == [to : Phones, kind : Kinds, n : 1..MaxOutages]
State == [bot : 0..MaxBots, status : {"good", "invalid", "in_use"},
          chats : [Phones -> {"none", "on", "off"}], codes : SUBSET Phones,
          offsetOf : 0..MaxBots, queue : Seq(Entry),
          household : [since : SUBSET Inverters, alerted : SUBSET Inverters,
                       out : BOOLEAN, suppressed : BOOLEAN, told : Numbers]]

TgTypeOK ==
    /\ {tg, saved} \subseteq State
    /\ Len(tg.queue) <= MaxQueue
    /\ sender \in [at : {"off", "next", "waiting"}]
                  \cup [at : {"sending", "shown"}, entry : Entry]
    /\ poller \in 0..MaxBots
    /\ copied \in BOOLEAN
    /\ outages \in Numbers /\ bots \in 0..MaxBots /\ faults \in 0..MaxFaults
    /\ got \in [Alerts -> Nat]
    /\ stale \subseteq 1..MaxOutages

\* An outage is told once.  One that a phone has been shown survives a power
\* cut, so that it is not told again as a new one (runtime.py:247-250); and the
\* sender shows an alert again only after a crash, a reload or an answer that
\* was lost, whatever readings, links and polls kick it meanwhile.
ToldOnce ==
    /\ \A p \in Phones, n \in 1..MaxOutages :
          (got[<<p, "outage", n>>] > 0 /\ tg.household.told = n)
             => saved.household.told = n
    /\ \A s \in Alerts : got[s] <= 1 + faults

\* A queued alert is shown or dropped, or the bot's token is known to be bad:
\* no kick is lost between the sender's last look and its end.
Queued(p, n) == \E k \in DOMAIN tg.queue : tg.queue[k].to = p /\ tg.queue[k].n = n
AlertsSettle ==
    TgFair => \A p \in Phones, n \in 1..MaxOutages :
        Queued(p, n) ~> (~Queued(p, n) \/ tg.status = "invalid")

\* "A household that later goes back to island starts fresh, so it never gets
\* the restore of an outage it was told about another way"
\* (runtime.py:207-208): not when the cloud itself took it over.
ReturnsFresh ==
    [][\A n \in stale, p \in Phones :
          got'[<<p, "grid_restored", n>>] = got[<<p, "grid_restored", n>>]]_tgVars
=============================================================================
