------------------------------- MODULE BmsRoster -------------------------------
(***************************************************************************)
(* The battery packs each adopted edge box is to read: the rosters Home    *)
(* Assistant keeps, the commands of the LAN that change them, and bms_sync,*)
(* which tells a box its set (bms_roster.py, bms_packs.py, bms_lan.py).    *)
(*                                                                         *)
(* A set maps a pack to "none", "auto" (the box identifies it) or "own"    *)
(* (the owner chose the driver); labels stay in Home Assistant and are left*)
(* out.  A step is the code between two awaits; the store writes are       *)
(* transactions.                                                           *)
(***************************************************************************)
EXTENDS Naturals, Sequences, FiniteSets

CONSTANTS
    Boards,
    Packs,
    Views,        \* LAN requests that can run at a time
    MaxPacks,     \* MAX_PACKS_PER_BOX
    MaxChanges,   \* bound: LAN requests
    MaxLosses     \* bound: commands a box was sent and did not get

ASSUME RosterAssumption ==
    /\ Boards \cap Views = {}
    /\ IsFiniteSet(Packs)
    /\ {MaxPacks, MaxChanges, MaxLosses} \subseteq Nat

VARIABLES
    roster,    \* bms_roster
    reported,  \* bms_state: per box, its latest report
    imported,  \* bms_imported: packs with a driver copied from the cloud
    pendingImports, \* bms_import_pending: <<box, pack>>
    queue,     \* per box, the pending bms_sync commands
    box,       \* per box, the epoch and the set it holds
    task,      \* per box its report, and per view its request: where it is
    generations, \* roster generations made so far
    count,     \* of changes and losses
    restored   \* boxes whose roster was restored from a backup

rosterVars == <<roster, reported, imported, pendingImports, queue, box, task, generations,
                count, restored>>

Sets == [Packs -> {"none", "auto", "own"}]
Epoch(r) == <<r.gen, r.n>>
NoEpoch == <<0, 0>>
NoRoster == [gen |-> 0, n |-> 0, set |-> [p \in Packs |-> "none"], last |-> NoEpoch]
Managed(b) == roster[b] # NoRoster
Members(set) == {p \in Packs : set[p] # "none"}

\* A request: what it was asked, the boxes it yet delivers to, and the roster
\* it read for the one it is at.
NoTask == [at |-> "idle", ask |-> <<>>, todo |-> {}, force |-> FALSE, to |-> "none",
         read |-> NoRoster, held |-> FALSE]

\* The cloud gave each box a set, and left Home Assistant without a roster; or
\* it manages one of them, from a backup older than what the box holds.
RosterInit ==
    /\ restored \in SUBSET Boards /\ Cardinality(restored) <= 1
    /\ \E sets \in [Boards -> {s \in Sets : \A p \in Packs : s[p] # "own"}] :
          /\ \A p \in Packs, b, c \in Boards : (sets[b][p] # "none" /\ sets[c][p] # "none") => b = c
          /\ box = [b \in Boards |-> [gen |-> 1, n |-> IF b \in restored THEN 2 ELSE 1, set |-> sets[b]]]
          /\ roster = [b \in Boards |->
                IF b \notin restored THEN NoRoster
                ELSE [gen |-> 1, n |-> 1, last |-> <<1, 1>>, set |-> [p \in Packs |-> "none"]]]
    /\ reported = [b \in Boards |-> NoRoster]
    /\ imported = {} /\ pendingImports = {}
    /\ queue = [b \in Boards |-> <<>>]
    /\ task = [x \in Boards \cup Views |-> NoTask]
    /\ generations = 1
    /\ count = [changes |-> 0, losses |-> 0]

Spend(what, limit) == count[what] < limit /\ count' = [count EXCEPT ![what] = @ + 1]

-----------------------------------------------------------------------------
(* The store.                                                              *)

\* What a box's list is: its roster, or what it reported and was imported.
Current(b) ==
    IF Managed(b) THEN roster[b].set
    ELSE [p \in Packs |->
            IF reported[b].set[p] # "none" /\ p \in imported THEN "own" ELSE reported[b].set[p]]

\* _change_rosters_sync: a box whose list changes gets the next n, of its
\* roster or of the epoch it reported.
Base(b, g) ==
    IF Managed(b) THEN roster[b]
    ELSE IF reported[b] # NoRoster THEN [reported[b] EXCEPT !.last = NoEpoch]
    ELSE [NoRoster EXCEPT !.gen = g]
Changed(wanted) == {b \in Boards : wanted[b] # Current(b)}
Rewritten(wanted) ==
    [b \in Boards |->
        IF b \in Changed(wanted)
        THEN LET r == Base(b, generations + 1) IN [r EXCEPT !.n = @ + 1, !.set = wanted[b]]
        ELSE roster[b]]
ChangeRosters(wanted) ==
    /\ roster' = Rewritten(wanted)
    /\ generations' = generations +
          (IF \E b \in Changed(wanted) : ~Managed(b) /\ reported[b] = NoRoster THEN 1 ELSE 0)

-----------------------------------------------------------------------------
(* BmsCommandView and BmsImportView.                                       *)

Kinds == {"adopt", "forget", "driver", "import"}
Asks == [kind : Kinds \cup {"move"}, of : Boards, pack : Packs, for : Boards]

\* The rosters and the reports are read (here in one step), and the request is
\* refused on what they say: a pack another box reads, a full box, a pack that
\* is not this box's.
Owner(p) == {b \in Boards : Current(b)[p] # "none"}
Full(b) == Cardinality(Members(Current(b))) >= MaxPacks
Accepts(ask) ==
    LET b == ask.of  holders == Owner(ask.pack) IN
    /\ (ask.kind = "move") = (ask.for # b)
    /\ CASE ask.kind = "adopt"  -> holders \subseteq {b} /\ (holders = {} => ~Full(b))
         [] ask.kind = "import" -> TRUE
         [] ask.kind = "move"   -> b \in holders /\ ~Full(ask.for)
         [] OTHER               -> b \in holders
Submit(v) ==
    /\ task[v] = NoTask
    /\ Spend("changes", MaxChanges)
    /\ \E ask \in Asks :
          /\ Accepts(ask)
          /\ task' = [task EXCEPT ![v] =
                [NoTask EXCEPT !.at = "change", !.ask = ask, !.read = roster[ask.of],
                             !.held = Current(ask.of)[ask.pack] # "none"]]
    /\ UNCHANGED <<roster, reported, imported, pendingImports, queue, box, generations, restored>>

\* The change is made to the lists as they are now.
Edited(ask, c) ==
    LET list == Current(c)  p == ask.pack IN
    CASE c = ask.of /\ ask.kind = "adopt"              -> [list EXCEPT ![p] = "auto"]
      [] c = ask.of /\ ask.kind \in {"forget", "move"} -> [list EXCEPT ![p] = "none"]
      [] c = ask.of /\ list[p] # "none"                -> [list EXCEPT ![p] = "own"]
      [] c # ask.of /\ c = ask.for -> [list EXCEPT ![p] = Current(ask.of)[p]]
      [] OTHER                     -> list
Wanted(ask) == [c \in Boards |-> Edited(ask, c)]
Deliveries(v, wanted) ==
    [task EXCEPT ![v] = IF Changed(wanted) = {} THEN NoTask
                        ELSE [NoTask EXCEPT !.at = "read", !.todo = Changed(wanted), !.force = TRUE]]
ImportSettled(b, p, held) == IF held THEN pendingImports \ (Boards \X {p})
                       ELSE (pendingImports \ (Boards \X {p})) \cup {<<b, p>>}
Change(v) ==
    /\ task[v].at = "change"
    /\ LET ask == task[v].ask  b == ask.of  p == ask.pack IN
       \/ \* a command, or a copy for a pack of a box with a roster
          /\ ask.kind = "import" => task[v].read # NoRoster /\ task[v].held
          /\ ask.kind = "move" => Current(b)[p] # "none"
          /\ ChangeRosters(Wanted(ask))
          /\ task' = Deliveries(v, Wanted(ask))
          /\ pendingImports' = IF ask.kind = "import" THEN ImportSettled(b, p, TRUE) ELSE pendingImports
          /\ UNCHANGED imported
       \/ \* the pack to move is gone meanwhile: the request fails
          /\ ask.kind = "move" /\ Current(b)[p] = "none"
          /\ task' = [task EXCEPT ![v] = NoTask]
          /\ UNCHANGED <<roster, generations, imported, pendingImports>>
       \/ \* copied for a box with no roster, or for a pack it does not report
          /\ ask.kind = "import" /\ (task[v].read = NoRoster \/ ~task[v].held)
          /\ imported' = IF task[v].held THEN imported \cup {p} ELSE imported
          /\ pendingImports' = ImportSettled(b, p, task[v].held)
          /\ task' = [task EXCEPT ![v] = NoTask]
          /\ UNCHANGED <<roster, generations>>
    /\ UNCHANGED <<reported, queue, box, count, restored>>

-----------------------------------------------------------------------------
(* async_deliver, of a LAN request or of a report.                         *)

\* The box's set is read; one that was sent less than SYNC_RESEND_AFTER_MS ago
\* is not sent, unless forced.
SentBefore(b) == roster[b].last = Epoch(roster[b])
Delivered(x, b) ==
    [task EXCEPT ![x] = IF task[x].todo = {b} THEN NoTask
                        ELSE [NoTask EXCEPT !.at = "read", !.todo = task[x].todo \ {b},
                                          !.force = task[x].force]]
ReadRoster(x, b, recent) ==
    /\ task[x].at = "read" /\ b \in task[x].todo
    /\ recent => SentBefore(b)
    /\ task' = IF ~Managed(b) \/ (recent /\ ~task[x].force)
               THEN Delivered(x, b)
               ELSE [task EXCEPT ![x] = [@ EXCEPT !.at = "supersede", !.to = b, !.read = roster[b]]]
    /\ UNCHANGED <<roster, reported, imported, pendingImports, queue, box, generations,
                   count, restored>>
Supersede(x) ==
    /\ task[x].at = "supersede"
    /\ queue' = [queue EXCEPT ![task[x].to] = <<>>]
    /\ task' = [task EXCEPT ![x].at = "enqueue"]
    /\ UNCHANGED <<roster, reported, imported, pendingImports, box, generations, count, restored>>
Payload(x) == [gen |-> task[x].read.gen, n |-> task[x].read.n, set |-> task[x].read.set]
EnqueueSync(x) ==
    /\ task[x].at = "enqueue"
    /\ queue' = [queue EXCEPT ![task[x].to] = Append(@, Payload(x))]
    /\ task' = [task EXCEPT ![x].at = "stamp"]
    /\ UNCHANGED <<roster, reported, imported, pendingImports, box, generations, count, restored>>
Stamp(x) ==
    /\ task[x].at = "stamp"
    /\ roster' = [roster EXCEPT ![task[x].to].last = Epoch(task[x].read)]
    /\ task' = Delivered(x, task[x].to)
    /\ UNCHANGED <<reported, imported, pendingImports, queue, box, generations, count, restored>>
-----------------------------------------------------------------------------
(* The reports of a box.                                                   *)

\* _store_report_sync: the report is kept, and what was copied for its packs
\* is applied, to the roster if it holds them.
Copied(b) == {p \in Packs : <<b, p>> \in pendingImports /\ box[b].set[p] # "none"}
Report(b) ==
    /\ \A c \in Boards : task[c] = NoTask
    /\ reported' = [reported EXCEPT ![b] = [NoRoster EXCEPT !.gen = box[b].gen, !.n = box[b].n,
                                                           !.set = box[b].set]]
    /\ LET set == [p \in Packs |-> IF p \in Copied(b) /\ roster[b].set[p] # "none" THEN "own"
                                   ELSE roster[b].set[p]]
       IN  roster' = IF set = roster[b].set THEN roster
                     ELSE [roster EXCEPT ![b] = [@ EXCEPT !.set = set, !.n = roster[b].n + 1]]
    /\ imported' = imported \cup {p \in Copied(b) : roster[b].set[p] = "none"}
    /\ pendingImports' = pendingImports \ (Boards \X Copied(b))
    /\ task' = [task EXCEPT ![b] = [NoTask EXCEPT !.at = "look", !.read = reported'[b]]]
    /\ UNCHANGED <<queue, box, generations, count, restored>>

\* async_converge: a box ahead of its roster (Home Assistant went backwards) is
\* sent a new generation.
Equal(r, b) == Epoch(r) = Epoch(roster[b])
NeverAhead(r, b) == FALSE  \* mutant
Ahead(r, b) == r.gen = roster[b].gen /\ r.n > roster[b].n
Compare(b) ==
    /\ task[b].at = "look"
    /\ task' = [task EXCEPT ![b] =
          IF ~Managed(b) \/ Equal(task[b].read, b) THEN NoTask
          ELSE [NoTask EXCEPT !.at = IF Ahead(task[b].read, b) THEN "regenerate" ELSE "read",
                            !.todo = {b}]]
    /\ UNCHANGED <<roster, reported, imported, pendingImports, queue, box, generations,
                   count, restored>>
Regenerate(b) ==
    /\ task[b].at = "regenerate"
    /\ generations' = generations + 1
    /\ roster' = [roster EXCEPT ![b] = [@ EXCEPT !.gen = generations', !.n = 1]]
    /\ task' = [task EXCEPT ![b] = [@ EXCEPT !.at = "read", !.force = TRUE]]
    /\ UNCHANGED <<reported, imported, pendingImports, queue, box, count, restored>>

-----------------------------------------------------------------------------
(* The box.                                                                *)

\* The box takes a set of another generation, or of no lower n.
Takes(b, c) == c.gen # box[b].gen \/ c.n >= box[b].n
TakeSet(b) ==
    /\ queue[b] # <<>>
    /\ queue' = [queue EXCEPT ![b] = Tail(@)]
    /\ box' = IF Takes(b, Head(queue[b])) THEN [box EXCEPT ![b] = Head(queue[b])] ELSE box
    /\ UNCHANGED <<roster, reported, imported, pendingImports, task, generations, count, restored>>
Lose(b) ==
    /\ queue[b] # <<>>
    /\ Spend("losses", MaxLosses)
    /\ queue' = [queue EXCEPT ![b] = Tail(@)]
    /\ UNCHANGED <<roster, reported, imported, pendingImports, box, task, generations, restored>>

-----------------------------------------------------------------------------
RosterNext ==
    \/ \E v \in Views : Submit(v) \/ Change(v)
    \/ \E x \in Boards \cup Views : \/ \E b \in Boards, recent \in BOOLEAN : ReadRoster(x, b, recent)
                                    \/ Supersede(x) \/ EnqueueSync(x) \/ Stamp(x)
    \/ \E b \in Boards : \/ Report(b) \/ Compare(b) \/ Regenerate(b)
                         \/ TakeSet(b) \/ Lose(b)
RosterSpec == RosterInit /\ [][RosterNext]_rosterVars

\* A box that is on keeps polling its commands and reporting, and Home
\* Assistant finishes what it does; the owner may do nothing.
RosterFair ==
    /\ \A b \in Boards : /\ SF_rosterVars(Report(b)) /\ SF_rosterVars(TakeSet(b))
                        /\ WF_rosterVars(Compare(b)) /\ WF_rosterVars(Regenerate(b))
                        /\ SF_rosterVars(ReadRoster(b, b, FALSE))
    /\ \A x \in Boards \cup Views :
          /\ WF_rosterVars(\E b \in Boards, recent \in BOOLEAN : ReadRoster(x, b, recent))
          /\ WF_rosterVars(Supersede(x)) /\ WF_rosterVars(EnqueueSync(x))
          /\ WF_rosterVars(Stamp(x))
    /\ \A v \in Views : WF_rosterVars(Change(v))

-----------------------------------------------------------------------------
(* Properties.                                                             *)

Entries == [gen : Nat, n : Nat, set : Sets]
RosterTypeOK ==
    /\ \A b \in Boards : {roster[b], reported[b]} \subseteq
          [gen : Nat, n : Nat, set : Sets, last : Nat \X Nat]
    /\ imported \subseteq Packs
    /\ pendingImports \subseteq Boards \X Packs
    /\ \A b \in Boards : box[b] \in Entries /\ queue[b] \in Seq(Entries)
    /\ \A x \in Boards \cup Views :
          task[x].at \in {"idle", "change", "look", "regenerate", "read", "supersede", "enqueue",
                         "stamp"}
    /\ count.changes <= MaxChanges /\ count.losses <= MaxLosses

\* bms_sync carries an epoch so that a box whose report names the roster's
\* needs nothing more (async_converge, "equal"): with no backup restored, two
\* sets never share an epoch, whatever deliveries overlap.
SameEpochSameSet ==
    restored = {} =>
       \A b \in Boards : (Managed(b) /\ Epoch(box[b]) = Epoch(roster[b]))
                           => box[b].set = roster[b].set

\* The reports re-drive a box behind its roster, and a box ahead of it after a
\* restore is sent a new generation: each managed box comes to hold the epoch
\* Home Assistant keeps for it, lost commands and overtaken deliveries
\* notwithstanding.
EpochsMeet ==
    RosterFair =>
       \A b \in Boards : <>[](~Managed(b) \/ Epoch(box[b]) = Epoch(roster[b]))

\* Said of the code and not so: "At most one is pending per box; a newer set
\* supersedes a pending one" (bms_roster.py).
AtMostOnePending == \A b \in Boards : Len(queue[b]) <= 1
\* A pack is refused when another box reads it (PACK_READ_BY_OTHER_BOARD).
ReadByOneBox ==
    restored = {} =>
       \A p \in Packs, b, c \in Boards :
          (Managed(b) /\ Managed(c) /\ roster[b].set[p] # "none" /\ roster[c].set[p] # "none")
             => b = c
=============================================================================
