-------------------------------- MODULE Rollups --------------------------------
(***************************************************************************)
(* What becomes of a reading in the house (reading_store.py, rollup.py):   *)
(* raw rows are summed into hours and days, and pruned; daily rows are     *)
(* keyed by the household's own day (local_time.py) and re-keyed when its  *)
(* timezone changes; and the charts, the history and the settlement        *)
(* (http_views.py, hourly_energy.py) read what there is.                   *)
(*                                                                         *)
(* Time is counted in half hours, so that an hour may be cut, and a day    *)
(* has DayHours hours.  A reading is its instant, and an aggregate is the  *)
(* set of readings it was made of.  The tick of __init__.py runs once an   *)
(* hour, and its calls each take a thread: readings arrive in between, the *)
(* user may change the timezone, and a failed call ends the tick.          *)
(***************************************************************************)
EXTENDS Integers, FiniteSetsExt

CONSTANTS
    DayHours,         \* hours of a day
    RawRetention,     \* RAW_RETENTION_S, in half hours
    HourlyRetention,  \* HOURLY_RETENTION_S, in half hours
    Zones,            \* timezones: offsets in half hours, the second one from an instant on
    UtcZone,          \* the one that is UTC
    InverterZone,     \* the one the inverter's own clock keeps
    MaxTime,          \* bound: half hours that pass
    MaxGaps,          \* bound: readings not taken
    MaxMoves,         \* bound: changes of the timezone
    MaxMisses         \* bound: ticks that fail or that do not run

Offsets(z) == {z.offset, z.later}

ASSUME RollupAssumption ==
    /\ {DayHours, RawRetention, HourlyRetention} \subseteq Nat \ {0}
    /\ RawRetention > 2 * DayHours /\ HourlyRetention > RawRetention
    /\ {MaxTime, MaxGaps, MaxMoves, MaxMisses} \subseteq Nat
    /\ {UtcZone, InverterZone} \subseteq Zones /\ UtcZone.offset = 0 /\ UtcZone.later = 0
    \* A zone is a day off at most, and no change of a clock or of the zone
    \* makes what is beyond its retention a reading of today.
    /\ \A z \in Zones : Offsets(z) \subseteq -(2 * DayHours)..(2 * DayHours) /\ z.from \in Int
    /\ \A z \in Zones : \A o, p \in Offsets(z) :
           o - p < 2 * DayHours /\ o - p <= RawRetention - 2 * DayHours
    /\ \A y, z \in Zones : \A o \in Offsets(y), p \in Offsets(z) :
           o - p <= HourlyRetention + 1 - 2 * DayHours

VARIABLES
    clock,   \* half hours since the first reading
    raw,     \* readings_raw: the instants there is a row of
    hourly,  \* readings_hourly: the readings each hour was made of
    daily,   \* readings_daily: the readings each day was made of
    marker,  \* meta: the timezone readings_daily is keyed to ("UTC" if unset)
    zone,    \* hass.config.time_zone
    tick,    \* the roll-up tick: what it does next, and its now_iso
    parity,  \* external: at which half hours the ticks fall
    slack    \* gaps, moves and misses so far

rollupVars == <<clock, raw, hourly, daily, marker, zone, tick, parity, slack>>

Times == 0..MaxTime
Hours == 0..(MaxTime \div 2)

HourOf(t) == t \div 2
Offset(t, z) == IF t >= z.from THEN z.later ELSE z.offset
DayOf(t, z) == (t + Offset(t, z)) \div (2 * DayHours)
Days == {DayOf(t, z) : t \in Times, z \in Zones}
\* A local day is what lies between its midnight and the next one.
Midnight(d, z) ==
    Min({t \in (2 * DayHours * (d - 1))..(2 * DayHours * (d + 1)) : DayOf(t, z) = d})
HourDay(h, z) == DayOf(2 * h, z)

RollupTypeOK ==
    /\ clock \in Times /\ raw \subseteq Times
    /\ DOMAIN hourly \subseteq Hours /\ \A h \in DOMAIN hourly : hourly[h] \subseteq Times
    /\ DOMAIN daily \subseteq Days /\ \A d \in DOMAIN daily : daily[d] \subseteq Times
    /\ marker \in Zones /\ zone \in Zones
    /\ tick \in [at: {"idle", "due", "rebuild", "marker", "rollup", "prune"}, now: Times,
               zone: Zones]
    /\ parity \in 0..1
    /\ slack \in [gaps: 0..MaxGaps, moves: 0..MaxMoves, misses: 0..MaxMisses]

\* The rows of `new` over those of `old`: TLC's @@, defined for the proofs.
Over(new, old) ==
    [k \in DOMAIN new \cup DOMAIN old |-> IF k \in DOMAIN new THEN new[k] ELSE old[k]]

Idle == [at |-> "idle", now |-> 0, zone |-> UtcZone]

RollupInit ==
    /\ clock = 0 /\ raw = {} /\ hourly = <<>> /\ daily = <<>>
    /\ zone \in Zones /\ marker = UtcZone
    /\ tick = Idle /\ parity \in 0..1
    /\ slack = [gaps |-> 0, moves |-> 0, misses |-> 0]
--------------------------------------------------------------------------------
\* A reading is appended, also by a box that sends it half an hour late.
StoreReading ==
    /\ \E t \in {clock - 1, clock} \cap (Times \ raw) : raw' = raw \cup {t}
    /\ UNCHANGED <<clock, hourly, daily, marker, zone, tick, parity, slack>>

\* Half an hour passes.  A tick takes less.
Passes ==
    /\ tick.at = "idle" /\ clock < MaxTime
    /\ clock' = clock + 1
    /\ tick' = [Idle EXCEPT !.at = IF (clock' + parity) % 2 = 0 THEN "due" ELSE "idle"]
    /\ clock \notin raw => slack.gaps < MaxGaps
    /\ slack' = IF clock \in raw THEN slack ELSE [slack EXCEPT !.gaps = @ + 1]
    /\ UNCHANGED <<raw, hourly, daily, marker, zone, parity>>

\* The user sets Home Assistant's timezone.
Moves ==
    /\ slack.moves < MaxMoves
    /\ \E z \in Zones \ {zone} : zone' = z
    /\ slack' = [slack EXCEPT !.moves = @ + 1]
    /\ UNCHANGED <<clock, raw, hourly, daily, marker, tick, parity>>

\* A call of the tick fails, the process ends, or the tick does not run.
Misses ==
    /\ tick.at # "idle" /\ slack.misses < MaxMisses
    /\ tick' = Idle
    /\ slack' = [slack EXCEPT !.misses = @ + 1]
    /\ UNCHANGED <<clock, raw, hourly, daily, marker, zone, parity>>

\* _rollup_tick reads the clock once.
TickStarts ==
    /\ tick.at = "due"
    /\ tick' = [tick EXCEPT !.at = "rebuild", !.now = clock]
    /\ UNCHANGED <<clock, raw, hourly, daily, marker, zone, parity, slack>>

\* merge_hourly: what the hours of a local day were made of.
Merged(hours, d, z) == UNION {hours[h] : h \in {g \in DOMAIN hours : HourDay(g, z) = d}}

\* The local days before today of which there is an hour.
CompletedDays(hours, z, now) ==
    {d \in {HourDay(h, z) : h \in DOMAIN hours} : d < DayOf(now, z)}

\* mutant: the first day the hourly rows cover at all
BoundaryDay(z) == HourDay(Min(DOMAIN hourly), z)

\* The first local day the hourly rows cover from its very first hour.
FirstWholeDay(z) ==
    LET earliest == Min(DOMAIN hourly)
        boundary == HourDay(earliest, z)
    IN  IF 2 * earliest <= Midnight(boundary, z) THEN boundary ELSE boundary + 1

\* _rebuild_daily_local_sync, up to its commit: once for a timezone, the rows
\* from the first whole day up to today go, and the hours say what they are.
Rebuild ==
    LET again == {d \in CompletedDays(hourly, zone, tick.now) : d >= FirstWholeDay(zone)}
        gone == {d \in DOMAIN daily : FirstWholeDay(zone) <= d /\ d < DayOf(tick.now, zone)}
    IN  /\ tick.at = "rebuild"
        /\ IF marker = zone
           THEN tick' = [tick EXCEPT !.at = "rollup"] /\ UNCHANGED daily
           ELSE /\ tick' = [tick EXCEPT !.at = "marker", !.zone = zone]
                /\ daily' = IF hourly = <<>> \/ again = {} THEN daily
                            ELSE Over([d \in again |-> Merged(hourly, d, zone)],
                                      [d \in DOMAIN daily \ gone |-> daily[d]])
        /\ UNCHANGED <<clock, raw, hourly, marker, zone, parity, slack>>

\* ... and then the marker, in a transaction of its own.
SetMarker ==
    /\ tick.at = "marker"
    /\ marker' = tick.zone
    /\ tick' = [tick EXCEPT !.at = "rollup"]
    /\ UNCHANGED <<clock, raw, hourly, daily, zone, parity, slack>>

\* _rollup_sync: every hour that is over is summed from the raw rows there
\* still are, and every day that is over from its hours.
Rollup ==
    LET over == {h \in {HourOf(t) : t \in raw} : h < HourOf(tick.now)}
        hours == Over([h \in over |-> {t \in raw : HourOf(t) = h}], hourly)
    IN  /\ tick.at = "rollup"
        /\ hourly' = hours
        /\ daily' = Over([d \in CompletedDays(hours, zone, tick.now) |-> Merged(hours, d, zone)],
                         daily)
        /\ tick' = [tick EXCEPT !.at = "prune"]
        /\ UNCHANGED <<clock, raw, marker, zone, parity, slack>>

\* _prune_sync: raw rows and hours beyond their retention; days are kept.
PruneTables ==
    /\ tick.at = "prune"
    /\ raw' = {t \in raw : t >= tick.now - RawRetention}
    /\ hourly' = [h \in {g \in DOMAIN hourly : 2 * g >= tick.now - HourlyRetention} |-> hourly[h]]
    /\ tick' = Idle
    /\ UNCHANGED <<clock, daily, marker, zone, parity, slack>>

RollupNext ==
    \/ StoreReading \/ Passes \/ Moves \/ Misses
    \/ TickStarts \/ Rebuild \/ SetMarker \/ Rollup \/ PruneTables

--------------------------------------------------------------------------------
\* What the app is served, from the rows that are there.
Today == DayOf(clock, zone)

\* hourly_range_live and five_min_range_live: a day's chart, from raw rows.
DayChart(d, z) == {t \in raw : DayOf(t, z) = d}

\* today_summary: today's row if it is there, or the raw rows.
TodaySummary == IF Today \in DOMAIN daily THEN daily[Today] ELSE DayChart(Today, zone)

\* history_range_live: the rows of the days before today, and today's raw rows.
History ==
    Over([d \in {e \in DOMAIN daily : e < Today} |-> daily[d]],
         [d \in {Today} |-> DayChart(d, zone)])

\* month_hourly_range_live: the hours before today, and today's from raw rows.
\* Where midnight cuts an hour both are listed, and to_local_hour_rows takes
\* the second.
MonthHours ==
    LET today == DayChart(Today, zone)
    IN  Over([h \in {HourOf(t) : t \in today} |-> {t \in today : HourOf(t) = h}],
             [h \in {g \in DOMAIN hourly : 2 * g < Midnight(Today, zone)} |-> hourly[h]])

\* The import counter a reading carries: the half hours since the inverter's
\* midnight, as if each had brought one kWh.
Counter(t) == 1 + ((t + Offset(t, InverterZone)) % (2 * DayHours))

\* aggregate: a counter's value in an hour is the highest one.
Cumulated(readings) == Max({Counter(t) : t \in readings})

\* to_local_hour_rows: the value of each local hour; of two hours that are
\* one on the local clock, the later one's.
LocalHour(h, z) == (2 * h + Offset(2 * h, z)) \div 2
LocalRows(hours) ==
    {[hour |-> LocalHour(h, zone), sum |-> Cumulated(hours[h])] :
        h \in {g \in DOMAIN hours : \A f \in DOMAIN hours :
                   f > g => LocalHour(f, zone) # LocalHour(g, zone)}}

\* per_hour_deltas: what an hour adds to the hour before it in its day, and
\* all it counts if there is none or the counter has started again.
HourDelta(rows, row) ==
    LET before == {r \in rows : r.hour < row.hour /\ r.hour \div DayHours = row.hour \div DayHours}
        last == CHOOSE r \in before : \A q \in before : q.hour <= r.hour
    IN  IF before = {} \/ last.sum > row.sum THEN row.sum ELSE row.sum - last.sum

\* settlement-input: what a local day is settled at.
SettledHours(rows, d) ==
    MapThenSumSet(LAMBDA r : HourDelta(rows, r), {r \in rows : r.hour \div DayHours = d})
SettledDays(rows) == {r.hour \div DayHours : r \in rows}
--------------------------------------------------------------------------------
\* Every reading some answer is made of.
ShownHistory ==
    LET days == History
        hours == MonthHours
    IN  (UNION {DayChart(d, zone) : d \in Days}) \cup TodaySummary
        \cup (UNION {days[d] : d \in DOMAIN days})
        \cup (UNION {hours[h] : h \in DOMAIN hours})

\* What the rows that are cleared hold of the time before the first whole day
\* in the new timezone.
Seam ==
    IF hourly = <<>> THEN {}
    ELSE {t \in UNION {daily[d] : d \in {e \in DOMAIN daily : FirstWholeDay(zone) <= e}} :
             HourDay(HourOf(t), zone) < FirstWholeDay(zone)}

\* The early part of an hour whose later part stays, and the early part of a
\* day's: a row is summed again after some of what it was made of was pruned.
Cut(rows) ==
    {t \in Times : /\ HourOf(t) \in DOMAIN rows
                   /\ t \notin rows[HourOf(t)] /\ \E u \in rows[HourOf(t)] : u > t}
Frayed(rows, newRows) ==
    UNION {{t \in rows[k] \ raw : \E u \in newRows[k] : u > t} : k \in DOMAIN rows}

\* No clock is set back over midnight.
ClocksKeepDays == \A z \in Zones : \A s, t \in Times : s <= t => DayOf(s, z) <= DayOf(t, z)

\* A new timezone's rebuild clears "only the span the hourly table can FULLY
\* re-derive", and "anything the rebuild cannot reproduce survives untouched"
\* (reading_store.py:458-461), but for the hours at the seam and for what an
\* hour had lost already.
RebuildKeepsHistory == Rebuild => ShownHistory \ ShownHistory' \subseteq Seam \cup Cut(hourly)

\* A roll-up sums a cut hour or day again, keeps its later part, and loses no
\* other reading.
RollupKeepsHistory ==
    Rollup => ShownHistory \ ShownHistory' \subseteq Cut(hourly') \cup Frayed(daily, daily')

\* Every tick sums before it prunes, so what the prune takes is in an hour or a
\* day that is shown, also when readings come or the user moves in between.
PruneKeepsHistory == PruneTables => ShownHistory \subseteq ShownHistory'

\* No upkeep takes a reading out of every answer, but where a row has lost a
\* part of what it was made of.  And a day that is over stays settled at no
\* less, and at a value of the inverter's own counter (hourly_energy.py:1-22).
HistoryKept ==
    [][/\ RebuildKeepsHistory /\ RollupKeepsHistory /\ PruneKeepsHistory
       /\ (Rollup \/ PruneTables) /\ zone = InverterZone
            => \A was \in {LocalRows(MonthHours)}, is \in {LocalRows(MonthHours')} :
                   \A d \in SettledDays(was) \cap SettledDays(is) :
                       d < Today => /\ SettledHours(is, d) >= SettledHours(was, d)
                                    /\ SettledHours(is, d) \in {r.sum : r \in is}]_rollupVars
=============================================================================
