--------------------------- MODULE ReadingValidation ---------------------------
(***************************************************************************)
(* What edge_reading_pipeline.process makes of a box's reading before it   *)
(* is stored: it coerces, undoes the inverter's conventions, checks each   *)
(* field against the ratings, the others and the reading stored before,    *)
(* and refuses a frame that no house could have produced.                  *)
(*                                                                         *)
(* A frame is a record of registers: powers in W, pack voltage in 0.1 V,   *)
(* pack current in 0.1 A, other voltages in V, counters in 0.1 kWh.  Two   *)
(* strings exist and a third register is read.  The debounce of the grid   *)
(* and the confirmations of the box are EdgeIngest's.                      *)
(***************************************************************************)
EXTENDS Integers, Sequences, FiniteSets, FiniteSetsExt, SequencesExt

CONSTANTS
    Inverters,   \* contexts, see Context
    Charges      \* bound: percent charge of the pack

\* An InverterContext: what of the model table and of the owner's settings
\* the pipeline looks at.  (Its battery_corrupt_guard_enabled is never set.)
Context == [rated : Nat, gridMax : Nat, hv : BOOLEAN, battery : BOOLEAN,
            exportOnly : BOOLEAN, pi30 : BOOLEAN, solarman : BOOLEAN, inverted : BOOLEAN,
            gridScale : Nat, phases : 1..3]

ASSUME ValidationAssumption ==
    /\ Inverters \subseteq Context
    /\ Charges \subseteq 20..100

VARIABLES
    ctx,       \* the inverter
    charge,    \* of its pack, in truth
    kept,      \* of the newest stored reading, what the next is compared with
    verdict    \* the newest reading and what became of it

validationVars == <<ctx, charge, kept, verdict>>

Absent == 1000000  \* a field the frame does not have
Has(x) == x # Absent
Above(x) == IF Has(x) /\ x > 0 THEN x ELSE 0
Below(x) == IF Has(x) /\ x < 0 THEN -x ELSE 0
Size(x) == IF x < 0 THEN -x ELSE x
Powers == {"pv", "grid", "load", "bat"}

-----------------------------------------------------------------------------
(* Before the validation.                                                  *)

\* InverterReadingSchema: refuses, or coerces.
MeetsSchema(r) ==
    /\ Has(r.soc) => r.soc \in 0..100
    /\ \A f \in {"volt", "s1", "s2", "s3", "gridV", "genV", "dpv", "imp", "exp"} : r[f] >= 0
Coerced(r) == [r EXCEPT !.pv = Above(@), !.load = IF Has(@) THEN Above(@) ELSE @]

\* The owner's battery_sign_inverted and the hook of the Solarman integration
\* both flip the battery: together, not at all.
Flipped(r) == [r EXCEPT !.bat = -@, !.cur = -@]
Oriented(r) == IF ctx.solarman # ctx.inverted THEN Flipped(r) ELSE r

Scaled(r) ==
    [r EXCEPT !.grid = IF Has(@) THEN @ * ctx.gridScale ELSE @,
              !.watts = [i \in DOMAIN @ |-> @[i] * ctx.gridScale]]

\* An inverter that only exports has no grid meter: its PV goes to the grid.
ExportFilled(r) ==
    IF ctx.exportOnly /\ ~Has(r.grid) /\ r.pv > 50
    THEN [r EXCEPT !.grid = -r.pv, !.load = 0, !.exp = r.dpv, !.imp = 0]
    ELSE r

\* pi30GridPower: in line mode the grid carries the load, what the pack takes
\* beyond its PV share, and the inverter's own 40 W.
Pi30Filled(r) ==
    LET charging == Above((r.volt * r.cur) \div 100)
        share == IF r.mains THEN Above(charging - r.pvCharge) ELSE 0
    IN  CASE ~ctx.pi30 \/ Has(r.grid) -> r
          [] r.mode = "B" -> [r EXCEPT !.grid = 0]
          [] r.mode = "L" /\ Has(r.load) -> [r EXCEPT !.grid = r.load + 40 + (20 * share + 9) \div 18]
          [] OTHER -> r

Normalized(r) == Pi30Filled(ExportFilled(Scaled(Oriented(Coerced(r)))))

-----------------------------------------------------------------------------
(* _validate_reading: stages that each take the verdict so far, the frame  *)
(* d as it came to the validation in hand.                                 *)

\* The sanitized frame, the fields corrected, whether a warning was given,
\* whether a source was stripped, so that the sources do not add up.
Judged(s, fixed, warned, open) == [s |-> s, fixed |-> fixed, warned |-> warned, open |-> open]
Unjudged(d) == Judged(d, {}, FALSE, FALSE)
Put(v, f, x) == Judged([v.s EXCEPT ![f] = x], v.fixed \cup {f}, TRUE, v.open)
Fail(v, why) == Judged(v.s, v.fixed \cup {why}, TRUE, v.open)
PutAll(v, fields, x) ==
    IF fields = {} THEN v
    ELSE Judged([f \in DOMAIN v.s |-> IF f \in fields THEN x ELSE v.s[f]],
                 v.fixed \cup fields, TRUE, v.open)

LimitsFromRated ==
    [pv |-> ctx.rated * 2, grid |-> ctx.gridMax, load |-> (ctx.rated * 3) \div 2,
     bat |-> (ctx.rated * 12) \div 10, gen |-> (ctx.rated * 3) \div 2,
     dpv |-> ctx.rated \div 10]

\* Categories 1 and 2: signs; codes a register answers instead of a value.
Signs(v, d) ==
    LET negative == {f \in {"pv", "load", "soc", "volt"} : d[f] < 0}
        capped == IF Has(d.soc) /\ d.soc > 100 THEN Put(v, "soc", 100) ELSE v
    IN  PutAll(capped, negative, 0)
IsErrorCode(x) == Has(x) /\ Size(x) \in {65535, 32767, 32768}
ErrorCodes(v, d) ==
    LET codes == {f \in Powers : IsErrorCode(d[f])}
        cleared == PutAll(v, codes, 0)
    IN  IF Cardinality(codes \cup (v.fixed \cap Powers)) >= 3
        THEN Fail(cleared, "communicationFailure") ELSE cleared

\* PV: a total and strings beyond the rating, a third string of no more than
\* noise, a third string where there are two, a total below its strings.
PvLimits(v, d) ==
    LET over == {f \in {"pv", "s1", "s2", "s3"} : d[f] > LimitsFromRated.pv}
        w == PutAll(v, over, 0)
    IN  IF w.s.s3 > 0 /\ w.s.s3 < 50
        THEN Judged([w.s EXCEPT !.s3 = 0], w.fixed \cup {"s3"}, w.warned, w.open) ELSE w
StringSum(s) == s.s1 + s.s2 + s.s3
Phantom(v) ==
    LET sum == StringSum(v.s)
        without == Put(v, "s3", 0)
        summed == 20 * Size(v.s.pv - sum) <= Max({1000, sum})
    IN  IF v.s.s3 = 0 THEN v
        ELSE IF summed THEN Put(without, "pv", Above(v.s.pv - v.s.s3)) ELSE without
BelowStrings(v) ==
    LET sum == StringSum(v.s)
        deficit == sum - v.s.pv
        several == Cardinality({f \in {"s1", "s2", "s3"} : v.s[f] > 0}) >= 2
    IN  IF several /\ deficit > 500 /\ 20 * deficit > 3 * sum THEN Put(v, "pv", sum) ELSE v

PowerLimits(v, d) ==
    LET over(f) == Has(d[f]) /\ Size(d[f]) > LimitsFromRated[f]
        wild == {f \in {"grid", "bat"} : over(f)}
        w == PutAll(v, wild, 0)
    IN  IF over("load") THEN Put(w, "load", Absent) ELSE w

\* The generator: a power above 32767 W decoded as negative is recovered when
\* the frame lacks about as much, and otherwise stripped; a port with no
\* plausible voltage delivers nothing.
SinkDeficit(s) ==
    Above(s.load) + Above(s.bat) + Below(s.grid) - (s.pv + Below(s.bat) + Above(s.grid))
Unwrapped(v, d) ==
    LET power == d.gen + 65536 IN
    IF /\ d.gen >= -32768
       /\ power <= LimitsFromRated.gen
       /\ 4 * Size(power - SinkDeficit(v.s)) <= Max({4000, power})
    THEN power ELSE Absent
StrippedIsNothing(v, d) ==  \* mutant
    IF d.gen >= 0 THEN v ELSE Put(v, "gen", Unwrapped(v, d))
Generator(v, d) ==
    IF d.gen >= 0 THEN v
    ELSE [Put(v, "gen", Unwrapped(v, d)) EXCEPT !.open = ~Has(Unwrapped(v, d))]
Energised(v) ==
    IF v.s.gen # 0 /\ Has(v.s.gen) /\ v.s.genV \notin 80..300
    THEN PutAll(v, {"gen", "genV"}, 0) ELSE v

SecondPack(v) ==
    IF Has(v.s.bat2) /\ (IsErrorCode(v.s.bat2) \/ Size(v.s.bat2) > LimitsFromRated.bat)
    THEN Put(v, "bat2", Absent) ELSE v
Voltages(v, d) ==
    LET w == IF d.volt > (IF ctx.hv THEN 10000 ELSE 700) THEN Put(v, "volt", 0) ELSE v IN
    IF d.gridV > 500 \/ d.gridV \in 1..49 THEN Put(w, "gridV", 0) ELSE w

\* The phases: all of them misaligned; one far below the others; currents
\* without a voltage, powers that contradict the total, currents too high.
Misaligned(v) ==
    IF v.s.grid # 0 /\ \E i \in DOMAIN v.s.volts : v.s.volts[i] \in 1..49
    THEN Put([v EXCEPT !.s.gridV = 0], "volts", [i \in DOMAIN v.s.volts |-> 0])
    ELSE v
Outlier(v) ==
    LET top == Max(ToSet(v.s.volts))
        low(x) == 4 * x < 3 * top
        healthy == SortSeq(SelectSeq(v.s.volts, LAMBDA x : ~low(x)), LAMBDA x, y : x < y)
        n == Len(healthy)
        median == (healthy[(n + 1) \div 2] + healthy[(n + 2) \div 2]) \div 2
        repaired == [i \in DOMAIN v.s.volts |->
                        IF v.s.volts[i] > 0 /\ low(v.s.volts[i]) THEN median ELSE v.s.volts[i]]
        w == Put(v, "volts", repaired)
    IN  IF Len(v.s.volts) < 2 \/ top < 180 \/ repaired = v.s.volts THEN v
        ELSE IF low(v.s.gridV) THEN Put(w, "gridV", median) ELSE w
Unpowered(v) ==
    IF v.s.amps # <<>> /\ v.s.gridV <= 50 /\ ~\E i \in DOMAIN v.s.volts : v.s.volts[i] > 50
    THEN Put(v, "amps", <<>>) ELSE v
Contradicted(v) ==
    LET total == IF Has(v.s.grid) THEN v.s.grid ELSE 0
        sum == FoldSeq(+, 0, v.s.watts)
        dropped == {f \in {"watts", "amps"} : v.s[f] # <<>>}
    IN  IF Len(v.s.watts) >= 2 /\ Size(sum - total) > Max({200, Size(total)})
        THEN PutAll(v, dropped, <<>>) ELSE v
TooManyAmps(v) ==
    LET phases == IF v.s.volts = <<>> THEN 1 ELSE Len(v.s.volts) IN
    IF \E i \in DOMAIN v.s.amps : 400 * phases * Size(v.s.amps[i]) > 3 * ctx.rated
    THEN Put(v, "amps", <<>>) ELSE v
Phases(v) == TooManyAmps(Contradicted(Unpowered(Outlier(Misaligned(v)))))

\* The counters of the day: beyond a day's energy, watts in an energy's place,
\* import in the place of PV, more exported than was made.
CounterLimits(v, d) ==
    LET w == IF d.dpv > LimitsFromRated.dpv THEN Put(v, "dpv", Absent) ELSE v IN
    PutAll(w, {f \in {"imp", "exp", "dld"} : Has(d[f]) /\ d[f] > 5000}, 0)
Mirrors(v, d) ==
    LET load == v.s.load
        watts == Has(d.dld) /\ Has(load) /\ load >= 100 /\ 50 * Size(d.dld - 10 * load) < 10 * load
        w == IF watts THEN Put(v, "dld", Absent) ELSE v
        crossed == /\ Has(w.s.dpv) /\ w.s.dpv > 5 /\ w.s.pv < 50
                   /\ Size(w.s.dpv - w.s.imp) <= 1
        x == IF crossed THEN Put(w, "dpv", Absent) ELSE w
    IN  IF Has(x.s.dpv) /\ x.s.exp > x.s.dpv + 210 THEN Put(x, "exp", 0) ELSE x
Counters(v, d) == Mirrors(CounterLimits(v, d), d)

\* Energy balance, of a frame whose sources are all known: an export, a load or
\* a charge that nothing feeds.
Zeroed(v) == Fail([v EXCEPT !.s = [f \in DOMAIN @ |-> IF f \in Powers THEN 0 ELSE @[f]]],
                  "energyBalance")
Unfed(need, sources, most) == need > 200 /\ need - sources > Max({300, (most * need) \div 10})
Balance(v) ==
    LET s == v.s
        gen == IF Has(s.gen) THEN s.gen ELSE 0
        sources == s.pv + Below(s.bat) + Above(s.grid) + gen
        export == Below(s.grid)
        impossibleExport == s.pv < 50 /\ export > 500 /\ export > sources + 500
        impossibleLoad == export < 100 /\ Unfed(Above(s.load), sources, 6)
        w == IF (impossibleExport \/ impossibleLoad) /\ ~v.open THEN Zeroed(v) ELSE v
        impossibleCharge == Unfed(Above(w.s.bat), w.s.pv + Above(s.grid) + gen, 6)
    IN  IF v.open /\ (impossibleExport \/ impossibleLoad \/ impossibleCharge)
        THEN [v EXCEPT !.warned = TRUE]
        ELSE IF impossibleCharge THEN Zeroed(w) ELSE w

\* A read that failed: everything, or the pack's block, is zero; the voltage of
\* a low-voltage pack is below what its cells may have.
AllZero(s) == \A f \in Powers : s[f] = 0
DeadBlock(v, d) ==
    /\ ctx.battery
    /\ \/ Has(v.s.soc) /\ v.s.soc <= 1 /\ v.s.load = 0 /\ (AllZero(v.s) \/ v.s.volt = 0)
       \/ ~ctx.hv /\ d.volt > 0 /\ d.volt < 400
Failed(v, d) == IF DeadBlock(v, d) THEN Fail(v, "communicationFailure") ELSE v

\* Charge and voltage fell together against the reading stored before: the
\* whole block was multiplied by something.
FellTogether(d) ==
    /\ ctx.battery
    /\ kept.soc > 0 /\ kept.volt > 0
    /\ d.soc \in 1..(kept.soc - 1)
    /\ d.volt \in 1..(kept.volt - 1)
    /\ 10 * (kept.volt - d.volt) >= kept.volt
    /\ 10 * Size(d.volt * kept.soc - d.soc * kept.volt) <= kept.volt * kept.soc
Multiplied(v, d) == IF FellTogether(d) THEN Fail(v, "communicationFailure") ELSE v

\* Categories 5 and 6: power against a full or an empty pack is only warned
\* of; counters below zero are cleared.
Closing(v, d) ==
    LET odd == /\ Has(v.s.soc)
              /\ \/ v.s.soc >= 100 /\ v.s.bat > 500
                 \/ v.s.soc <= 0 /\ v.s.bat < -500
        w == IF odd THEN [v EXCEPT !.warned = TRUE] ELSE v
    IN  PutAll(w, {f \in {"dpv", "imp", "exp", "dld"} : d[f] < 0}, 0)

Validated(d) ==
    LET fields == Voltages(SecondPack(Energised(Generator(PowerLimits(BelowStrings(Phantom(
                      PvLimits(ErrorCodes(Signs(Unjudged(d), d), d), d))), d), d))), d)
    IN  Closing(Multiplied(Failed(Balance(Counters(Phases(fields), d)), d), d), d)

-----------------------------------------------------------------------------
(* What is stored.                                                         *)

\* gate_daily_grid_counter_by_power: a counter rises only while power flows.
Gated(new, old, flows) == IF Has(new) /\ ~flows /\ new > old THEN old ELSE new
Refused == [stored |-> FALSE]
Stored(v, d) ==
    LET store == IF v.warned THEN v.s ELSE d
        owned == IF ctx.battery THEN store
                 ELSE [store EXCEPT !.soc = Absent, !.volt = Absent, !.cur = Absent, !.bat = Absent]
        row == [owned EXCEPT
                   !.exp = Gated(@, kept.exp, Has(owned.grid) /\ owned.grid < -50),
                   !.imp = Gated(@, kept.imp, Has(owned.grid) /\ owned.grid > 50)]
    IN  [stored |-> TRUE, row |-> row]

\* process, of a frame with a usable clock or none.
Outcome(r) ==
    LET d == Normalized(r)
        v == Validated(d)
    IN  IF ~MeetsSchema(r) \/ ~r.clock THEN Refused
        ELSE IF v.fixed \cap {"energyBalance", "communicationFailure"} # {} THEN Refused
        ELSE Stored(v, d)

-----------------------------------------------------------------------------
(* The house, and what its inverter answers.                               *)

\* A unit of power that suits the inverter, and the voltages of the phases.
Unit == (ctx.rated \div 60) * 10
Triple(x) == [i \in 1..ctx.phases |-> x]

\* The truth of a scene: what is drawn is fed.
House(scene) ==
    LET load == IF scene = "genset" THEN 6 * Unit ELSE Unit
        bat == CASE ~ctx.battery -> 0 [] scene = "night" -> -Unit [] OTHER -> Unit
        sold == IF scene = "noon" /\ ~ctx.pi30 THEN 2 * Unit ELSE 0
        pv == IF scene = "noon" THEN load + bat + sold ELSE 0
        gen == IF scene = "genset" THEN load + bat ELSE 0
        grid == load + bat - pv - gen
        volt == IF ctx.hv THEN 4800 + 10 * charge ELSE 480 + charge
    IN  [pv |-> pv, s1 |-> pv - pv \div 2, s2 |-> pv \div 2, s3 |-> 0,
         grid |-> grid, load |-> load, bat |-> bat, cur |-> (bat * 100) \div volt,
         gen |-> gen, genV |-> IF gen > 0 THEN 230 ELSE 0, bat2 |-> Absent,
         soc |-> charge, volt |-> volt, gridV |-> 231, volts |-> Triple(230),
         amps |-> Triple(Size(grid) \div (ctx.phases * 230)),
         watts |-> Triple(grid \div ctx.phases),
         dpv |-> 100, imp |-> 30, exp |-> 50, dld |-> 120,
         mode |-> IF grid > 0 THEN "L" ELSE "B", mains |-> grid > 0 /\ bat > 0,
         pvCharge |-> 0, clock |-> TRUE]

\* The registers of it: signed words, the inverter's own conventions, fields
\* it does not have.
Signed(x) == IF x > 32767 THEN x - 65536 ELSE x
Registers(h) ==
    LET metered == ~ctx.exportOnly /\ ~ctx.pi30
        own == [h EXCEPT
            !.gen = Signed(@),
            !.grid = IF metered THEN @ \div ctx.gridScale ELSE Absent,
            !.watts = IF metered THEN Triple(@[1] \div ctx.gridScale) ELSE <<>>,
            !.load = IF ctx.exportOnly THEN Absent ELSE @,
            !.soc = IF ctx.battery THEN @ ELSE Absent,
            !.volt = IF ctx.battery THEN @ ELSE 0]
    IN  IF ctx.solarman # ctx.inverted THEN Flipped(own) ELSE own

\* What may go wrong with a read: one register answers with a code or with
\* another's value; the PV block is zero; the block is all codes, zero, or
\* halved; a third string answers; the clock is unset.
Junk(r) ==
    LET With(f, xs) == {[field |-> f, frame |-> [r EXCEPT ![f] = x]] : x \in xs} IN
    (UNION {With(f, {65535}) : f \in {"pv", "s1", "s2", "s3", "soc", "volt", "gridV", "dpv", "imp"}})
    \cup (UNION {With(f, {32767, -32768, 50001}) : f \in {"grid", "bat", "load"}})
    \cup With("gen", IF r.gen = 0 THEN {-1, 400} ELSE {-1}) \cup With("bat2", {32767})
    \cup With("exp", {65535, 400})
    \cup With("dld", {65535, 10 * r.load}) \cup With("amps", {[r.amps EXCEPT ![1] = 500]})
    \cup (IF r.pv = 0 THEN With("dpv", {r.imp}) ELSE {})
    \cup (IF Len(r.watts) < 2 THEN {}
          ELSE With("watts", {[r.watts EXCEPT ![1] = @ + 30000]})
               \cup With("volts", {[r.volts EXCEPT ![1] = x] : x \in {20, 130}}))
Numbers == {"pv", "s1", "s2", "s3", "grid", "load", "bat", "cur", "gen", "soc", "volt"}
Block(r, x, y) == [f \in DOMAIN r |-> IF f \in Numbers /\ Has(r[f]) THEN (r[f] * x) \div y ELSE r[f]]
Third(r, pv) == [r EXCEPT !.s3 = Unit, !.pv = pv]

Fault(kind, frame) == [kind |-> kind, field |-> "none", frame |-> frame]
Faults(r) ==
    {Fault("none", r), Fault("clock", [r EXCEPT !.clock = FALSE]),
     Fault("codes", [f \in DOMAIN r |-> IF f \in Powers THEN 32767 ELSE r[f]]),
     Fault("dark", [r EXCEPT !.pv = 0, !.s1 = 0, !.s2 = 0]),
     Fault("blank", Block(r, 0, 1)), Fault("halved", Block(r, 1, 2)),
     Fault("third", Third(r, r.pv)), Fault("third", Third(r, r.pv + Unit))}
    \cup {[kind |-> "junk", field |-> j.field, frame |-> j.frame] : j \in Junk(r)}

NothingKept == [soc |-> 0, volt |-> 0, imp |-> 0, exp |-> 0]
NoVerdict == [kind |-> "unread"]

ValidationInit ==
    /\ ctx \in Inverters
    /\ charge \in Charges
    /\ kept = NothingKept
    /\ verdict = NoVerdict

\* A reading arrives, as the inverter measured it or not.
OrNothing(x) == IF Has(x) THEN x ELSE 0
Judges ==
    /\ verdict = NoVerdict
    /\ \E scene \in IF ctx.battery THEN {"noon", "night", "mains", "genset"} ELSE {"noon", "night"} :
       LET truth == House(scene) IN
       \E fault \in Faults(Registers(truth)) :
       LET got == Outcome(fault.frame) IN
       /\ verdict' = [kind |-> fault.kind, field |-> fault.field,
                      read |-> fault.frame, truth |-> truth, before |-> kept, got |-> got]
       /\ kept' = IF ~got.stored THEN kept
                  ELSE [soc |-> OrNothing(got.row.soc), volt |-> OrNothing(got.row.volt),
                        imp |-> got.row.imp, exp |-> got.row.exp]
    /\ UNCHANGED <<ctx, charge>>

\* Time passes until the next, readings that do not arrive included.
Passes ==
    /\ verdict # NoVerdict
    /\ verdict' = NoVerdict
    /\ charge' \in Charges
    /\ UNCHANGED <<ctx, kept>>

ValidationNext == Judges \/ Passes

-----------------------------------------------------------------------------
ValidationTypeOK ==
    /\ ctx \in Inverters
    /\ charge \in Charges
    /\ kept \in [soc : 0..100, volt : Nat, imp : Nat, exp : Nat]
    /\ verdict.kind \in {"unread", "none", "clock", "codes", "dark", "blank", "halved", "third",
                        "junk"}

\* What the inverter measures itself.
Measured(truth) ==
    DOMAIN truth \ ({"cur", "imp", "exp", "mode", "mains", "pvCharge", "clock"}
                    \cup (IF ctx.exportOnly THEN {"grid", "load", "bat", "soc", "volt", "watts"} ELSE {})
                    \cup (IF ctx.pi30 THEN {"grid", "watts"} ELSE {}))
Differs(row, truth) == {f \in Measured(truth) : row[f] # truth[f]}

\* What junk in a field may cost: the field, what is measured along with it,
\* the phases that must add up to it, a wrapped generator it no longer
\* explains; but a PV total is found again in its strings.
Costs(field) ==
    CASE field = "volts" -> {"volts", "gridV", "amps"}
      [] field = "watts" -> {"watts", "amps"}
      [] field = "grid" -> {"grid", "watts", "amps"}
      [] field = "load" -> {"load", "gen"}
      [] field = "pv" -> {}
      [] OTHER -> {field}

\* An upright frame is stored as measured, whatever was stored before it and
\* however long ago, a grid power that is inferred within a fifth; a third
\* string costs nothing, but where the grid power is filled in from the PV
\* before the validation sees it.
UprightIsStored(v) ==
    v.kind \in (IF ctx.exportOnly THEN {"none"} ELSE {"none", "third"}) =>
        /\ v.got.stored
        /\ Differs(v.got.row, v.truth) = {}
        /\ ctx.exportOnly /\ v.truth.pv > 0 => v.got.row.grid = -v.truth.pv
        /\ ctx.pi30 => Size(v.got.row.grid - v.truth.grid) <= 40 + v.truth.grid \div 5
AlikeBefore(before, truth) ==
    \A f \in {"soc", "volt"} : before[f] > 0 /\ 10 * Size(truth[f] - before[f]) <= before[f]
\* A frame that is no reading is not stored; a halved one of a high-voltage
\* pack, which looks like another, unless nothing close to it was stored.
BlocksAreRefused(v) ==
    /\ v.kind \in {"clock", "codes"} => ~v.got.stored
    /\ v.kind = "dark" /\ v.truth.pv > 0 => ~v.got.stored \/ ctx.exportOnly
    /\ v.kind = "blank" /\ ctx.battery => ~v.got.stored
    /\ v.kind = "halved" /\ ctx.battery /\ v.got.stored => ctx.hv /\ ~AlikeBefore(v.before, v.truth)
\* Junk in one field is not stored and costs no other; junk in the generator
\* alone does not cost the reading.
JunkIsContained(v) ==
    v.kind = "junk" =>
        /\ v.field = "gen" => v.got.stored
        /\ v.got.stored => /\ Differs(v.got.row, v.truth) \subseteq Costs(v.field)
                           /\ v.got.row[v.field] # v.read[v.field]
FramesJudgedRight ==
    verdict # NoVerdict =>
        UprightIsStored(verdict) /\ BlocksAreRefused(verdict) /\ JunkIsContained(verdict)
=============================================================================
