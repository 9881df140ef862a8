--------------------------- MODULE CheckinSettings --------------------------
(***************************************************************************)
(* The settings of the daily check-in: what an update, which names some of   *)
(* the fields, makes of those in force, which keys it stores, what a start    *)
(* reads back, and which rewards the settings can pay.                        *)
(***************************************************************************)
EXTENDS Integers, FiniteSets, ModuleSettings

CONSTANTS AbsoluteMax, DefaultHardCap, DefaultReward

ASSUME CheckinDefaultsAssumption ==
    /\ AbsoluteMax \in Nat /\ DefaultHardCap \in 1..AbsoluteMax
    /\ DefaultReward \in Nat \ {0}

CheckinDefaults ==
    [enabled |-> FALSE, mode |-> "fixed", amount |-> DefaultReward, min |-> DefaultReward,
     max |-> DefaultReward, ranges |-> {}, cap |-> DefaultHardCap, budget |-> 10 * Unit,
     action |-> "block", zone |-> "Shanghai", step |-> 1, days |-> 7, clamped |-> FALSE]

CheckinFields ==
    [enabled |-> BOOLEAN, mode |-> Texts, amount |-> Int, min |-> Int, max |-> Int,
     ranges |-> SUBSET (Int \X Int), cap |-> Int, budget |-> Int, action |-> Texts, zone |-> Texts,
     step |-> Int, days |-> Int]

\* A weighted choice of ranges: the ranges with weight, as pairs.
RangesValid(ranges) == \A r \in ranges : r[1] > 0 /\ r[1] <= r[2] /\ r[2] <= AbsoluteMax

Ranges(ranges, cap) == {<<Money(AtMost(r[1], cap)), Money(AtMost(r[2], cap))>> : r \in ranges}

RangesClamped(ranges, cap) == \E r \in ranges : r[2] > cap

\* Mutant: an update that does not speak of the mode makes it fixed.
ModeForgotten(cur, in, lo, hi) ==
    IF \/ "mode" \in DOMAIN in /\ in.mode = "random"
       \/ DOMAIN in \cap {"min", "max"} # {} /\ hi > lo
    THEN "random" ELSE "fixed"

\* Without a mode of its own an update of the amounts chooses it.
ModeOf(cur, in, lo, hi) ==
    CASE "mode" \in DOMAIN in -> Fallback("random", in.mode = "random", "fixed")
      [] "mode" \notin DOMAIN in /\ DOMAIN in \cap {"min", "max"} # {} ->
            IF hi > lo THEN "random" ELSE IF "amount" \notin DOMAIN in THEN "fixed" ELSE cur.mode
      [] "mode" \notin DOMAIN in /\ DOMAIN in \cap {"min", "max"} = {} ->
            IF "amount" \in DOMAIN in THEN "fixed" ELSE cur.mode

\* The amount of the fixed mode, which a lowest amount given may stand in for.
FixedOf(next, in, lo) ==
    IF next.amount <= 0 /\ DOMAIN in \cap {"min", "max"} # {} THEN lo ELSE next.amount

\* Mutant: the range of the rewards is not stored.
RewardKeysButRange == {"mode", "amount"}

RewardKeys == {"mode", "amount", "min", "max"}

\* Keys that are stored when they are named, and only then.
PlainKeys == {"enabled", "budget", "action", "zone", "step", "days"}

PlainValid(in) ==
    /\ "budget" \in DOMAIN in => in.budget >= 0
    /\ "zone" \in DOMAIN in => in.zone \in Zones
    /\ "step" \in DOMAIN in => in.step \in 0..AbsoluteMax
    /\ "days" \in DOMAIN in => in.days \in 1..365

CheckinUpdate(cur, in) ==
    LET next == Overlay(cur, in)
        cap == next.cap
        mode == ModeOf(cur, in, next.min, next.max)
        lo == AtMost(next.min, cap)
        hi == AtMost(next.max, cap)
        fixed == AtMost(FixedOf(next, in, next.min), cap)
        rewards ==
            IF mode = "random"
            THEN [mode |-> mode, min |-> lo, max |-> hi, amount |-> Unit * ((lo + hi + Unit) \div (2 * Unit)),
                  ranges |-> Ranges(next.ranges, cap)]
            ELSE [mode |-> mode, min |-> fixed, max |-> fixed, amount |-> fixed, ranges |-> {}]
        clamped == \/ next.amount > cap \/ next.min > cap \/ next.max > cap
                   \/ RangesClamped(next.ranges, cap)
        result == [Overlay(next, rewards) EXCEPT !.clamped = clamped,
                                                 !.action = Fallback(@, @ = "disable", "block")]
        rangesStored == "ranges" \in DOMAIN in \/ (mode = "random" /\ RangesClamped(next.ranges, cap))
        keys == RewardKeys \cup {"cap"} \cup (PlainKeys \cap DOMAIN in)
                \cup (IF rangesStored THEN {"ranges"} ELSE {})
    IN IF /\ cap \in 1..AbsoluteMax
          /\ RangesValid(next.ranges)
          /\ IF mode = "random" THEN 0 < lo /\ lo <= hi ELSE fixed > 0
          /\ PlainValid(in)
       THEN [ok |-> TRUE, next |-> result, kv |-> [k \in keys |-> result[k]]]
       ELSE Refused(cur)

\* A start reads every key over the defaults and clamps again.
CheckinReload(kv) ==
    LET d == CheckinDefaults
        amount == IF "amount" \in DOMAIN kv /\ kv.amount > 0 THEN kv.amount ELSE d.amount
        min == IF "min" \in DOMAIN kv /\ kv.min > 0 THEN kv.min ELSE amount
        max == AtLeast(IF "max" \in DOMAIN kv /\ kv.max > 0 THEN kv.max ELSE amount, min)
        cap == AtMost(IF "cap" \in DOMAIN kv /\ kv.cap > 0 THEN kv.cap ELSE DefaultHardCap, AbsoluteMax)
        ranges == IF "ranges" \in DOMAIN kv /\ RangesValid(kv.ranges) THEN kv.ranges ELSE d.ranges
    IN [Overlay(d, kv) EXCEPT
           !.mode = IF "mode" \in DOMAIN kv THEN kv.mode
                    ELSE IF max > min THEN "random" ELSE "fixed",
           !.amount = AtMost(amount, cap), !.min = AtMost(min, cap), !.max = AtMost(max, cap),
           !.cap = cap, !.ranges = Ranges(ranges, cap),
           !.clamped = amount > cap \/ min > cap \/ max > cap \/ RangesClamped(ranges, cap)]

\* After the start the clamped amounts are stored.
ClampedKeys == RewardKeys \cup {"cap", "ranges", "budget", "action"}

PersistClamped(rt, kv) ==
    IF rt.clamped
    THEN [k \in DOMAIN kv \cup ClampedKeys |-> IF k \in ClampedKeys THEN rt[k] ELSE kv[k]]
    ELSE kv

\* The amounts PickReward can return.
Between(lo, hi) == {Money(x) : x \in lo..AtLeast(hi, lo)}

RewardsOf(rt) ==
    LET picked == IF rt.mode = "fixed" THEN {Money(rt.amount)}
                  ELSE IF rt.ranges = {} THEN Between(rt.min, rt.max)
                  ELSE UNION {Between(AtLeast(r[1], IF r[1] > 0 THEN 1 ELSE Unit), r[2]) : r \in rt.ranges}
    IN {IF x > rt.cap THEN Money(rt.cap) ELSE x : x \in picked}

Template(name) ==
    CASE name = "daily" -> [enabled |-> TRUE, mode |-> "fixed", amount |-> Unit, cap |-> 2 * Unit,
                            budget |-> 50 * Unit, action |-> "block", step |-> 1, days |-> 7]
      [] name = "promo" -> [enabled |-> TRUE, mode |-> "random", min |-> Unit, max |-> 2 * Unit,
                            cap |-> 2 * Unit, budget |-> 100 * Unit, action |-> "block", step |-> 2, days |-> 7]
      [] name = "off" -> [enabled |-> FALSE]
=============================================================================
