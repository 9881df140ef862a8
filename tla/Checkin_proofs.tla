--------------------------- MODULE Checkin_proofs ---------------------------
(***************************************************************************)
(* The check-in, for any number of workers and users, any rewards and any  *)
(* budget: the day of a user is held by one request at a time; who is told *)
(* of success has been paid what the record shows, and a record at rest of *)
(* a user without a failure is paid; and requests that read the day's sum  *)
(* at the same time exceed the budget by at most one payment for each      *)
(* other worker.                                                           *)
(*                                                                         *)
(* The settings, the check-in's and every other module's, for any editors, *)
(* any offers and any number of events: a restart brings back what is in   *)
(* force, a switch changes nothing else, a rollback restores the amounts   *)
(* and those ranges that the audit kept and that are valid.                *)
(***************************************************************************)
EXTENDS Checkin, Settings, FiniteSetTheorems, WellFoundedInduction, TLAPS

-----------------------------------------------------------------------------
(***************************************************************************)
(* The settings at rest: what an update leaves and a start reads.           *)
(***************************************************************************)
Words == Texts \ {""}
Limits(m) == {x \in Nat : 1 <= x /\ x <= m}

\* What the settings of a module can be: as an update leaves them or a start reads them.
PatrolSettled ==
    [enabled : BOOLEAN, cron : Words, model : Texts, concurrency : 1..50, timeout : Nat \ {0},
     action : PatrolActions, prompt : Words, keep : Nat \ {0}, threshold : 1..10]

NotifySettled ==
    [enabled : BOOLEAN, channel : {"webhook", "wecom", "telegram"}, target : Texts, extra : Texts,
     secret : Texts, events : (SUBSET Events) \ {{}}, level : {"info", "warn", "error"}]

ReportSettled ==
    [enabled : BOOLEAN, sendAt : Times, zone : Zones, cover : Covers, sections : (SUBSET Sections) \ {{}}]

Whole == {x \in Nat : Money(x) = x}
Prizes == {p \in Seq([amount : Whole \cap 0..MaxAmount, weight : 0..MaxWeight]) : Len(p) \in 1..MaxPrizes /\ Drawable(p)}

LotterySettled ==
    [enabled : BOOLEAN, requireCheckin : BOOLEAN, prizes : Prizes, budget : Whole, cap : Whole]

RulesLike(default) == Seq([type : Known(default), on : BOOLEAN, days : Nat]) \ {<<>>}
ReclaimSettled == [mode : {"fixed", "percent", "excess"}, value : Nat, reserve : Nat, min : Nat, max : Nat]
DrawSettled == [mode : {"fixed", "random", "active_share"}, fixed : Nat, min : Nat, max : Nat]
AllocationSettled == [mode : {"equal", "fixed", "usage", "mixed"}, fixed : Nat, equal : 0..100, limit : Limits(5000)]

RedistributionSettled ==
    [enabled : BOOLEAN, auto : BOOLEAN, cron : Words, zone : Words,
     inactive : RulesLike(InactiveRules), active : RulesLike(ActiveRules), protected : Nat,
     excluded : SUBSET (Nat \ {0}), reclaim : ReclaimSettled, claim : {"auto", "claim"}, poolDays : Nat \ {0},
     draw : DrawSettled, allocation : AllocationSettled, failPercent : 0..100, keep : Limits(500)]

DefSettled(d) ==
    /\ d \in [id : Words, kind : Kinds, target : Nat \ {0}, period : Periods, reward : Nat]
    /\ d.kind \in {"daily_checkin", "daily_lottery"} => d.target = 1

TaskSettled ==
    {s \in [enabled : BOOLEAN, defs : Seq([id : Texts, kind : Texts, target : Int, period : Texts, reward : Int])] :
        TaskValid(s) /\ \A i \in DOMAIN s.defs : DefSettled(s.defs[i])}

MediaSettled ==
    [driver : {"local", "webdav"}, url : Texts, password : Texts, root : Texts, fallback : BOOLEAN]

Modes == {"fixed", "random"}
Actions == {"block", "disable"}

CheckinTypes ==
    [enabled : BOOLEAN, mode : Modes, amount : Int, min : Nat \ {0}, max : Nat \ {0}, ranges : SUBSET (Int \X Int),
     cap : 1..AbsoluteMax, budget : Int, action : Actions, zone : Texts, step : Int, days : Int, clamped : BOOLEAN]

\* The amounts fit the mode and the cap.
AmountsFit(rt) ==
    /\ rt.min <= rt.max /\ rt.max <= rt.cap
    /\ rt.mode = "fixed" => rt.amount = rt.min /\ rt.amount = rt.max

CheckinSettled == {rt \in CheckinTypes : AmountsFit(rt) /\ Ranges(rt.ranges, rt.cap) = rt.ranges}

Settled(m) ==
    CASE m = "checkin" -> CheckinSettled
      [] m = "patrol" -> PatrolSettled
      [] m = "notify" -> NotifySettled
      [] m = "report" -> ReportSettled
      [] m = "lottery" -> LotterySettled
      [] m = "redistribution" -> RedistributionSettled
      [] m = "tasks" -> TaskSettled
      [] m = "media" -> MediaSettled

\* The check-in's rows: every update has written the amounts and the cap together.
AmountKeys == RewardKeys \cup {"cap"}

CheckinRows(kv) ==
    /\ AmountKeys \subseteq DOMAIN kv /\ DOMAIN kv \subseteq DOMAIN CheckinFields
    /\ kv = [k \in DOMAIN kv |-> kv[k]]
    /\ WellTyped(kv, CheckinFields)
    /\ kv.mode \in Modes /\ kv.cap \in 1..AbsoluteMax /\ kv.min > 0 /\ AmountsFit(kv)
    /\ "action" \in DOMAIN kv => kv.action \in Actions

\* What the audit keeps of them.
CheckinPayloads ==
    {p \in [enabled : BOOLEAN, mode : Modes, amount : Int, min : Nat \ {0}, max : Nat \ {0}, ranges : SUBSET (Int \X Int),
            cap : 1..AbsoluteMax, budget : Int, action : Actions, zone : Texts, step : Int, days : Int] :
        AmountsFit(p) /\ Ranges(p.ranges, p.cap) = p.ranges}

\* The rows say nothing, or are what updates of the module have written: of the
\* check-in key by key, of the others settings that were accepted as a whole.
RowsOK(m, kv) ==
    \/ kv = NoRows
    \/ m = "checkin" /\ CheckinRows(kv)
    \/ /\ m # "checkin" /\ kv \in Settled(m)
       /\ m = "redistribution" => RedistributionValid(kv)

\* What an editor asks for.
AskOK(m, r) ==
    /\ r.kind \in {"edit", "switch", "rollback"}
    /\ WellTyped(r.in, FieldsOf(m))
    /\ r.old \in Settled(m)
    /\ r.kind = "switch" => m # "media" /\ \E on \in BOOLEAN : r.in = [enabled |-> on]
    /\ r.kind = "rollback" =>
          m = "checkin" /\ r.in = UpdateInputOf(r.to) /\ r.to \in CheckinPayloads

\* What it writes and puts in force has been computed from settings.
Computed(m, r) ==
    /\ AskOK(m, r.by)
    /\ r.next \in Settled(m)
    /\ m # "checkin" => r.kv = r.next
    /\ m = "redistribution" => RedistributionValid(r.next)
    /\ m = "checkin" =>
          /\ AmountKeys \subseteq DOMAIN r.kv /\ DOMAIN r.kv \subseteq DOMAIN CheckinFields
          /\ r.kv = [k \in DOMAIN r.kv |-> r.next[k]]
    /\ r.by.kind = "rollback" => \A f \in {"enabled", "mode", "min", "max", "cap", "budget"} : r.next[f] = r.by.to[f]

EditorOK(m, r) ==
    \/ r = Resting
    \/ r.at \in {"probe", "read"} /\ r = [f \in {"at", "kind", "in", "old", "to"} |-> r[f]] /\ AskOK(m, r)
    \/ /\ r.at \in {"write", "set", "apply", "log"} /\ r = [f \in {"at", "by", "next", "kv"} |-> r[f]]
       /\ Computed(m, r)
       /\ r.at = "apply" => m = "media"
       /\ r.at = "log" => m = "checkin"

AuditOK ==
    /\ audit = [i \in 1..Len(audit) |-> audit[i]] /\ Len(audit) \in Nat
    /\ \A i \in 1..Len(audit) : module = "checkin" /\ audit[i] \in CheckinPayloads

SettingsTyped ==
    /\ module \in Modules
    /\ memory \in Settled(module)
    /\ RowsOK(module, stored)
    /\ editors = [e \in Editors |-> editors[e]]
    /\ \A e \in Editors : EditorOK(module, editors[e])
    /\ AuditOK
    /\ torn \in BOOLEAN /\ misread \in BOOLEAN

\* As long as no edits overlap one editor is busy, and it works on what is in force.
OneAtATime ==
    ~torn =>
        /\ \A e, f \in Busy : e = f
        /\ \A e \in Editors : editors[e].at \in {"write", "set"} =>
              LET u == Update(module, memory, editors[e].by.in)
              IN u.ok /\ editors[e].next = u.next /\ editors[e].kv = u.kv

\* Rows and settings that say the same of what is in force.
Agree(m, kv, rt) == InForce(m, Reload(m, kv)) = InForce(m, rt)

\* The rows say what is in force, or what is just about to be.
RowsAgree ==
    ~torn =>
        /\ \A e \in Editors : editors[e].at = "set" =>
              (misread /\ module = "checkin") \/ Agree(module, stored, editors[e].next)
        /\ ~misread /\ (\A e \in Editors : editors[e].at # "set") => Agree(module, stored, memory)

SettingsInv == SettingsTyped /\ OneAtATime /\ RowsAgree

-----------------------------------------------------------------------------
(***************************************************************************)
(* Rounding to whole units.                                                *)
(***************************************************************************)
LEMMA Divides == ASSUME NEW a \in Int, NEW b \in Nat \ {0}, NEW q \in Int, b * q <= a, a < b * q + b PROVE a \div b = q
<1>1. PICK r \in Int : r = a - b * q
  OBVIOUS
<1>2. 0 <= r /\ r < b /\ a = b * q + r
  BY <1>1
<1> QED
  BY <1>2

LEMMA Divided == ASSUME NEW a \in Int, NEW b \in Nat \ {0}
  PROVE a \div b \in Int /\ b * (a \div b) <= a /\ a < b * (a \div b) + b
OBVIOUS

\* Money(x) is the multiple of the unit that x is nearest to.
LEMMA MoneyIs ==
  ASSUME NEW x \in Int
  PROVE  \E q \in Int : Money(x) = Unit * q /\ 2 * (Unit * q) <= 2 * x + Unit /\ 2 * x + Unit < 2 * (Unit * q) + 2 * Unit
<1> USE SettingsAssumption
<1>1. PICK q \in Int : q = (2 * x + Unit) \div (2 * Unit)
  OBVIOUS
<1>2. PICK b \in Nat \ {0} : b = 2 * Unit
  OBVIOUS
<1>3. PICK a \in Int : a = 2 * x + Unit
  OBVIOUS
<1>5. q = a \div b
  BY <1>1, <1>2, <1>3
<1>6. b * q <= a /\ a < b * q + b
  BY <1>5, Divided
<1>4. b * q = 2 * (Unit * q)
  BY <1>2
<1> QED
  BY <1>1, <1>2, <1>3, <1>4, <1>6 DEF Money

LEMMA MoneyOf == ASSUME NEW q \in Int PROVE Money(Unit * q) = Unit * q
<1> USE SettingsAssumption
<1>0. PICK x \in Int : x = Unit * q
  OBVIOUS
<1>a. PICK p \in Int : Money(x) = Unit * p /\ 2 * (Unit * p) <= 2 * x + Unit /\ 2 * x + Unit < 2 * (Unit * p) + 2 * Unit
  BY MoneyIs
<1>1. Money(Unit * q) = Unit * p /\ 2 * (Unit * p) <= 2 * (Unit * q) + Unit /\ 2 * (Unit * q) + Unit < 2 * (Unit * p) + 2 * Unit
  BY <1>0, <1>a
<1>2. p = q
  <2>1. CASE p < q
    <3>1. Unit * p + Unit <= Unit * q
      BY <2>1
    <3> QED
      BY <1>1, <3>1
  <2>2. CASE p > q
    <3>1. Unit * q + Unit <= Unit * p
      BY <2>2
    <3> QED
      BY <1>1, <3>1
  <2> QED
    BY <2>1, <2>2
<1> QED
  BY <1>1, <1>2

LEMMA MoneyWhole == ASSUME NEW x \in Int PROVE Money(x) \in Int /\ Money(Money(x)) = Money(x)
<1>1. PICK q \in Int : Money(x) = Unit * q
  BY MoneyIs
<1>2. Unit * q \in Int
  BY SettingsAssumption
<1>3. Money(Unit * q) = Unit * q
  BY MoneyOf
<1> QED
  BY <1>1, <1>2, <1>3

LEMMA MoneyGrows == ASSUME NEW x \in Int, NEW y \in Int, x <= y PROVE Money(x) <= Money(y)
<1> USE SettingsAssumption
<1>1. PICK p \in Int : Money(x) = Unit * p /\ 2 * (Unit * p) <= 2 * x + Unit
  BY MoneyIs
<1>2. PICK q \in Int : Money(y) = Unit * q /\ 2 * y + Unit < 2 * (Unit * q) + 2 * Unit
  BY MoneyIs
<1>3. ASSUME p > q PROVE FALSE
  <2>1. Unit * q + Unit <= Unit * p
    BY <1>3
  <2> QED
    BY <1>1, <1>2, <2>1
<1>4. p <= q
  BY <1>3
<1>5. Unit * p <= Unit * q
  BY <1>4
<1> QED
  BY <1>1, <1>2, <1>5

LEMMA MoneyPositive == ASSUME NEW x \in Nat PROVE Money(x) \in Nat
<1>1. Money(0) = 0
  BY MoneyOf, SettingsAssumption
<1> QED
  BY <1>1, MoneyGrows, MoneyWhole

LEMMA MaxAmountWhole == Money(MaxAmount) = MaxAmount
<1> USE SettingsAssumption
<1>1. PICK q \in Int : q = MaxAmount \div Unit
  OBVIOUS
<1>2. MaxAmount = Unit * q
  BY <1>1
<1> QED
  BY <1>2, MoneyOf

\* Clamping again changes nothing.
LEMMA ClampedOnce ==
  ASSUME NEW x \in Int, NEW cap \in Int
  PROVE  LET m == Money(AtMost(x, cap)) IN m \in Int /\ Money(AtMost(m, cap)) = m
<1>1. PICK z \in Int : z = AtMost(x, cap) /\ z <= cap
  BY DEF AtMost
<1>2. Money(z) \in Int /\ Money(Money(z)) = Money(z) /\ Money(z) <= Money(cap) /\ Money(cap) \in Int
  BY <1>1, MoneyWhole, MoneyGrows
<1>3. CASE Money(z) > cap
  <2>1. Money(cap) <= Money(Money(z))
    BY <1>2, <1>3, MoneyGrows
  <2> QED
    BY <1>1, <1>2, <1>3, <2>1 DEF AtMost
<1>4. CASE Money(z) <= cap
  BY <1>1, <1>2, <1>4 DEF AtMost
<1> QED
  BY <1>2, <1>3, <1>4

-----------------------------------------------------------------------------
(***************************************************************************)
(* Each module: what an update accepts and what a start reads are settings,  *)
(* settings that are read again are the same, and the switch moves nothing   *)
(* but the switch.                                                           *)
(***************************************************************************)
\* What can be read of well typed rows is well typed.
LEMMA ReadableTyped ==
  ASSUME NEW kv, NEW types, NEW texts, WellTyped(kv, types)
  PROVE  WellTyped([f \in {g \in DOMAIN kv : g \in texts => kv[g] # ""} |-> kv[f]], types)
BY DEF WellTyped

PatrolRaw ==
    [enabled : BOOLEAN, cron : Texts, model : Texts, concurrency : Int, timeout : Int,
     action : Texts, prompt : Texts, keep : Int, threshold : Int]

LEMMA PatrolOverlay ==
  ASSUME NEW cur \in PatrolRaw, NEW in, WellTyped(in, PatrolFields)
  PROVE  Overlay(cur, in) \in PatrolRaw
BY DEF Overlay, WellTyped, PatrolRaw, PatrolFields

LEMMA PatrolNormalSettled == ASSUME NEW s \in PatrolRaw PROVE PatrolNormal(s) \in PatrolSettled
<1>1. Fallback(s.cron, s.cron # "", "6h") \in Words
  BY TextsAssumption DEF PatrolRaw, Fallback, Words
<1>2. Fallback(s.action, s.action \in PatrolActions, "disable") \in PatrolActions
  BY DEF PatrolRaw, Fallback, PatrolActions
<1>3. Fallback(s.prompt, s.prompt # "", "hi") \in Words
  BY TextsAssumption DEF PatrolRaw, Fallback, Words
<1>4. /\ Fallback(AtMost(s.concurrency, 50), s.concurrency > 0, 8) \in 1..50
      /\ Fallback(AtMost(s.threshold, 10), s.threshold > 0, 1) \in 1..10
  BY DEF PatrolRaw, Fallback, AtMost
<1>5. /\ Fallback(s.timeout, s.timeout >= 1, 45) \in Nat \ {0}
      /\ Fallback(s.keep, s.keep > 0, 50) \in Nat \ {0}
  BY DEF PatrolRaw, Fallback
<1> QED
  BY <1>1, <1>2, <1>3, <1>4, <1>5 DEF PatrolRaw, PatrolSettled, PatrolNormal

LEMMA PatrolNormalKeeps == ASSUME NEW s \in PatrolSettled PROVE PatrolNormal(s) = s
<1>1. Fallback(s.cron, s.cron # "", "6h") = s.cron /\ Fallback(s.prompt, s.prompt # "", "hi") = s.prompt
  BY DEF PatrolSettled, Fallback, Words
<1>2. Fallback(s.action, s.action \in PatrolActions, "disable") = s.action
  BY DEF PatrolSettled, Fallback
<1>3. /\ Fallback(AtMost(s.concurrency, 50), s.concurrency > 0, 8) = s.concurrency
      /\ Fallback(AtMost(s.threshold, 10), s.threshold > 0, 1) = s.threshold
  BY DEF PatrolSettled, Fallback, AtMost
<1>4. Fallback(s.timeout, s.timeout >= 1, 45) = s.timeout /\ Fallback(s.keep, s.keep > 0, 50) = s.keep
  BY DEF PatrolSettled, Fallback
<1> QED
  BY <1>1, <1>2, <1>3, <1>4 DEF PatrolSettled, PatrolNormal

LEMMA PatrolSettledRaw == PatrolSettled \subseteq PatrolRaw
<1>1. PatrolActions \subseteq Texts /\ Words \subseteq Texts
  BY TextsAssumption DEF PatrolActions, Words
<1>2. 1..50 \subseteq Int /\ 1..10 \subseteq Int /\ Nat \ {0} \subseteq Int
  OBVIOUS
<1> QED
  BY <1>1, <1>2 DEF PatrolSettled, PatrolRaw

LEMMA PatrolUpdated ==
  ASSUME NEW cur \in PatrolSettled, NEW in, WellTyped(in, PatrolFields)
  PROVE  LET u == PatrolUpdate(cur, in)
         IN u.next \in PatrolSettled /\ (u.ok => u.kv = u.next)
<1>1. Overlay(cur, in) \in PatrolRaw
  BY PatrolSettledRaw, PatrolOverlay
<1>2. PatrolNormal(Overlay(cur, in)) \in PatrolSettled
  BY <1>1, PatrolNormalSettled
<1> QED
  BY <1>2 DEF PatrolUpdate, Accepted, Refused

LEMMA PatrolReads ==
  ASSUME NEW kv, WellTyped(kv, PatrolFields)
  PROVE  PatrolReload(kv) \in PatrolSettled
<1>0. "6h" \in Texts /\ "" \in Texts /\ "disable" \in Texts /\ "hi" \in Texts
  BY TextsAssumption
<1>1. PatrolDefaults \in PatrolRaw
  <2>1. 8 \in Int /\ 45 \in Int /\ 50 \in Int /\ 1 \in Int /\ FALSE \in BOOLEAN
    OBVIOUS
  <2> QED
    BY <1>0, <2>1, Zenon DEF PatrolRaw, PatrolDefaults
<1>2. Reloaded(PatrolDefaults, kv, {"cron", "action", "prompt"}) \in PatrolRaw
  BY <1>1, ReadableTyped, PatrolOverlay DEF Reloaded
<1> QED
  BY <1>2, PatrolNormalSettled DEF PatrolReload

LEMMA PatrolReadsBack == ASSUME NEW s \in PatrolSettled PROVE PatrolReload(s) = s
<1>0. s.action # ""
  BY DEF PatrolSettled, PatrolActions
<1>1. s.cron # "" /\ s.prompt # "" /\ s.action # ""
  BY <1>0 DEF PatrolSettled, Words
<1>2. {g \in DOMAIN s : g \in {"cron", "action", "prompt"} => s[g] # ""} = DOMAIN s
  BY <1>1 DEF PatrolSettled
<1>3. Reloaded(PatrolDefaults, s, {"cron", "action", "prompt"}) = s
  BY <1>2 DEF Reloaded, PatrolDefaults, Overlay, PatrolSettled
<1> QED
  BY <1>3, PatrolNormalKeeps DEF PatrolReload

LEMMA PatrolSwitched ==
  ASSUME NEW cur \in PatrolSettled, NEW on \in BOOLEAN
  PROVE  PatrolUpdate(cur, [enabled |-> on]).next \in {cur, [cur EXCEPT !.enabled = on]}
<1>1. Overlay(cur, [enabled |-> on]) = [cur EXCEPT !.enabled = on]
  BY DEF Overlay, PatrolSettled
<1>2. [cur EXCEPT !.enabled = on] \in PatrolSettled
  BY DEF PatrolSettled
<1>3. PatrolNormal([cur EXCEPT !.enabled = on]) = [cur EXCEPT !.enabled = on]
  BY <1>2, PatrolNormalKeeps
<1> QED
  BY <1>1, <1>3 DEF PatrolUpdate, Accepted, Refused

NotifyRaw ==
    [enabled : BOOLEAN, channel : Texts, target : Texts, extra : Texts, secret : Texts,
     events : SUBSET Texts, level : Texts]

LEMMA NotifyOverlay ==
  ASSUME NEW cur \in NotifyRaw, NEW in, WellTyped(in, NotifyFields)
  PROVE  Overlay(cur, in) \in NotifyRaw
BY DEF Overlay, WellTyped, NotifyRaw, NotifyFields

LEMMA NotifyNormalSettled == ASSUME NEW s \in NotifyRaw PROVE NotifyNormal(s) \in NotifySettled
<1>1. Fallback(s.channel, s.channel \in {"webhook", "wecom", "telegram"}, "webhook") \in {"webhook", "wecom", "telegram"}
  BY DEF Fallback
<1>2. Fallback(s.level, s.level \in {"info", "warn", "error"}, "warn") \in {"info", "warn", "error"}
  BY DEF Fallback
<1>3. Events # {}
  BY DEF Events
<1>4. Fallback(s.events \cap Events, s.events \cap Events # {}, Events) \in (SUBSET Events) \ {{}}
  BY <1>3 DEF Fallback
<1> QED
  BY <1>1, <1>2, <1>4 DEF NotifyRaw, NotifySettled, NotifyNormal

LEMMA NotifyNormalKeeps == ASSUME NEW s \in NotifySettled PROVE NotifyNormal(s) = s
<1>1. s.events \cap Events = s.events /\ s.events # {}
  BY DEF NotifySettled
<1>2. Fallback(s.channel, s.channel \in {"webhook", "wecom", "telegram"}, "webhook") = s.channel
  BY DEF NotifySettled, Fallback
<1>3. Fallback(s.level, s.level \in {"info", "warn", "error"}, "warn") = s.level
  BY DEF NotifySettled, Fallback
<1>4. Fallback(s.events \cap Events, s.events \cap Events # {}, Events) = s.events
  BY <1>1 DEF Fallback
<1> QED
  BY <1>2, <1>3, <1>4 DEF NotifySettled, NotifyNormal

LEMMA NotifySettledRaw == NotifySettled \subseteq NotifyRaw
<1>1. {"webhook", "wecom", "telegram"} \subseteq Texts /\ {"info", "warn", "error"} \subseteq Texts
  BY TextsAssumption
<1>2. (SUBSET Events) \ {{}} \subseteq SUBSET Texts
  BY TextsAssumption DEF Events
<1> QED
  BY <1>1, <1>2 DEF NotifySettled, NotifyRaw

LEMMA NotifyUpdated ==
  ASSUME NEW cur \in NotifySettled, NEW in, WellTyped(in, NotifyFields)
  PROVE  LET u == NotifyUpdate(cur, in)
         IN u.next \in NotifySettled /\ (u.ok => u.kv = u.next)
<1>1. Overlay(cur, in) \in NotifyRaw
  BY NotifySettledRaw, NotifyOverlay
<1>5. "" \in Texts
  BY TextsAssumption
<1>6. "secret" \in DOMAIN in => in.secret \in Texts
  BY DEF WellTyped, NotifyFields
<1>7. cur.secret \in Texts
  BY DEF NotifySettled
<1>2. SecretOf(cur, in) \in Texts
  BY <1>5, <1>6, <1>7 DEF SecretOf
<1>3. [Overlay(cur, in) EXCEPT !.secret = SecretOf(cur, in)] \in NotifyRaw
  BY <1>1, <1>2 DEF NotifyRaw
<1>4. NotifyNormal([Overlay(cur, in) EXCEPT !.secret = SecretOf(cur, in)]) \in NotifySettled
  BY <1>3, NotifyNormalSettled
<1> QED
  BY <1>4 DEF NotifyUpdate, Accepted, Refused

LEMMA NotifyReads ==
  ASSUME NEW kv, WellTyped(kv, NotifyFields)
  PROVE  NotifyReload(kv) \in NotifySettled
<1>1. NotifyDefaults \in NotifyRaw
  BY TextsAssumption DEF NotifyRaw, NotifyDefaults
<1>2. Reloaded(NotifyDefaults, kv, {"channel", "level"}) \in NotifyRaw
  BY <1>1, ReadableTyped, NotifyOverlay DEF Reloaded
<1> QED
  BY <1>2, NotifyNormalSettled DEF NotifyReload

LEMMA NotifyReadsBack == ASSUME NEW s \in NotifySettled PROVE NotifyReload(s) = s
<1>1. s.channel # "" /\ s.level # ""
  BY DEF NotifySettled
<1>2. {g \in DOMAIN s : g \in {"channel", "level"} => s[g] # ""} = DOMAIN s
  BY <1>1 DEF NotifySettled
<1>3. Reloaded(NotifyDefaults, s, {"channel", "level"}) = s
  BY <1>2 DEF Reloaded, NotifyDefaults, Overlay, NotifySettled
<1> QED
  BY <1>3, NotifyNormalKeeps DEF NotifyReload

LEMMA NotifySwitched ==
  ASSUME NEW cur \in NotifySettled, NEW on \in BOOLEAN
  PROVE  NotifyUpdate(cur, [enabled |-> on]).next \in {cur, [cur EXCEPT !.enabled = on]}
<1> DEFINE in == [enabled |-> on]
           next == [cur EXCEPT !.enabled = on]
<1>1. Overlay(cur, in) = next
  BY DEF Overlay, NotifySettled
<1>2. next \in NotifySettled
  BY DEF NotifySettled
<1>3. SecretOf(cur, in) = cur.secret
  BY DEF SecretOf
<1>4. [next EXCEPT !.secret = cur.secret] = next
  BY DEF NotifySettled
<1>5. NotifyNormal(next) = next
  BY <1>2, NotifyNormalKeeps
<1> QED
  BY <1>1, <1>3, <1>4, <1>5 DEF NotifyUpdate, Accepted, Refused

ReportRaw ==
    [enabled : BOOLEAN, sendAt : Texts, zone : Texts, cover : Texts, sections : SUBSET Texts]

LEMMA ReportOverlay ==
  ASSUME NEW cur \in ReportRaw, NEW in, WellTyped(in, ReportFields)
  PROVE  Overlay(cur, in) \in ReportRaw
BY DEF Overlay, WellTyped, ReportRaw, ReportFields

LEMMA ReportNormalSettled == ASSUME NEW s \in ReportRaw PROVE ReportNormal(s) \in ReportSettled
<1>1. Fallback(s.sendAt, s.sendAt \in Times, "09:00") \in Times
  BY DEF Times, Fallback
<1>2. Fallback(s.zone, s.zone \in Zones, "Shanghai") \in Zones
  BY DEF Zones, Fallback
<1>3. Fallback(s.cover, s.cover \in Covers, "yesterday") \in Covers
  BY DEF Covers, Fallback
<1>4. Sections # {}
  BY DEF Sections
<1>5. Fallback(s.sections \cap Sections, s.sections \cap Sections # {}, Sections) \in (SUBSET Sections) \ {{}}
  BY <1>4 DEF Fallback
<1> QED
  BY <1>1, <1>2, <1>3, <1>5 DEF ReportRaw, ReportSettled, ReportNormal

LEMMA ReportNormalKeeps == ASSUME NEW s \in ReportSettled PROVE ReportNormal(s) = s
<1>1. s.sections \cap Sections = s.sections /\ s.sections # {}
  BY DEF ReportSettled
<1>2. /\ Fallback(s.sendAt, s.sendAt \in Times, "09:00") = s.sendAt
      /\ Fallback(s.zone, s.zone \in Zones, "Shanghai") = s.zone
      /\ Fallback(s.cover, s.cover \in Covers, "yesterday") = s.cover
  BY DEF ReportSettled, Fallback
<1>3. Fallback(s.sections \cap Sections, s.sections \cap Sections # {}, Sections) = s.sections
  BY <1>1 DEF Fallback
<1> QED
  BY <1>2, <1>3 DEF ReportSettled, ReportNormal

LEMMA ReportSettledRaw == ReportSettled \subseteq ReportRaw
<1>1. Times \subseteq Texts /\ Zones \subseteq Texts /\ Covers \subseteq Texts
  BY TextsAssumption DEF Times, Zones, Covers
<1>2. (SUBSET Sections) \ {{}} \subseteq SUBSET Texts
  BY TextsAssumption DEF Sections
<1> QED
  BY <1>1, <1>2 DEF ReportSettled, ReportRaw

LEMMA ReportUpdated ==
  ASSUME NEW cur \in ReportSettled, NEW in, WellTyped(in, ReportFields)
  PROVE  LET u == ReportUpdate(cur, in)
         IN u.next \in ReportSettled /\ (u.ok => u.kv = u.next)
<1>1. Overlay(cur, in) \in ReportRaw
  BY ReportSettledRaw, ReportOverlay
<1>2. ReportNormal(Overlay(cur, in)) \in ReportSettled
  BY <1>1, ReportNormalSettled
<1> QED
  BY <1>2 DEF ReportUpdate, Accepted, Refused

LEMMA ReportReads ==
  ASSUME NEW kv, WellTyped(kv, ReportFields)
  PROVE  ReportReload(kv) \in ReportSettled
<1>1. ReportDefaults \in ReportRaw
  BY TextsAssumption DEF ReportRaw, ReportDefaults
<1>2. Reloaded(ReportDefaults, kv, {"sendAt", "zone", "cover"}) \in ReportRaw
  BY <1>1, ReadableTyped, ReportOverlay DEF Reloaded
<1> QED
  BY <1>2, ReportNormalSettled DEF ReportReload

LEMMA ReportReadsBack == ASSUME NEW s \in ReportSettled PROVE ReportReload(s) = s
<1>1. s.sendAt # "" /\ s.zone # "" /\ s.cover # ""
  BY DEF ReportSettled, Times, Zones, Covers
<1>2. {g \in DOMAIN s : g \in {"sendAt", "zone", "cover"} => s[g] # ""} = DOMAIN s
  BY <1>1 DEF ReportSettled
<1>3. Reloaded(ReportDefaults, s, {"sendAt", "zone", "cover"}) = s
  BY <1>2 DEF Reloaded, ReportDefaults, Overlay, ReportSettled
<1> QED
  BY <1>3, ReportNormalKeeps DEF ReportReload

LEMMA ReportSwitched ==
  ASSUME NEW cur \in ReportSettled, NEW on \in BOOLEAN
  PROVE  ReportUpdate(cur, [enabled |-> on]).next \in {cur, [cur EXCEPT !.enabled = on]}
<1>1. Overlay(cur, [enabled |-> on]) = [cur EXCEPT !.enabled = on]
  BY DEF Overlay, ReportSettled
<1>2. [cur EXCEPT !.enabled = on] \in ReportSettled
  BY DEF ReportSettled
<1>3. ReportNormal([cur EXCEPT !.enabled = on]) = [cur EXCEPT !.enabled = on]
  BY <1>2, ReportNormalKeeps
<1> QED
  BY <1>1, <1>3 DEF ReportUpdate, Accepted, Refused

LEMMA MediaNormalKeeps == ASSUME NEW s \in MediaSettled PROVE MediaNormal(s) = s
BY DEF MediaSettled, MediaNormal, Fallback

MediaRaw == [driver : Texts, url : Texts, password : Texts, root : Texts, fallback : BOOLEAN]

LEMMA MediaOverlay ==
  ASSUME NEW cur \in MediaRaw, NEW in, WellTyped(in, MediaFields)
  PROVE  Overlay(cur, in) \in MediaRaw
BY DEF Overlay, WellTyped, MediaRaw, MediaFields

LEMMA MediaUpdated ==
  ASSUME NEW cur \in MediaSettled, NEW in, WellTyped(in, MediaFields)
  PROVE  LET u == MediaUpdate(cur, in)
         IN u.next \in MediaSettled /\ (u.ok => u.kv = u.next)
<1>4. cur \in MediaRaw
  BY TextsAssumption DEF MediaRaw, MediaSettled
<1>1. Overlay(cur, in) \in MediaRaw
  BY <1>4, MediaOverlay
<1>5. "" \in Texts
  BY TextsAssumption
<1>6. "password" \in DOMAIN in => in.password \in Texts
  BY DEF WellTyped, MediaFields
<1>7. cur.password \in Texts
  BY DEF MediaSettled
<1>2. PasswordOf(cur, in) \in Texts
  BY <1>5, <1>6, <1>7 DEF PasswordOf
<1>3. MediaNormal([Overlay(cur, in) EXCEPT !.password = PasswordOf(cur, in)]) \in MediaSettled
  BY <1>1, <1>2 DEF MediaRaw, MediaSettled, MediaNormal, Fallback
<1> QED
  BY <1>3 DEF MediaUpdate, Accepted, Refused

LEMMA MediaReads ==
  ASSUME NEW kv, WellTyped(kv, MediaFields)
  PROVE  MediaReload(kv) \in MediaSettled
<1>1. MediaDefaults \in MediaRaw
  BY TextsAssumption DEF MediaRaw, MediaDefaults
<1>2. Reloaded(MediaDefaults, kv, {"driver"}) \in MediaRaw
  BY <1>1, ReadableTyped, MediaOverlay DEF Reloaded
<1> QED
  BY <1>2 DEF MediaReload, MediaRaw, MediaSettled, MediaNormal, Fallback

LEMMA MediaReadsBack == ASSUME NEW s \in MediaSettled PROVE MediaReload(s) = s
<1>1. {g \in DOMAIN s : g \in {"driver"} => s[g] # ""} = DOMAIN s
  BY DEF MediaSettled
<1>2. Reloaded(MediaDefaults, s, {"driver"}) = s
  BY <1>1 DEF Reloaded, MediaDefaults, Overlay, MediaSettled
<1> QED
  BY <1>2, MediaNormalKeeps DEF MediaReload

-----------------------------------------------------------------------------
\* Lottery.
PrizeSettled == [amount : Whole \cap (0..MaxAmount), weight : 0..MaxWeight]

LEMMA PrefixIn ==
  ASSUME NEW S, NEW s \in Seq(S), NEW n \in Nat, n <= Len(s)
  PROVE  SubSeq(s, 1, n) \in Seq(S) /\ Len(SubSeq(s, 1, n)) = n /\ DOMAIN SubSeq(s, 1, n) = 1..n
OBVIOUS

LEMMA SeqGrows == ASSUME NEW S, NEW T, S \subseteq T, NEW s \in Seq(S) PROVE s \in Seq(T)
OBVIOUS

LotteryRaw ==
    [enabled : BOOLEAN, requireCheckin : BOOLEAN, prizes : Seq([amount : Int, weight : Int]), budget : Int, cap : Int]

LEMMA WholeMoney == ASSUME NEW x \in Int PROVE Money(AtLeast(x, 0)) \in Whole
<1>1. PICK z \in Nat : z = AtLeast(x, 0)
  BY DEF AtLeast
<1>2. Money(z) \in Nat /\ Money(Money(z)) = Money(z)
  BY MoneyPositive, MoneyWhole
<1> QED
  BY <1>1, <1>2 DEF Whole

LEMMA WholeKept == ASSUME NEW x \in Whole PROVE x \in Nat /\ Money(x) = x /\ Money(AtLeast(x, 0)) = x
BY DEF Whole, AtLeast

LEMMA PrizeNormalSettled ==
  ASSUME NEW p \in [amount : Int, weight : Int] PROVE PrizeNormal(p) \in PrizeSettled
<1>1. PICK z \in Nat : z = AtMost(AtLeast(p.amount, 0), MaxAmount) /\ z <= MaxAmount
  BY SettingsAssumption DEF AtMost, AtLeast
<1>2. Money(z) \in Nat /\ Money(Money(z)) = Money(z)
  BY MoneyPositive, MoneyWhole
<1>3. Money(z) <= MaxAmount
  BY <1>1, MoneyGrows, MaxAmountWhole, SettingsAssumption
<1>4. Money(z) \in Whole \cap (0..MaxAmount)
  BY <1>2, <1>3, SettingsAssumption DEF Whole
<1>5. AtMost(AtLeast(p.weight, 0), MaxWeight) \in 0..MaxWeight
  <2>1. PICK w \in Nat : w = MaxWeight
    BY SMT DEF MaxWeight
  <2>2. p.weight \in Int
    OBVIOUS
  <2> QED
    BY <2>1, <2>2 DEF AtMost, AtLeast
<1> QED
  BY <1>1, <1>4, <1>5 DEF PrizeNormal, PrizeSettled

LEMMA PrizeNormalKeeps == ASSUME NEW p \in PrizeSettled PROVE PrizeNormal(p) = p
<1>1. p.amount \in Nat /\ p.amount <= MaxAmount /\ Money(p.amount) = p.amount /\ p.weight \in 0..MaxWeight
  BY SettingsAssumption DEF PrizeSettled, Whole
<1>2. AtMost(AtLeast(p.amount, 0), MaxAmount) = p.amount
  BY <1>1, SettingsAssumption DEF AtMost, AtLeast
<1>3. AtMost(AtLeast(p.weight, 0), MaxWeight) = p.weight
  <2>1. PICK w \in Nat : w = MaxWeight
    BY SMT DEF MaxWeight
  <2> QED
    BY <1>1, <2>1 DEF AtMost, AtLeast
<1> QED
  BY <1>1, <1>2, <1>3 DEF PrizeNormal, PrizeSettled

LEMMA DefaultPrizesFit == DefaultPrizes \in Prizes
<1> DEFINE first == [amount |-> 2 * Unit, weight |-> 50]
           second == [amount |-> 5 * Unit, weight |-> 20]
<1>1. Money(2 * Unit) = 2 * Unit /\ Money(5 * Unit) = 5 * Unit
  <2>1. Money(Unit * 2) = Unit * 2 /\ Money(Unit * 5) = Unit * 5
    BY MoneyOf
  <2>2. Unit * 2 = 2 * Unit /\ Unit * 5 = 5 * Unit
    BY SettingsAssumption
  <2> QED
    BY <2>1, <2>2
<1>2. /\ 2 * Unit \in Nat /\ 5 * Unit \in Nat
      /\ 2 * Unit \in 0..MaxAmount /\ 5 * Unit \in 0..MaxAmount
  BY SettingsAssumption
<1>3. 2 * Unit \in Whole \cap (0..MaxAmount) /\ 5 * Unit \in Whole \cap (0..MaxAmount)
  BY <1>1, <1>2 DEF Whole
<1>4. 50 \in 0..MaxWeight /\ 20 \in 0..MaxWeight
  <2>1. PICK w \in Nat : w = MaxWeight /\ w >= 50
    BY SMT DEF MaxWeight
  <2> QED
    BY <2>1
<1>5. first \in PrizeSettled /\ second \in PrizeSettled
  BY <1>3, <1>4 DEF PrizeSettled
<1>6. DefaultPrizes = <<first, second>>
  BY DEF DefaultPrizes
<1> HIDE DEF first, second
<1>7. DefaultPrizes \in Seq(PrizeSettled) /\ Len(DefaultPrizes) = 2 /\ DefaultPrizes[1] = first /\ DOMAIN DefaultPrizes = 1..2
  BY <1>5, <1>6
<1>8. first.weight > 0
  BY DEF first
<1>9. Drawable(DefaultPrizes)
  BY <1>7, <1>8 DEF Drawable
<1> QED
  BY <1>7, <1>9 DEF Prizes, PrizeSettled, MaxPrizes

LEMMA PrizesNormal ==
  ASSUME NEW prizes \in Seq([amount : Int, weight : Int])
  PROVE  LET kept == SubSeq(prizes, 1, AtMost(Len(prizes), MaxPrizes))
             clamped == [i \in DOMAIN kept |-> PrizeNormal(kept[i])]
         IN Fallback(clamped, Drawable(clamped), DefaultPrizes) \in Prizes
<1> DEFINE n == AtMost(Len(prizes), MaxPrizes)
           kept == SubSeq(prizes, 1, n)
           clamped == [i \in DOMAIN kept |-> PrizeNormal(kept[i])]
<1>0. Len(prizes) \in Nat
  OBVIOUS
<1>1. n \in Nat /\ n <= MaxPrizes /\ n <= Len(prizes)
  BY <1>0 DEF AtMost, MaxPrizes
<1> HIDE DEF n
<1>2. kept \in Seq([amount : Int, weight : Int]) /\ Len(kept) = n /\ DOMAIN kept = 1..n
  BY <1>1, PrefixIn
<1>3. \A i \in 1..n : PrizeNormal(kept[i]) \in PrizeSettled
  BY <1>2, PrizeNormalSettled
<1> HIDE DEF kept
<1>4. clamped \in Seq(PrizeSettled) /\ Len(clamped) = n
  BY <1>1, <1>2, <1>3
<1>5. ASSUME Drawable(clamped) PROVE clamped \in Prizes
  <2>1. n \in 1..MaxPrizes
    BY <1>1, <1>2, <1>5 DEF Drawable, MaxPrizes
  <2> QED
    BY <1>4, <1>5, <2>1 DEF Prizes, PrizeSettled
<1> HIDE DEF clamped
<1>6. Fallback(clamped, Drawable(clamped), DefaultPrizes) \in Prizes
  BY <1>5, DefaultPrizesFit DEF Fallback
<1> QED
  BY <1>6 DEF clamped, kept, n

LEMMA PrizesKept ==
  ASSUME NEW prizes \in Prizes
  PROVE  LET kept == SubSeq(prizes, 1, AtMost(Len(prizes), MaxPrizes))
             clamped == [i \in DOMAIN kept |-> PrizeNormal(kept[i])]
         IN Fallback(clamped, Drawable(clamped), DefaultPrizes) = prizes
<1>1. prizes \in Seq(PrizeSettled) /\ Len(prizes) \in 1..MaxPrizes /\ Drawable(prizes)
  BY DEF Prizes, PrizeSettled
<1>2. AtMost(Len(prizes), MaxPrizes) = Len(prizes)
  <2>1. PICK m \in Nat : m = MaxPrizes
    BY DEF MaxPrizes
  <2> QED
    BY <1>1, <2>1 DEF AtMost
<1>3. SubSeq(prizes, 1, Len(prizes)) = prizes
  BY <1>1
<1>4. \A i \in DOMAIN prizes : PrizeNormal(prizes[i]) = prizes[i]
  BY <1>1, PrizeNormalKeeps
<1>5. [i \in DOMAIN prizes |-> PrizeNormal(prizes[i])] = prizes
  BY <1>1, <1>4
<1> QED
  BY <1>1, <1>2, <1>3, <1>5 DEF Fallback

LEMMA LotteryNormalSettled == ASSUME NEW s \in LotteryRaw PROVE LotteryNormal(s) \in LotterySettled
<1>1. Money(AtLeast(s.budget, 0)) \in Whole /\ Money(AtLeast(s.cap, 0)) \in Whole
  BY WholeMoney DEF LotteryRaw
<1>2. s.prizes \in Seq([amount : Int, weight : Int])
  BY DEF LotteryRaw
<1> DEFINE kept == SubSeq(s.prizes, 1, AtMost(Len(s.prizes), MaxPrizes))
           clamped == [i \in DOMAIN kept |-> PrizeNormal(kept[i])]
           chosen == Fallback(clamped, Drawable(clamped), DefaultPrizes)
<1>3. chosen \in Prizes
  BY <1>2, PrizesNormal
<1>4. LotteryNormal(s) = [s EXCEPT !.prizes = chosen, !.budget = Money(AtLeast(s.budget, 0)), !.cap = Money(AtLeast(s.cap, 0))]
  BY DEF LotteryNormal, LotteryRaw
<1> HIDE DEF chosen
<1> QED
  BY <1>1, <1>3, <1>4 DEF LotteryRaw, LotterySettled

LEMMA LotteryNormalKeeps == ASSUME NEW s \in LotterySettled PROVE LotteryNormal(s) = s
<1>1. s.budget \in Whole /\ s.cap \in Whole /\ s.prizes \in Prizes
  BY DEF LotterySettled
<1>2. Money(AtLeast(s.budget, 0)) = s.budget /\ Money(AtLeast(s.cap, 0)) = s.cap
  BY <1>1, WholeKept
<1> DEFINE kept == SubSeq(s.prizes, 1, AtMost(Len(s.prizes), MaxPrizes))
           clamped == [i \in DOMAIN kept |-> PrizeNormal(kept[i])]
           chosen == Fallback(clamped, Drawable(clamped), DefaultPrizes)
<1>3. chosen = s.prizes
  BY <1>1, PrizesKept
<1>4. LotteryNormal(s) = [s EXCEPT !.prizes = chosen, !.budget = Money(AtLeast(s.budget, 0)), !.cap = Money(AtLeast(s.cap, 0))]
  BY DEF LotteryNormal, LotterySettled
<1> HIDE DEF chosen
<1> QED
  BY <1>2, <1>3, <1>4 DEF LotterySettled

LEMMA LotterySettledRaw == LotterySettled \subseteq LotteryRaw
<1>1. Whole \subseteq Int
  BY DEF Whole
<1>2. PrizeSettled \subseteq [amount : Int, weight : Int]
  BY <1>1 DEF PrizeSettled
<1>3. Prizes \subseteq Seq([amount : Int, weight : Int])
  <2> SUFFICES ASSUME NEW p \in Prizes PROVE p \in Seq([amount : Int, weight : Int])
    OBVIOUS
  <2>1. p \in Seq(PrizeSettled)
    BY DEF Prizes, PrizeSettled
  <2> QED
    BY <1>2, <2>1, SeqGrows
<1> QED
  BY <1>1, <1>3 DEF LotterySettled, LotteryRaw

LEMMA LotteryOverlay ==
  ASSUME NEW cur \in LotteryRaw, NEW in, WellTyped(in, LotteryFields)
  PROVE  Overlay(cur, in) \in LotteryRaw
BY DEF Overlay, WellTyped, LotteryRaw, LotteryFields

LEMMA LotteryUpdated ==
  ASSUME NEW cur \in LotterySettled, NEW in, WellTyped(in, LotteryFields)
  PROVE  LET u == LotteryUpdate(cur, in)
         IN u.next \in LotterySettled /\ (u.ok => u.kv = u.next)
<1>1. Overlay(cur, in) \in LotteryRaw
  BY LotterySettledRaw, LotteryOverlay
<1>2. LotteryNormal(Overlay(cur, in)) \in LotterySettled
  BY <1>1, LotteryNormalSettled
<1> QED
  BY <1>2 DEF LotteryUpdate, Accepted, Refused

LEMMA LotteryReads ==
  ASSUME NEW kv, WellTyped(kv, LotteryFields)
  PROVE  LotteryReload(kv) \in LotterySettled
<1>1. LotteryDefaults \in LotteryRaw
  <2>1. DefaultPrizes \in Seq([amount : Int, weight : Int])
    BY SettingsAssumption DEF DefaultPrizes
  <2> QED
    BY <2>1 DEF LotteryDefaults, LotteryRaw
<1> DEFINE read == [f \in {g \in DOMAIN kv : g = "prizes" => kv[g] # <<>>} |-> kv[f]]
<1>2. WellTyped(read, LotteryFields)
  BY DEF WellTyped
<1> HIDE DEF read
<1>3. Overlay(LotteryDefaults, read) \in LotteryRaw
  BY <1>1, <1>2, LotteryOverlay
<1>4. LotteryNormal(Overlay(LotteryDefaults, read)) \in LotterySettled
  BY <1>3, LotteryNormalSettled
<1> QED
  BY <1>4 DEF LotteryReload, read

LEMMA LotteryReadsBack == ASSUME NEW s \in LotterySettled PROVE LotteryReload(s) = s
<1>1. s.prizes # <<>>
  BY DEF LotterySettled, Prizes
<1>2. {g \in DOMAIN s : g = "prizes" => s[g] # <<>>} = DOMAIN s
  BY <1>1 DEF LotterySettled
<1>3. Overlay(LotteryDefaults, [f \in {g \in DOMAIN s : g = "prizes" => s[g] # <<>>} |-> s[f]]) = s
  BY <1>2 DEF Overlay, LotteryDefaults, LotterySettled
<1> QED
  BY <1>3, LotteryNormalKeeps DEF LotteryReload

LEMMA LotterySwitched ==
  ASSUME NEW cur \in LotterySettled, NEW on \in BOOLEAN
  PROVE  LotteryUpdate(cur, [enabled |-> on]).next \in {cur, [cur EXCEPT !.enabled = on]}
<1>1. Overlay(cur, [enabled |-> on]) = [cur EXCEPT !.enabled = on]
  BY DEF Overlay, LotterySettled
<1>2. [cur EXCEPT !.enabled = on] \in LotterySettled
  BY DEF LotterySettled
<1>3. LotteryNormal([cur EXCEPT !.enabled = on]) = [cur EXCEPT !.enabled = on]
  BY <1>2, LotteryNormalKeeps
<1> QED
  BY <1>1, <1>3 DEF LotteryUpdate, Accepted, Refused

\* Task centre.
TaskDef == [id : Texts, kind : Texts, target : Int, period : Texts, reward : Int]
TaskRaw == [enabled : BOOLEAN, defs : Seq(TaskDef)]

LEMMA DefNormalTyped ==
  ASSUME NEW d \in TaskDef
  PROVE  DefNormal(d) \in TaskDef /\ (DefValid(DefNormal(d)) => DefSettled(DefNormal(d)))
<1> DEFINE target == IF d.kind \in {"daily_checkin", "daily_lottery"} THEN 1 ELSE AtLeast(d.target, 1)
           period == Fallback(d.period, d.period # "", PeriodOf(d.kind))
           e == DefNormal(d)
<1>1. target \in Nat \ {0} /\ (d.kind \in {"daily_checkin", "daily_lottery"} => target = 1)
  BY DEF TaskDef, AtLeast
<1>2. PeriodOf(d.kind) \in Texts
  BY TextsAssumption DEF PeriodOf
<1>3. period \in Texts
  BY <1>2 DEF TaskDef, Fallback
<1>4. e = [d EXCEPT !.target = target, !.period = period]
  BY DEF DefNormal, TaskDef
<1> HIDE DEF target, period
<1>5. e = [id |-> d.id, kind |-> d.kind, target |-> target, period |-> period, reward |-> d.reward]
  BY <1>4 DEF TaskDef
<1>6. e \in TaskDef
  BY <1>1, <1>3, <1>5 DEF TaskDef
<1>7. ASSUME DefValid(e) PROVE DefSettled(e)
  <2>1. e.id # "" /\ e.kind \in Kinds /\ e.reward >= 0 /\ e.period \in Periods
    BY <1>7 DEF DefValid
  <2>a. e.id = d.id /\ e.kind = d.kind /\ e.reward = d.reward /\ e.period = period
    BY <1>5
  <2>b. d.id \in Texts /\ d.reward \in Int
    BY DEF TaskDef
  <2>2. d.id \in Words
    BY <2>1, <2>a, <2>b DEF Words
  <2>c. d.reward \in Int /\ d.reward >= 0
    BY <2>1, <2>a, <2>b
  <2>d. d.reward \in Nat
    BY <2>c
  <2>3. d.kind \in Kinds /\ d.reward \in Nat /\ period \in Periods
    BY <2>1, <2>a, <2>d
  <2>4. e \in [id : Words, kind : Kinds, target : Nat \ {0}, period : Periods, reward : Nat]
    BY <1>1, <1>5, <2>2, <2>3
  <2>5. e.kind \in {"daily_checkin", "daily_lottery"} => e.target = 1
    BY <1>1, <1>5
  <2> QED
    BY <2>4, <2>5 DEF DefSettled
<1> QED
  BY <1>6, <1>7

LEMMA DefNormalKeeps == ASSUME NEW d, DefSettled(d) PROVE DefNormal(d) = d
<1>1. d \in [id : Words, kind : Kinds, target : Nat \ {0}, period : Periods, reward : Nat]
  BY DEF DefSettled
<1>2. d.period # ""
  BY <1>1 DEF Periods
<1>3. Fallback(d.period, d.period # "", PeriodOf(d.kind)) = d.period
  BY <1>2 DEF Fallback
<1>4. (IF d.kind \in {"daily_checkin", "daily_lottery"} THEN 1 ELSE AtLeast(d.target, 1)) = d.target
  BY <1>1 DEF DefSettled, AtLeast
<1> QED
  BY <1>1, <1>3, <1>4 DEF DefNormal

LEMMA TaskNormalSettled ==
  ASSUME NEW s \in TaskRaw, TaskValid(TaskNormal(s)) PROVE TaskNormal(s) \in TaskSettled
<1> DEFINE defs == [i \in DOMAIN s.defs |-> DefNormal(s.defs[i])]
<1>1. s.defs \in Seq(TaskDef) /\ s.enabled \in BOOLEAN
  BY DEF TaskRaw
<1>2. TaskNormal(s) = [enabled |-> s.enabled, defs |-> defs]
  BY DEF TaskNormal, TaskRaw
<1>3. \A i \in DOMAIN s.defs : DefNormal(s.defs[i]) \in TaskDef
  BY <1>1, DefNormalTyped
<1>4. defs \in Seq(TaskDef)
  BY <1>1, <1>3
<1>5. \A i \in DOMAIN defs : DefValid(DefNormal(s.defs[i]))
  BY <1>2 DEF TaskValid
<1>6. \A i \in DOMAIN defs : DefSettled(defs[i])
  BY <1>1, <1>5, DefNormalTyped
<1> HIDE DEF defs
<1>7. TaskNormal(s) \in [enabled : BOOLEAN, defs : Seq(TaskDef)]
  BY <1>1, <1>2, <1>4
<1>8. \A i \in DOMAIN TaskNormal(s).defs : DefSettled(TaskNormal(s).defs[i])
  BY <1>2, <1>6
<1> QED
  BY <1>7, <1>8 DEF TaskSettled, TaskDef

LEMMA TaskSettledIs ==
  ASSUME NEW s \in TaskSettled
  PROVE  s \in TaskRaw /\ TaskValid(s) /\ \A i \in DOMAIN s.defs : DefSettled(s.defs[i])
BY DEF TaskSettled, TaskRaw, TaskDef

LEMMA TaskNormalKeeps == ASSUME NEW s \in TaskSettled PROVE TaskNormal(s) = s
<1>1. s \in TaskRaw /\ \A i \in DOMAIN s.defs : DefNormal(s.defs[i]) = s.defs[i]
  BY TaskSettledIs, DefNormalKeeps
<1>2. s.defs \in Seq(TaskDef)
  BY <1>1 DEF TaskRaw
<1>3. [i \in DOMAIN s.defs |-> DefNormal(s.defs[i])] = s.defs
  BY <1>1, <1>2
<1> QED
  BY <1>1, <1>3 DEF TaskNormal, TaskRaw

LEMMA TaskUpdated ==
  ASSUME NEW cur \in TaskSettled, NEW in, WellTyped(in, TaskFields)
  PROVE  LET u == TaskUpdate(cur, in)
         IN u.next \in TaskSettled /\ (u.ok => u.kv = u.next)
<1>1. cur \in TaskRaw
  BY TaskSettledIs
<1>2. Overlay(cur, in) \in TaskRaw
  <2>1. TaskFields = [enabled |-> BOOLEAN, defs |-> Seq(TaskDef)]
    BY DEF TaskFields, TaskDef
  <2> QED
    BY <1>1, <2>1 DEF Overlay, WellTyped, TaskRaw
<1> QED
  BY <1>2, TaskNormalSettled DEF TaskUpdate, Accepted, Refused

LEMMA TaskDefaultsSettled == TaskDefaults \in TaskSettled
<1> DEFINE d == [id |-> "d", kind |-> "daily_checkin", target |-> 1, period |-> "daily", reward |-> 0]
           e == [id |-> "s", kind |-> "streak", target |-> 3, period |-> "once", reward |-> 0]
<1>1. "d" \in Words /\ "s" \in Words /\ "daily_checkin" \in Texts /\ "streak" \in Texts /\ "daily" \in Texts /\ "once" \in Texts
  BY TextsAssumption DEF Words
<1>2. d \in TaskDef /\ e \in TaskDef
  BY <1>1 DEF TaskDef, Words
<1>3. DefSettled(d) /\ DefSettled(e)
  BY <1>1 DEF DefSettled, Kinds, Periods
<1>4. DefValid(d) /\ DefValid(e) /\ d.id # e.id
  BY DEF DefValid, Kinds, Periods
<1>5. TaskDefaults = [enabled |-> TRUE, defs |-> <<d, e>>]
  BY DEF TaskDefaults
<1> HIDE DEF d, e
<1>6. <<d, e>> \in Seq(TaskDef) /\ DOMAIN <<d, e>> = {1, 2} /\ <<d, e>>[1] = d /\ <<d, e>>[2] = e
  BY <1>2
<1>7. TaskValid(TaskDefaults)
  BY <1>4, <1>5, <1>6 DEF TaskValid
<1>8. \A i \in DOMAIN TaskDefaults.defs : DefSettled(TaskDefaults.defs[i])
  BY <1>3, <1>5, <1>6
<1>9. TaskDefaults \in [enabled : BOOLEAN, defs : Seq(TaskDef)]
  BY <1>5, <1>6
<1> QED
  BY <1>7, <1>8, <1>9 DEF TaskSettled, TaskDef

LEMMA TaskReads ==
  ASSUME NEW kv, DOMAIN kv = {} \/ kv \in TaskSettled
  PROVE  TaskReload(kv) \in TaskSettled
BY TaskNormalKeeps, TaskDefaultsSettled DEF TaskReload

LEMMA TaskReadsBack == ASSUME NEW s \in TaskSettled PROVE TaskReload(s) = s
<1>1. DOMAIN s # {} /\ TaskValid(s)
  BY TaskSettledIs DEF TaskRaw
<1> QED
  BY <1>1, TaskNormalKeeps DEF TaskReload

LEMMA TaskSwitched ==
  ASSUME NEW cur \in TaskSettled, NEW on \in BOOLEAN
  PROVE  TaskUpdate(cur, [enabled |-> on]).next \in {cur, [cur EXCEPT !.enabled = on]}
<1>1. cur \in TaskRaw
  BY TaskSettledIs
<1>2. Overlay(cur, [enabled |-> on]) = [cur EXCEPT !.enabled = on]
  BY <1>1 DEF Overlay, TaskRaw
<1>3. [cur EXCEPT !.enabled = on] \in TaskRaw /\ [cur EXCEPT !.enabled = on].defs = cur.defs
  BY <1>1 DEF TaskRaw
<1>4. [cur EXCEPT !.enabled = on] \in TaskSettled
  BY <1>3, TaskSettledIs DEF TaskSettled, TaskRaw, TaskDef, TaskValid
<1>5. TaskNormal([cur EXCEPT !.enabled = on]) = [cur EXCEPT !.enabled = on]
  BY <1>4, TaskNormalKeeps
<1> QED
  BY <1>2, <1>5 DEF TaskUpdate, Accepted, Refused

-----------------------------------------------------------------------------
(***************************************************************************)
(* Redistribution.  The places picked from a sequence, in order.            *)
(***************************************************************************)
UpTo(K, x) == Cardinality({j \in K : j <= x})

LEMMA UpToGrows ==
  ASSUME NEW K, IsFiniteSet(K), K \subseteq Nat, NEW x \in Nat
  PROVE  /\ UpTo(K, x) \in Nat
         /\ UpTo(K, x + 1) = IF x + 1 \in K THEN UpTo(K, x) + 1 ELSE UpTo(K, x)
<1> DEFINE A == {j \in K : j <= x}
           B == {j \in K : j <= x + 1}
<1>1. IsFiniteSet(A) /\ Cardinality(A) \in Nat
  BY FS_Subset, FS_CardinalityType
<1>2. x + 1 \notin A
  OBVIOUS
<1>3. CASE x + 1 \in K
  <2>1. B = A \cup {x + 1}
    <3>1. \A j \in K : j <= x + 1 <=> (j <= x \/ j = x + 1)
      OBVIOUS
    <3> QED
      BY <1>3, <3>1
  <2> HIDE DEF A, B
  <2>2. Cardinality(B) = Cardinality(A) + 1
    BY <1>1, <1>2, <2>1, FS_AddElement
  <2> QED
    BY <1>1, <1>3, <2>2 DEF UpTo, A, B
<1>4. CASE x + 1 \notin K
  <2>1. B = A
    <3>1. \A j \in K : j <= x + 1 <=> (j <= x \/ j = x + 1)
      OBVIOUS
    <3>2. \A j \in K : j # x + 1
      BY <1>4
    <3> QED
      BY <3>1, <3>2
  <2> HIDE DEF A, B
  <2> QED
    BY <1>1, <1>4, <2>1 DEF UpTo, A, B
<1> QED
  BY <1>3, <1>4

\* The n-th of them is there.
LEMMA RankedPlace ==
  ASSUME NEW m \in Nat, NEW K \in SUBSET (1..m), NEW n \in 1..Cardinality(K)
  PROVE  \E i \in K : UpTo(K, i) = n
<1>1. IsFiniteSet(K) /\ Cardinality(K) \in Nat /\ K \subseteq Nat
  <2>1. IsFiniteSet(1..m)
    BY FS_Interval
  <2>2. IsFiniteSet(K)
    BY <2>1, FS_Subset
  <2>3. Cardinality(K) \in Nat
    BY <2>2, FS_CardinalityType
  <2> QED
    BY <2>2, <2>3
<1>a. n \in Nat /\ 1 <= n /\ n <= Cardinality(K)
  BY <1>1
<1> DEFINE enough == {x \in Nat : UpTo(K, x) >= n}
<1>2. m \in enough
  <2>1. {j \in K : j <= m} = K
    <3>1. \A j \in K : j <= m
      OBVIOUS
    <3> QED
      BY <3>1
  <2>2. UpTo(K, m) = Cardinality(K)
    BY <2>1 DEF UpTo
  <2> QED
    BY <1>a, <1>1, <2>2
<1>3. PICK x \in enough : \A y \in enough : ~(y < x)
  <2> DEFINE less == {p \in Nat \X Nat : p[1] < p[2]}
  <2>1. IsWellFoundedOn(less, Nat)
    BY NatLessThanWellFounded DEF OpToRel
  <2>2. enough \subseteq Nat /\ enough # {}
    BY <1>2
  <2>3. PICK x \in enough : \A y \in enough : ~(<<y, x>> \in less)
    <3> HIDE DEF less, enough
    <3> QED
      BY <2>1, <2>2, WFMin
  <2>4. \A y \in enough : ~(y < x)
    BY <2>3
  <2> QED
    BY <2>4
<1>4. x \in Nat /\ UpTo(K, x) >= n
  OBVIOUS
<1>5. x # 0
  <2>0. \A j \in K : ~(j <= 0)
    OBVIOUS
  <2>1. {j \in K : j <= 0} = {}
    BY <2>0
  <2>2. UpTo(K, 0) = 0
    BY <2>1, FS_EmptySet DEF UpTo
  <2> QED
    BY <1>a, <1>4, <2>2
<1>6. PICK y \in Nat : x = y + 1
  BY <1>4, <1>5
<1>7. y \notin enough
  BY <1>3, <1>6
<1>8. UpTo(K, y) \in Nat /\ UpTo(K, y + 1) = IF y + 1 \in K THEN UpTo(K, y) + 1 ELSE UpTo(K, y)
  BY <1>1, UpToGrows
<1>b. UpTo(K, y) < n
  BY <1>a, <1>7, <1>8
<1>9. x \in K /\ UpTo(K, x) = n
  BY <1>a, <1>4, <1>6, <1>8, <1>b
<1> QED
  BY <1>9

LEMMA PickedFrom ==
  ASSUME NEW S, NEW s \in Seq(S), NEW K \in SUBSET (DOMAIN s)
  PROVE  /\ Cardinality(K) \in Nat /\ (Cardinality(K) = 0 <=> K = {})
         /\ DOMAIN Picked(s, K) = 1..Cardinality(K)
         /\ \A n \in 1..Cardinality(K) : \E i \in K : Picked(s, K)[n] = s[i]
<1>1. PICK m \in Nat : DOMAIN s = 1..m
  OBVIOUS
<1>2. IsFiniteSet(K) /\ Cardinality(K) \in Nat
  <2>1. IsFiniteSet(1..m)
    BY FS_Interval
  <2> QED
    BY <1>1, <2>1, FS_Subset, FS_CardinalityType
<1>3. ASSUME NEW n \in 1..Cardinality(K) PROVE \E i \in K : Picked(s, K)[n] = s[i]
  <2>1. \E i \in K : Cardinality({j \in K : j <= i}) = n
    BY <1>1, RankedPlace DEF UpTo
  <2> DEFINE i == CHOOSE i \in K : Cardinality({j \in K : j <= i}) = n
  <2>2. i \in K
    BY <2>1
  <2>3. Picked(s, K)[n] = s[i]
    BY DEF Picked
  <2> QED
    BY <2>2, <2>3
<1> QED
  BY <1>2, <1>3, FS_EmptySet DEF Picked

LEMMA PickedAll == ASSUME NEW S, NEW s \in Seq(S) PROVE Picked(s, DOMAIN s) = s
<1>1. PICK m \in Nat : DOMAIN s = 1..m /\ s = [n \in 1..m |-> s[n]]
  OBVIOUS
<1>0. \A k \in Nat : Cardinality(1..k) = k
  <2> TAKE k \in Nat
  <2>1. Cardinality(1..k) = IF 1 > k THEN 0 ELSE k - 1 + 1
    BY FS_Interval
  <2> QED
    BY <2>1
<1>2. Cardinality(DOMAIN s) = m
  BY <1>0, <1>1
<1>3. ASSUME NEW i \in 1..m PROVE Cardinality({j \in 1..m : j <= i}) = i
  <2>1. {j \in 1..m : j <= i} = 1..i
    OBVIOUS
  <2>2. i \in Nat
    OBVIOUS
  <2> QED
    BY <1>0, <2>1, <2>2
<1>4. ASSUME NEW n \in 1..m PROVE Picked(s, DOMAIN s)[n] = s[n]
  <2>1. Picked(s, DOMAIN s)[n] = s[CHOOSE i \in 1..m : Cardinality({j \in 1..m : j <= i}) = n]
    BY <1>1, <1>2 DEF Picked
  <2>2. \A i \in 1..m : Cardinality({j \in 1..m : j <= i}) = n <=> i = n
    BY <1>3
  <2>3. (CHOOSE i \in 1..m : Cardinality({j \in 1..m : j <= i}) = n) = n
    BY <2>2
  <2> QED
    BY <2>1, <2>3
<1>5. Picked(s, DOMAIN s) = [n \in 1..m |-> Picked(s, DOMAIN s)[n]]
  BY <1>2 DEF Picked
<1> QED
  BY <1>1, <1>4, <1>5

RuleLike(default) == [type : Known(default), on : BOOLEAN, days : Nat]

LEMMA RulesLikeIs ==
  ASSUME NEW default
  PROVE  RulesLike(default) = Seq(RuleLike(default)) \ {<<>>}
BY DEF RulesLike, RuleLike

\* What is known stays, and the default rules stand in for none.
LEMMA RulesNormalLike ==
  ASSUME NEW default, default \in RulesLike(default), NEW rules \in Seq(Rule)
  PROVE  RulesNormal(rules, default) \in RulesLike(default)
<1> DEFINE K == {i \in DOMAIN rules : rules[i].type \in Known(default)}
           known == Picked(rules, K)
           clamped == [i \in DOMAIN known |-> [known[i] EXCEPT !.days = AtLeast(@, 0)]]
<1>1. /\ Cardinality(K) \in Nat
      /\ DOMAIN known = 1..Cardinality(K)
      /\ \A n \in 1..Cardinality(K) : \E i \in K : known[n] = rules[i]
  <2>1. K \in SUBSET (DOMAIN rules)
    OBVIOUS
  <2> HIDE DEF K
  <2> QED
    BY <2>1, PickedFrom
<1>2. ASSUME NEW n \in 1..Cardinality(K) PROVE [known[n] EXCEPT !.days = AtLeast(@, 0)] \in RuleLike(default)
  <2>1. PICK i \in K : known[n] = rules[i]
    BY <1>1
  <2>a. rules[i] \in Rule /\ rules[i].type \in Known(default)
    OBVIOUS
  <2>2. PICK r \in Rule : r = known[n] /\ r.type \in Known(default)
    BY <2>1, <2>a
  <2>3. AtLeast(r.days, 0) \in Nat
    BY DEF Rule, AtLeast
  <2>4. [r EXCEPT !.days = AtLeast(r.days, 0)] \in RuleLike(default)
    BY <2>2, <2>3 DEF Rule, RuleLike
  <2>5. [r EXCEPT !.days = AtLeast(@, 0)] = [r EXCEPT !.days = AtLeast(r.days, 0)]
    BY DEF Rule
  <2> QED
    BY <2>2, <2>4, <2>5
<1>3. RulesNormal(rules, default) = Fallback(clamped, known # <<>>, default)
  BY DEF RulesNormal
<1> HIDE DEF known, K
<1>4. clamped \in Seq(RuleLike(default)) /\ Len(clamped) = Cardinality(K)
  BY <1>1, <1>2
<1>5. known # <<>> => Cardinality(K) # 0
  <2>1. known = [n \in 1..Cardinality(K) |-> known[n]]
    BY <1>1 DEF known, Picked
  <2> QED
    BY <2>1
<1>6. known # <<>> => clamped \in RulesLike(default)
  <2> HIDE DEF clamped
  <2> QED
    BY <1>4, <1>5, RulesLikeIs
<1> HIDE DEF clamped
<1> QED
  BY <1>3, <1>6 DEF Fallback

LEMMA RulesNormalKeeps ==
  ASSUME NEW default, NEW rules \in RulesLike(default)
  PROVE  RulesNormal(rules, default) = rules
<1>1. rules \in Seq(RuleLike(default)) /\ rules # <<>>
  BY RulesLikeIs
<1>2. \A i \in DOMAIN rules : rules[i] \in RuleLike(default)
  BY <1>1
<1>3. {i \in DOMAIN rules : rules[i].type \in Known(default)} = DOMAIN rules
  BY <1>2 DEF RuleLike
<1>4. Picked(rules, {i \in DOMAIN rules : rules[i].type \in Known(default)}) = rules
  BY <1>1, <1>3, PickedAll
<1>5. ASSUME NEW r \in RuleLike(default) PROVE [r EXCEPT !.days = AtLeast(@, 0)] = r
  <2>1. AtLeast(r.days, 0) = r.days
    BY DEF RuleLike, AtLeast
  <2> QED
    BY <2>1 DEF RuleLike
<1>6. [i \in DOMAIN rules |-> [rules[i] EXCEPT !.days = AtLeast(@, 0)]] = rules
  BY <1>1, <1>2, <1>5
<1> QED
  BY <1>1, <1>4, <1>6 DEF RulesNormal, Fallback

\* Reading gives days to rules that have none, and leaves the rules that count.
LEMMA RulesReadLike ==
  ASSUME NEW default, default \in RulesLike(default), NEW rules \in RulesLike(default), RulesValid(rules)
  PROVE  RulesRead(rules, default) \in RulesLike(default) /\ Enabled(RulesRead(rules, default)) = Enabled(rules)
<1> DEFINE read == RulesRead(rules, default)
<1>1. /\ rules \in Seq(RuleLike(default)) /\ rules # <<>>
      /\ default \in Seq(RuleLike(default))
  BY RulesLikeIs
<1>2. DOMAIN read = DOMAIN rules
  BY DEF RulesRead
<1>3. ASSUME NEW i \in DOMAIN rules PROVE read[i] \in RuleLike(default) /\ read[i].on = rules[i].on
  <2>1. rules[i] \in RuleLike(default) /\ (i \in DOMAIN default => default[i] \in RuleLike(default))
    BY <1>1
  <2>2. read[i] = IF rules[i].days = 0 /\ i \in DOMAIN default
                  THEN [rules[i] EXCEPT !.days = default[i].days] ELSE rules[i]
    BY DEF RulesRead
  <2> QED
    BY <2>1, <2>2 DEF RuleLike
<1>4. read \in Seq(RuleLike(default))
  <2>1. read = [i \in DOMAIN rules |-> read[i]]
    BY DEF RulesRead
  <2> HIDE DEF read
  <2> QED
    BY <1>1, <1>2, <1>3, <2>1
<1>5. read # <<>>
  BY <1>1, <1>2
<1>6. ASSUME NEW i \in DOMAIN rules, rules[i].on PROVE read[i] = rules[i]
  <2>1. rules[i] \in Enabled(rules)
    BY <1>6 DEF Enabled
  <2>2. rules[i].days > 0
    BY <2>1 DEF RulesValid
  <2> QED
    BY <2>2, <1>1 DEF RulesRead, RuleLike
<1> HIDE DEF read
<1>7. Enabled(read) = Enabled(rules)
  BY <1>2, <1>3, <1>6 DEF Enabled
<1>8. read \in RulesLike(default)
  BY <1>4, <1>5, RulesLikeIs
<1> QED
  BY <1>7, <1>8 DEF read

ReclaimRaw == [mode : Texts, value : Int, reserve : Int, min : Int, max : Int]
DrawRaw == [mode : Texts, fixed : Int, min : Int, max : Int]
AllocationRaw == [mode : Texts, fixed : Int, equal : Int, limit : Int]

RedistributionRaw ==
    [enabled : BOOLEAN, auto : BOOLEAN, cron : Texts, zone : Texts, inactive : Seq(Rule), active : Seq(Rule),
     protected : Int, excluded : SUBSET Int, reclaim : ReclaimRaw, claim : Texts, poolDays : Int,
     draw : DrawRaw, allocation : AllocationRaw, failPercent : Int, keep : Int]

LEMMA DefaultRulesLike == InactiveRules \in RulesLike(InactiveRules) /\ ActiveRules \in RulesLike(ActiveRules)
<1> DEFINE i1 == [type |-> "no_active_days", on |-> TRUE, days |-> 60]
           i2 == [type |-> "no_usage_days", on |-> TRUE, days |-> 60]
           a1 == [type |-> "active_within_days", on |-> TRUE, days |-> 30]
           a2 == [type |-> "used_within_days", on |-> TRUE, days |-> 30]
<1>1. InactiveRules = <<i1, i2>> /\ ActiveRules = <<a1, a2>>
  BY DEF InactiveRules, ActiveRules
<1>a. i1.type = "no_active_days" /\ i2.type = "no_usage_days" /\ a1.type = "active_within_days" /\ a2.type = "used_within_days"
  OBVIOUS
<1>2. ASSUME NEW r, NEW q, NEW p \in Known(<<r, q>>) PROVE p = r.type \/ p = q.type
  BY DEF Known
<1>3. ASSUME NEW r, NEW q PROVE r.type \in Known(<<r, q>>) /\ q.type \in Known(<<r, q>>)
  <2>1. DOMAIN <<r, q>> = 1..2 /\ <<r, q>>[1] = r /\ <<r, q>>[2] = q
    OBVIOUS
  <2> QED
    BY <2>1 DEF Known
<1>4. /\ i1 \in RuleLike(InactiveRules) /\ i2 \in RuleLike(InactiveRules)
      /\ a1 \in RuleLike(ActiveRules) /\ a2 \in RuleLike(ActiveRules)
  <2>1. /\ i1.type \in Known(InactiveRules) /\ i2.type \in Known(InactiveRules)
        /\ a1.type \in Known(ActiveRules) /\ a2.type \in Known(ActiveRules)
    BY <1>1, <1>3
  <2> QED
    BY <1>a, <2>1 DEF RuleLike
<1> HIDE DEF i1, i2, a1, a2
<1>5. InactiveRules \in Seq(RuleLike(InactiveRules)) /\ ActiveRules \in Seq(RuleLike(ActiveRules))
  BY <1>1, <1>4
<1>6. InactiveRules # <<>> /\ ActiveRules # <<>>
  BY <1>1
<1> QED
  BY <1>5, <1>6, RulesLikeIs

LEMMA LimitIn ==
  ASSUME NEW x \in Int, NEW m \in Nat, NEW d \in Nat \ {0}, d <= m
  PROVE  Fallback(AtMost(x, m), x > 0, d) \in Limits(m)
BY DEF AtMost, Fallback, Limits

LEMMA LimitKept ==
  ASSUME NEW m \in Nat, NEW x \in Limits(m), NEW d PROVE Fallback(AtMost(x, m), x > 0, d) = x
BY DEF AtMost, Fallback, Limits

LEMMA PartsSettled ==
  /\ \A r \in ReclaimRaw : ReclaimNormal(r) \in ReclaimSettled
  /\ \A r \in DrawRaw : DrawNormal(r) \in DrawSettled
  /\ \A r \in AllocationRaw : AllocationNormal(r) \in AllocationSettled
<1>1. ASSUME NEW x \in Int PROVE AtLeast(x, 0) \in Nat
  BY DEF AtLeast
<1>2. ASSUME NEW r \in ReclaimRaw PROVE ReclaimNormal(r) \in ReclaimSettled
  <2>1. Fallback(r.mode, r.mode \in {"fixed", "percent", "excess"}, "fixed") \in {"fixed", "percent", "excess"}
    BY DEF Fallback
  <2>2. AtLeast(r.value, 0) \in Nat /\ AtLeast(r.reserve, 0) \in Nat /\ AtLeast(r.min, 0) \in Nat /\ AtLeast(r.max, 0) \in Nat
    BY <1>1 DEF ReclaimRaw
  <2> QED
    BY <2>1, <2>2 DEF ReclaimNormal, ReclaimSettled
<1>3. ASSUME NEW r \in DrawRaw PROVE DrawNormal(r) \in DrawSettled
  <2>1. Fallback(r.mode, r.mode \in {"fixed", "random", "active_share"}, "active_share") \in {"fixed", "random", "active_share"}
    BY DEF Fallback
  <2>2. AtLeast(r.fixed, 0) \in Nat /\ AtLeast(r.min, 0) \in Nat /\ AtLeast(r.max, 0) \in Nat
    BY <1>1 DEF DrawRaw
  <2> QED
    BY <2>1, <2>2 DEF DrawNormal, DrawSettled
<1>4. ASSUME NEW r \in AllocationRaw PROVE AllocationNormal(r) \in AllocationSettled
  <2>1. Fallback(r.mode, r.mode \in {"equal", "fixed", "usage", "mixed"}, "mixed") \in {"equal", "fixed", "usage", "mixed"}
    BY DEF Fallback
  <2>a. r.fixed \in Int /\ r.equal \in Int /\ r.limit \in Int
    BY DEF AllocationRaw
  <2>2. AtLeast(r.fixed, 0) \in Nat
    BY <1>1, <2>a
  <2>3. AtMost(AtLeast(r.equal, 0), 100) \in 0..100
    BY <2>a DEF AtMost, AtLeast
  <2>4. Fallback(AtMost(r.limit, 5000), r.limit > 0, 100) \in Limits(5000)
    BY <2>a, LimitIn
  <2> QED
    BY <2>1, <2>2, <2>3, <2>4 DEF AllocationNormal, AllocationSettled
<1> QED
  BY <1>2, <1>3, <1>4

LEMMA PartsKept ==
  /\ \A r \in ReclaimSettled : ReclaimNormal(r) = r
  /\ \A r \in DrawSettled : DrawNormal(r) = r
  /\ \A r \in AllocationSettled : AllocationNormal(r) = r
<1>1. ASSUME NEW x \in Nat PROVE AtLeast(x, 0) = x
  BY DEF AtLeast
<1>2. ASSUME NEW r \in ReclaimSettled PROVE ReclaimNormal(r) = r
  <2>1. Fallback(r.mode, r.mode \in {"fixed", "percent", "excess"}, "fixed") = r.mode
    BY DEF Fallback, ReclaimSettled
  <2>2. AtLeast(r.value, 0) = r.value /\ AtLeast(r.reserve, 0) = r.reserve /\ AtLeast(r.min, 0) = r.min /\ AtLeast(r.max, 0) = r.max
    BY <1>1 DEF ReclaimSettled
  <2> QED
    BY <2>1, <2>2 DEF ReclaimNormal, ReclaimSettled
<1>3. ASSUME NEW r \in DrawSettled PROVE DrawNormal(r) = r
  <2>1. Fallback(r.mode, r.mode \in {"fixed", "random", "active_share"}, "active_share") = r.mode
    BY DEF Fallback, DrawSettled
  <2>2. AtLeast(r.fixed, 0) = r.fixed /\ AtLeast(r.min, 0) = r.min /\ AtLeast(r.max, 0) = r.max
    BY <1>1 DEF DrawSettled
  <2> QED
    BY <2>1, <2>2 DEF DrawNormal, DrawSettled
<1>4. ASSUME NEW r \in AllocationSettled PROVE AllocationNormal(r) = r
  <2>1. Fallback(r.mode, r.mode \in {"equal", "fixed", "usage", "mixed"}, "mixed") = r.mode
    BY DEF Fallback, AllocationSettled
  <2>a. r.fixed \in Nat /\ r.equal \in 0..100
    BY DEF AllocationSettled
  <2>2. AtLeast(r.fixed, 0) = r.fixed
    BY <1>1, <2>a
  <2>3. AtMost(AtLeast(r.equal, 0), 100) = r.equal
    BY <2>a DEF AtMost, AtLeast
  <2>4. Fallback(AtMost(r.limit, 5000), r.limit > 0, 100) = r.limit
    <3>1. r.limit \in Limits(5000)
      BY DEF AllocationSettled
    <3> QED
      BY <3>1, LimitKept
  <2> QED
    BY <2>1, <2>2, <2>3, <2>4 DEF AllocationNormal, AllocationSettled
<1> QED
  BY <1>2, <1>3, <1>4

LEMMA RedistributionNormalSettled ==
  ASSUME NEW s \in RedistributionRaw PROVE RedistributionNormal(s) \in RedistributionSettled
<1>1. Fallback(s.cron, s.cron # "", "monthly") \in Words /\ Fallback(s.zone, s.zone # "", "Shanghai") \in Words
  <2>1. "monthly" \in Words /\ "Shanghai" \in Words
    BY TextsAssumption DEF Words
  <2> QED
    BY <2>1 DEF RedistributionRaw, Fallback, Words
<1>2. /\ RulesNormal(s.inactive, InactiveRules) \in RulesLike(InactiveRules)
      /\ RulesNormal(s.active, ActiveRules) \in RulesLike(ActiveRules)
  <2>1. s.inactive \in Seq(Rule) /\ s.active \in Seq(Rule)
    BY DEF RedistributionRaw
  <2> QED
    BY <2>1, RulesNormalLike, DefaultRulesLike
<1>3. {u \in s.excluded : u > 0} \in SUBSET (Nat \ {0})
  <2>1. s.excluded \subseteq Int
    BY DEF RedistributionRaw
  <2>2. \A u \in Int : u > 0 => u \in Nat \ {0}
    OBVIOUS
  <2> QED
    BY <2>1, <2>2
<1>4. /\ ReclaimNormal(s.reclaim) \in ReclaimSettled
      /\ DrawNormal(s.draw) \in DrawSettled
      /\ AllocationNormal(s.allocation) \in AllocationSettled
  BY PartsSettled DEF RedistributionRaw
<1>5. Fallback(s.claim, s.claim \in {"auto", "claim"}, "auto") \in {"auto", "claim"}
  BY DEF Fallback
<1>6. s.protected \in Int /\ s.poolDays \in Int /\ s.failPercent \in Int /\ s.keep \in Int
  BY DEF RedistributionRaw
<1>7. /\ AtLeast(s.protected, 0) \in Nat
      /\ Fallback(s.poolDays, s.poolDays > 0, 7) \in Nat \ {0}
      /\ AtMost(AtLeast(s.failPercent, 0), 100) \in 0..100
      /\ Fallback(AtMost(s.keep, 500), s.keep > 0, 50) \in Limits(500)
  <2>1. AtLeast(s.protected, 0) \in Nat /\ Fallback(s.poolDays, s.poolDays > 0, 7) \in Nat \ {0}
    BY <1>6 DEF AtLeast, Fallback
  <2>2. AtMost(AtLeast(s.failPercent, 0), 100) \in 0..100
    BY <1>6 DEF AtMost, AtLeast
  <2>3. Fallback(AtMost(s.keep, 500), s.keep > 0, 50) \in Limits(500)
    BY <1>6, LimitIn
  <2> QED
    BY <2>1, <2>2, <2>3
<1>8. s.enabled \in BOOLEAN /\ s.auto \in BOOLEAN
  BY DEF RedistributionRaw
<1> QED
  BY <1>1, <1>2, <1>3, <1>4, <1>5, <1>7, <1>8 DEF RedistributionNormal, RedistributionSettled

LEMMA RedistributionSettledRaw == RedistributionSettled \subseteq RedistributionRaw
<1>1. /\ ReclaimSettled \subseteq ReclaimRaw /\ DrawSettled \subseteq DrawRaw /\ AllocationSettled \subseteq AllocationRaw
  <2>1. /\ {"fixed", "percent", "excess"} \subseteq Texts /\ {"fixed", "random", "active_share"} \subseteq Texts
        /\ {"equal", "fixed", "usage", "mixed"} \subseteq Texts
    BY TextsAssumption
  <2>2. 0..100 \subseteq Int /\ Nat \subseteq Int
    OBVIOUS
  <2>3. Limits(5000) \subseteq Int
    BY DEF Limits
  <2>4. ReclaimSettled \subseteq ReclaimRaw
    BY <2>1, <2>2 DEF ReclaimSettled, ReclaimRaw
  <2>5. DrawSettled \subseteq DrawRaw
    BY <2>1, <2>2 DEF DrawSettled, DrawRaw
  <2>6. AllocationSettled \subseteq AllocationRaw
    BY <2>1, <2>2, <2>3 DEF AllocationSettled, AllocationRaw
  <2> QED
    BY <2>4, <2>5, <2>6
<1>2. Words \subseteq Texts /\ {"auto", "claim"} \subseteq Texts
  BY TextsAssumption DEF Words
<1>3. RulesLike(InactiveRules) \subseteq Seq(Rule) /\ RulesLike(ActiveRules) \subseteq Seq(Rule)
  <2>1. Known(InactiveRules) \subseteq Texts /\ Known(ActiveRules) \subseteq Texts
    <3>1. "no_active_days" \in Texts /\ "no_usage_days" \in Texts /\ "active_within_days" \in Texts /\ "used_within_days" \in Texts
      BY TextsAssumption
    <3>2. \A i \in DOMAIN InactiveRules : InactiveRules[i].type \in {"no_active_days", "no_usage_days"}
      BY DEF InactiveRules
    <3>3. \A i \in DOMAIN ActiveRules : ActiveRules[i].type \in {"active_within_days", "used_within_days"}
      BY DEF ActiveRules
    <3> QED
      BY <3>1, <3>2, <3>3 DEF Known
  <2>2. RuleLike(InactiveRules) \subseteq Rule /\ RuleLike(ActiveRules) \subseteq Rule
    BY <2>1 DEF RuleLike, Rule
  <2>3. ASSUME NEW d, RuleLike(d) \subseteq Rule, NEW r \in RulesLike(d) PROVE r \in Seq(Rule)
    <3>1. r \in Seq(RuleLike(d))
      BY RulesLikeIs
    <3> QED
      BY <2>3, <3>1, SeqGrows
  <2> QED
    BY <2>2, <2>3
<1>4. Nat \subseteq Int /\ Nat \ {0} \subseteq Int /\ 0..100 \subseteq Int /\ SUBSET (Nat \ {0}) \subseteq SUBSET Int
  OBVIOUS
<1>5. Limits(500) \subseteq Int
  BY DEF Limits
<1> SUFFICES ASSUME NEW s \in RedistributionSettled PROVE s \in RedistributionRaw
  OBVIOUS
<1>6. s.cron \in Texts /\ s.zone \in Texts /\ s.claim \in Texts
  BY <1>2 DEF RedistributionSettled
<1>7. s.inactive \in Seq(Rule) /\ s.active \in Seq(Rule)
  BY <1>3 DEF RedistributionSettled
<1>8. s.reclaim \in ReclaimRaw /\ s.draw \in DrawRaw /\ s.allocation \in AllocationRaw
  BY <1>1 DEF RedistributionSettled
<1>9. s.protected \in Int /\ s.poolDays \in Int /\ s.failPercent \in Int
  BY DEF RedistributionSettled
<1>10. s.keep \in Int
  BY <1>5 DEF RedistributionSettled
<1>11. s.excluded \in SUBSET Int
  BY <1>4 DEF RedistributionSettled
<1>12. s.enabled \in BOOLEAN /\ s.auto \in BOOLEAN
  BY DEF RedistributionSettled
<1>13. s = [enabled |-> s.enabled, auto |-> s.auto, cron |-> s.cron, zone |-> s.zone, inactive |-> s.inactive,
            active |-> s.active, protected |-> s.protected, excluded |-> s.excluded, reclaim |-> s.reclaim,
            claim |-> s.claim, poolDays |-> s.poolDays, draw |-> s.draw, allocation |-> s.allocation,
            failPercent |-> s.failPercent, keep |-> s.keep]
  BY DEF RedistributionSettled
<1> QED
  BY <1>6, <1>7, <1>8, <1>9, <1>10, <1>11, <1>12, <1>13 DEF RedistributionRaw

LEMMA RedistributionNormalKeeps ==
  ASSUME NEW s \in RedistributionSettled PROVE RedistributionNormal(s) = s
<1>1. Fallback(s.cron, s.cron # "", "monthly") = s.cron /\ Fallback(s.zone, s.zone # "", "Shanghai") = s.zone
  BY DEF RedistributionSettled, Fallback, Words
<1>2. RulesNormal(s.inactive, InactiveRules) = s.inactive /\ RulesNormal(s.active, ActiveRules) = s.active
  BY RulesNormalKeeps DEF RedistributionSettled
<1>3. {u \in s.excluded : u > 0} = s.excluded
  <2>1. s.excluded \subseteq Nat \ {0}
    BY DEF RedistributionSettled
  <2>2. \A u \in Nat \ {0} : u > 0
    OBVIOUS
  <2> QED
    BY <2>1, <2>2
<1>4. /\ ReclaimNormal(s.reclaim) = s.reclaim
      /\ DrawNormal(s.draw) = s.draw
      /\ AllocationNormal(s.allocation) = s.allocation
  BY PartsKept DEF RedistributionSettled
<1>5. Fallback(s.claim, s.claim \in {"auto", "claim"}, "auto") = s.claim
  BY DEF Fallback, RedistributionSettled
<1>6. s.protected \in Nat /\ s.poolDays \in Nat \ {0} /\ s.failPercent \in 0..100 /\ s.keep \in Limits(500)
  BY DEF RedistributionSettled
<1>7. /\ AtLeast(s.protected, 0) = s.protected
      /\ Fallback(s.poolDays, s.poolDays > 0, 7) = s.poolDays
      /\ AtMost(AtLeast(s.failPercent, 0), 100) = s.failPercent
      /\ Fallback(AtMost(s.keep, 500), s.keep > 0, 50) = s.keep
  <2>1. AtLeast(s.protected, 0) = s.protected /\ Fallback(s.poolDays, s.poolDays > 0, 7) = s.poolDays
    BY <1>6 DEF AtLeast, Fallback
  <2>2. AtMost(AtLeast(s.failPercent, 0), 100) = s.failPercent
    BY <1>6 DEF AtMost, AtLeast
  <2>3. Fallback(AtMost(s.keep, 500), s.keep > 0, 50) = s.keep
    BY <1>6, LimitKept
  <2> QED
    BY <2>1, <2>2, <2>3
<1> QED
  BY <1>1, <1>2, <1>3, <1>4, <1>5, <1>7 DEF RedistributionNormal, RedistributionSettled

LEMMA RedistributionUpdated ==
  ASSUME NEW cur \in RedistributionSettled, NEW in, WellTyped(in, RedistributionFields)
  PROVE  LET u == RedistributionUpdate(cur, in)
         IN u.next \in RedistributionSettled /\ (u.ok => u.kv = u.next /\ RedistributionValid(u.next))
<1>1. cur \in RedistributionRaw
  BY RedistributionSettledRaw
<1>2. RedistributionFields =
        [enabled |-> BOOLEAN, auto |-> BOOLEAN, cron |-> Texts, zone |-> Texts,
         inactive |-> Seq(Rule), active |-> Seq(Rule), protected |-> Int, excluded |-> SUBSET Int,
         reclaim |-> ReclaimRaw, claim |-> Texts, poolDays |-> Int, draw |-> DrawRaw,
         allocation |-> AllocationRaw, failPercent |-> Int, keep |-> Int]
  BY DEF RedistributionFields, ReclaimRaw, DrawRaw, AllocationRaw
<1>3. Overlay(cur, in) \in RedistributionRaw
  BY <1>1, <1>2 DEF Overlay, WellTyped, RedistributionRaw
<1>4. RedistributionNormal(Overlay(cur, in)) \in RedistributionSettled
  BY <1>3, RedistributionNormalSettled
<1> QED
  BY <1>4 DEF RedistributionUpdate, Accepted, Refused

LEMMA RedistributionDefaultsSettled == RedistributionDefaults \in RedistributionSettled
<1> DEFINE d == RedistributionDefaults
           reclaim == [mode |-> "fixed", value |-> 5, reserve |-> 5, min |-> 1, max |-> 10]
           draw == [mode |-> "active_share", fixed |-> 1, min |-> 1, max |-> 5]
           allocation == [mode |-> "mixed", fixed |-> 0, equal |-> 50, limit |-> 100]
<1>1. "monthly" \in Words /\ "Shanghai" \in Words
  BY TextsAssumption DEF Words
<1>2. reclaim \in ReclaimSettled /\ draw \in DrawSettled
  BY DEF ReclaimSettled, DrawSettled
<1>3. allocation \in AllocationSettled
  <2>1. 100 \in Limits(5000)
    BY DEF Limits
  <2>2. 50 \in 0..100 /\ 0 \in Nat
    OBVIOUS
  <2> QED
    BY <2>1, <2>2 DEF AllocationSettled
<1>4. InactiveRules \in RulesLike(InactiveRules) /\ ActiveRules \in RulesLike(ActiveRules)
  BY DefaultRulesLike
<1>5. 30 \in Nat /\ {} \in SUBSET (Nat \ {0}) /\ 7 \in Nat \ {0} /\ 10 \in 0..100 /\ 50 \in Limits(500)
  BY DEF Limits
<1>6. d = [enabled |-> FALSE, auto |-> FALSE, cron |-> "monthly", zone |-> "Shanghai",
           inactive |-> InactiveRules, active |-> ActiveRules, protected |-> 30, excluded |-> {},
           reclaim |-> reclaim, claim |-> "auto", poolDays |-> 7, draw |-> draw,
           allocation |-> allocation, failPercent |-> 10, keep |-> 50]
  BY DEF RedistributionDefaults
<1> HIDE DEF d, reclaim, draw, allocation
<1>7. d \in RedistributionSettled
  BY <1>1, <1>2, <1>3, <1>4, <1>5, <1>6 DEF RedistributionSettled
<1> QED
  BY <1>7 DEF d

\* Reading an accepted configuration back: it is accepted again, and the rules that
\* count are the same.
LEMMA RedistributionReadsBack ==
  ASSUME NEW s \in RedistributionSettled, RedistributionValid(s)
  PROVE  LET t == RedistributionReload(s)
         IN /\ t \in RedistributionSettled
            /\ [t EXCEPT !.inactive = Enabled(@), !.active = Enabled(@)]
                 = [s EXCEPT !.inactive = Enabled(@), !.active = Enabled(@)]
<1> DEFINE i == RulesRead(s.inactive, InactiveRules)
           a == RulesRead(s.active, ActiveRules)
           read == [s EXCEPT !.inactive = i, !.active = a]
<1>1. /\ i \in RulesLike(InactiveRules) /\ Enabled(i) = Enabled(s.inactive)
      /\ a \in RulesLike(ActiveRules) /\ Enabled(a) = Enabled(s.active)
  BY RulesReadLike, DefaultRulesLike DEF RedistributionValid, RedistributionSettled
<1> HIDE DEF i, a
<1>2. read \in RedistributionSettled
  BY <1>1 DEF RedistributionSettled
<1>3. /\ read.inactive = i /\ read.active = a
      /\ \A f \in DOMAIN s \ {"inactive", "active"} : read[f] = s[f]
  BY DEF RedistributionSettled
<1>4. RulesValid(i) /\ RulesValid(a)
  BY <1>1 DEF RedistributionValid, RulesValid
<1>5. RedistributionValid(read)
  <2>1. /\ read.cron = s.cron /\ read.zone = s.zone /\ read.reclaim = s.reclaim
        /\ read.allocation = s.allocation /\ read.draw = s.draw
    BY DEF RedistributionSettled
  <2> HIDE DEF read
  <2> QED
    BY <1>3, <1>4, <2>1 DEF RedistributionValid
<1>6. DOMAIN s # {}
  BY DEF RedistributionSettled
<1>7. RedistributionReload(s) = read
  <2>1. RedistributionNormal(read) = read
    BY <1>2, RedistributionNormalKeeps
  <2>2. read = [s EXCEPT !.inactive = RulesRead(@, InactiveRules), !.active = RulesRead(@, ActiveRules)]
    BY DEF i, a, RedistributionSettled
  <2> HIDE DEF read
  <2> QED
    BY <1>5, <1>6, <2>1, <2>2 DEF RedistributionReload
<1>8. [read EXCEPT !.inactive = Enabled(@), !.active = Enabled(@)]
        = [s EXCEPT !.inactive = Enabled(@), !.active = Enabled(@)]
  <2>1. [read EXCEPT !.inactive = Enabled(@), !.active = Enabled(@)]
          = [s EXCEPT !.inactive = Enabled(i), !.active = Enabled(a)]
    BY DEF RedistributionSettled
  <2>2. [s EXCEPT !.inactive = Enabled(@), !.active = Enabled(@)]
          = [s EXCEPT !.inactive = Enabled(s.inactive), !.active = Enabled(s.active)]
    BY DEF RedistributionSettled
  <2> QED
    BY <1>1, <2>1, <2>2
<1> HIDE DEF read
<1> QED
  BY <1>2, <1>7, <1>8

LEMMA RedistributionReads ==
  ASSUME NEW kv, DOMAIN kv = {} \/ (kv \in RedistributionSettled /\ RedistributionValid(kv))
  PROVE  RedistributionReload(kv) \in RedistributionSettled
BY RedistributionDefaultsSettled, RedistributionReadsBack DEF RedistributionReload

LEMMA RedistributionSwitched ==
  ASSUME NEW cur \in RedistributionSettled, NEW on \in BOOLEAN
  PROVE  RedistributionUpdate(cur, [enabled |-> on]).next \in {cur, [cur EXCEPT !.enabled = on]}
<1>1. Overlay(cur, [enabled |-> on]) = [cur EXCEPT !.enabled = on]
  BY DEF Overlay, RedistributionSettled
<1>2. [cur EXCEPT !.enabled = on] \in RedistributionSettled
  BY DEF RedistributionSettled
<1>3. RedistributionNormal([cur EXCEPT !.enabled = on]) = [cur EXCEPT !.enabled = on]
  BY <1>2, RedistributionNormalKeeps
<1> QED
  BY <1>1, <1>3 DEF RedistributionUpdate, Accepted, Refused

-----------------------------------------------------------------------------
(***************************************************************************)
(* Check-in.  Its rows are written key by key, so what is proved of reading   *)
(* and writing them is said of the fields that count.                         *)
(***************************************************************************)
PlainFields == {"enabled", "budget", "action", "zone", "step", "days"}
CountingFields == PlainFields \cup {"mode", "min", "max", "cap"}
AllFields == CountingFields \cup {"amount", "ranges", "clamped"}

\* Whether two settings say the same of what counts.
Same(a, b) == \A f \in CountingFields : a[f] = b[f]

\* What the rows say of a field that is stored as it is.
Plain(kv, f) == IF f \in DOMAIN kv THEN kv[f] ELSE CheckinDefaults[f]

NoRowsOr(kv) == DOMAIN kv = {} \/ CheckinRows(kv)

LEMMA CheckinTypesAre ==
  ASSUME NEW rt \in CheckinTypes
  PROVE  DOMAIN rt = AllFields /\ rt = [f \in AllFields |-> rt[f]]
BY DEF CheckinTypes, AllFields, CountingFields, PlainFields

\* Settings from their fields.
LEMMA CheckinFrom ==
  ASSUME NEW rt, rt = [f \in AllFields |-> rt[f]],
         rt.enabled \in BOOLEAN, rt.mode \in Modes, rt.amount \in Int, rt.min \in Nat \ {0}, rt.max \in Nat \ {0},
         rt.ranges \in SUBSET (Int \X Int), rt.cap \in 1..AbsoluteMax, rt.budget \in Int, rt.action \in Actions,
         rt.zone \in Texts, rt.step \in Int, rt.days \in Int, rt.clamped \in BOOLEAN
  PROVE  rt \in CheckinTypes
BY DEF CheckinTypes, AllFields, CountingFields, PlainFields

LEMMA RangesOnce ==
  ASSUME NEW ranges \in SUBSET (Int \X Int), NEW cap \in Int
  PROVE  Ranges(ranges, cap) \in SUBSET (Int \X Int) /\ Ranges(Ranges(ranges, cap), cap) = Ranges(ranges, cap)
<1> DEFINE C(x) == Money(AtMost(x, cap))
<1>1. ASSUME NEW x \in Int PROVE C(x) \in Int /\ C(C(x)) = C(x)
  BY ClampedOnce
<1>2. ASSUME NEW r \in ranges PROVE r[1] \in Int /\ r[2] \in Int
  OBVIOUS
<1>3. Ranges(ranges, cap) = {<<C(r[1]), C(r[2])>> : r \in ranges}
  BY DEF Ranges
<1> DEFINE R == Ranges(ranges, cap)
<1>4. Ranges(R, cap) = {<<C(r[1]), C(r[2])>> : r \in R}
  BY DEF Ranges
<1> HIDE DEF C, R
<1>5. ASSUME NEW r \in R PROVE r \in Int \X Int /\ <<C(r[1]), C(r[2])>> = r
  <2>1. PICK q \in ranges : r = <<C(q[1]), C(q[2])>>
    BY <1>3 DEF R
  <2>2. C(C(q[1])) = C(q[1]) /\ C(C(q[2])) = C(q[2]) /\ C(q[1]) \in Int /\ C(q[2]) \in Int
    BY <1>1, <1>2
  <2>3. r[1] = C(q[1]) /\ r[2] = C(q[2])
    BY <2>1
  <2> QED
    BY <2>1, <2>2, <2>3
<1>6. {<<C(r[1]), C(r[2])>> : r \in R} = R
  BY <1>5
<1>7. R \subseteq Int \X Int
  BY <1>5
<1> QED
  BY <1>4, <1>6, <1>7 DEF R

\* What a start reads, field by field.
ReadAmount(kv) == IF "amount" \in DOMAIN kv /\ kv.amount > 0 THEN kv.amount ELSE DefaultReward
ReadMin(kv) == IF "min" \in DOMAIN kv /\ kv.min > 0 THEN kv.min ELSE ReadAmount(kv)
ReadMax(kv) == AtLeast(IF "max" \in DOMAIN kv /\ kv.max > 0 THEN kv.max ELSE ReadAmount(kv), ReadMin(kv))
ReadCap(kv) == AtMost(IF "cap" \in DOMAIN kv /\ kv.cap > 0 THEN kv.cap ELSE DefaultHardCap, AbsoluteMax)
ReadRanges(kv) == IF "ranges" \in DOMAIN kv /\ RangesValid(kv.ranges) THEN kv.ranges ELSE {}
ReadClamped(kv) ==
    ReadAmount(kv) > ReadCap(kv) \/ ReadMin(kv) > ReadCap(kv) \/ ReadMax(kv) > ReadCap(kv)
        \/ RangesClamped(ReadRanges(kv), ReadCap(kv))

LEMMA CheckinReloadIs ==
  ASSUME NEW kv
  PROVE  LET r == CheckinReload(kv)
         IN /\ r = [f \in AllFields |-> r[f]]
            /\ \A f \in PlainFields : r[f] = Plain(kv, f)
            /\ r.mode = IF "mode" \in DOMAIN kv THEN kv.mode
                        ELSE IF ReadMax(kv) > ReadMin(kv) THEN "random" ELSE "fixed"
            /\ r.amount = AtMost(ReadAmount(kv), ReadCap(kv))
            /\ r.min = AtMost(ReadMin(kv), ReadCap(kv))
            /\ r.max = AtMost(ReadMax(kv), ReadCap(kv))
            /\ r.cap = ReadCap(kv)
            /\ r.ranges = Ranges(ReadRanges(kv), ReadCap(kv))
            /\ r.clamped = ReadClamped(kv)
<1> DEFINE o == Overlay(CheckinDefaults, kv)
           mode == IF "mode" \in DOMAIN kv THEN kv.mode ELSE IF ReadMax(kv) > ReadMin(kv) THEN "random" ELSE "fixed"
           r == [o EXCEPT !.mode = mode,
                          !.amount = AtMost(ReadAmount(kv), ReadCap(kv)),
                          !.min = AtMost(ReadMin(kv), ReadCap(kv)),
                          !.max = AtMost(ReadMax(kv), ReadCap(kv)),
                          !.cap = ReadCap(kv),
                          !.ranges = Ranges(ReadRanges(kv), ReadCap(kv)),
                          !.clamped = ReadClamped(kv)]
<1>1. CheckinDefaults.amount = DefaultReward /\ CheckinDefaults.ranges = {} /\ DOMAIN CheckinDefaults = AllFields
  BY DEF CheckinDefaults, AllFields, CountingFields, PlainFields
<1>2. CheckinReload(kv) = r
  BY <1>1 DEF CheckinReload, ReadAmount, ReadMin, ReadMax, ReadCap, ReadRanges, ReadClamped
<1>3. o = [f \in AllFields |-> Plain(kv, f)]
  BY <1>1 DEF Overlay, Plain
<1> HIDE DEF o, mode
<1>4. r = [f \in AllFields |-> r[f]]
  BY <1>3
<1>5. \A f \in PlainFields : r[f] = Plain(kv, f)
  BY <1>3 DEF AllFields, CountingFields, PlainFields
<1>6. /\ r.mode = mode
      /\ r.amount = AtMost(ReadAmount(kv), ReadCap(kv))
      /\ r.min = AtMost(ReadMin(kv), ReadCap(kv))
      /\ r.max = AtMost(ReadMax(kv), ReadCap(kv))
      /\ r.cap = ReadCap(kv)
      /\ r.ranges = Ranges(ReadRanges(kv), ReadCap(kv))
      /\ r.clamped = ReadClamped(kv)
  BY <1>3 DEF AllFields, CountingFields, PlainFields
<1> HIDE DEF r
<1> QED
  BY <1>2, <1>4, <1>5, <1>6 DEF mode

LEMMA CheckinRowsAre ==
  ASSUME NEW kv, CheckinRows(kv)
  PROVE  /\ AmountKeys \subseteq DOMAIN kv /\ DOMAIN kv \subseteq DOMAIN CheckinFields
         /\ \A f \in DOMAIN kv : kv[f] \in CheckinFields[f]
         /\ kv.mode \in Modes /\ kv.cap \in 1..AbsoluteMax /\ kv.min \in Nat \ {0} /\ kv.max \in Nat \ {0}
         /\ kv.amount \in Int /\ AmountsFit(kv)
         /\ "action" \in DOMAIN kv => kv.action \in Actions
<1>1. \A f \in DOMAIN kv : kv[f] \in CheckinFields[f]
  BY DEF CheckinRows, WellTyped
<1>2. {"mode", "amount", "min", "max", "cap"} \subseteq DOMAIN kv
  BY DEF CheckinRows, AmountKeys, RewardKeys
<1>3. CheckinFields["amount"] = Int /\ CheckinFields["min"] = Int /\ CheckinFields["max"] = Int
  BY DEF CheckinFields
<1>4. kv.amount \in Int /\ kv.min \in Int /\ kv.max \in Int
  BY <1>1, <1>2, <1>3
<1>5. kv.min > 0 /\ kv.min <= kv.max
  BY DEF CheckinRows, AmountsFit
<1> QED
  BY <1>1, <1>4, <1>5 DEF CheckinRows

LEMMA PlainTyped ==
  ASSUME NEW kv, NoRowsOr(kv)
  PROVE  /\ Plain(kv, "enabled") \in BOOLEAN /\ Plain(kv, "budget") \in Int /\ Plain(kv, "action") \in Actions
         /\ Plain(kv, "zone") \in Texts /\ Plain(kv, "step") \in Int /\ Plain(kv, "days") \in Int
<1> DEFINE d == CheckinDefaults
<1>1. /\ d["enabled"] = FALSE /\ d["budget"] = 10 * Unit /\ d["action"] = "block" /\ d["zone"] = "Shanghai"
      /\ d["step"] = 1 /\ d["days"] = 7
  BY DEF CheckinDefaults
<1>2. "Shanghai" \in Texts
  BY TextsAssumption
<1>3. 10 * Unit \in Int
  BY SettingsAssumption
<1> HIDE DEF d
<1>4. /\ CheckinFields["enabled"] = BOOLEAN /\ CheckinFields["budget"] = Int /\ CheckinFields["zone"] = Texts
      /\ CheckinFields["step"] = Int /\ CheckinFields["days"] = Int
  BY DEF CheckinFields
<1>5. \A f \in DOMAIN kv : kv[f] \in CheckinFields[f]
  BY CheckinRowsAre DEF NoRowsOr
<1>6. "action" \in DOMAIN kv => kv["action"] \in Actions
  BY CheckinRowsAre DEF NoRowsOr
<1>7. Plain(kv, "enabled") \in BOOLEAN
  BY <1>1, <1>4, <1>5 DEF Plain, d
<1>8. Plain(kv, "budget") \in Int
  BY <1>1, <1>3, <1>4, <1>5 DEF Plain, d
<1>9. Plain(kv, "action") \in Actions
  BY <1>1, <1>6 DEF Plain, d, Actions
<1>10. Plain(kv, "zone") \in Texts
  BY <1>1, <1>2, <1>4, <1>5 DEF Plain, d
<1>11. Plain(kv, "step") \in Int
  BY <1>1, <1>4, <1>5 DEF Plain, d
<1>12. Plain(kv, "days") \in Int
  BY <1>1, <1>4, <1>5 DEF Plain, d
<1> QED
  BY <1>7, <1>8, <1>9, <1>10, <1>11, <1>12

\* The ranges that are read.
LEMMA ReadRangesTyped == ASSUME NEW kv, NoRowsOr(kv) PROVE ReadRanges(kv) \in SUBSET (Int \X Int)
<1>1. CheckinFields["ranges"] = SUBSET (Int \X Int)
  BY DEF CheckinFields
<1>2. \A f \in DOMAIN kv : kv[f] \in CheckinFields[f]
  BY CheckinRowsAre DEF NoRowsOr
<1>3. "ranges" \in DOMAIN kv => kv["ranges"] \in SUBSET (Int \X Int)
  BY <1>1, <1>2
<1> QED
  BY <1>3 DEF ReadRanges

\* Rows that updates have written are read as they are.
LEMMA CheckinRowsRead ==
  ASSUME NEW kv, CheckinRows(kv)
  PROVE  LET r == CheckinReload(kv)
         IN /\ r \in CheckinSettled
            /\ r.mode = kv.mode /\ r.min = kv.min /\ r.max = kv.max /\ r.cap = kv.cap
            /\ \A f \in PlainFields : r[f] = Plain(kv, f)
<1> DEFINE r == CheckinReload(kv)
<1>0. NoRowsOr(kv)
  BY DEF NoRowsOr
<1>1. /\ {"mode", "amount", "min", "max", "cap"} \subseteq DOMAIN kv
      /\ kv.mode \in Modes /\ kv.cap \in 1..AbsoluteMax /\ kv.min \in Nat \ {0} /\ kv.max \in Nat \ {0}
      /\ kv.amount \in Int /\ kv.min <= kv.max /\ kv.max <= kv.cap
      /\ kv.mode = "fixed" => kv.amount = kv.min /\ kv.amount = kv.max
  BY CheckinRowsAre DEF AmountKeys, RewardKeys, AmountsFit
<1>2. ReadMin(kv) = kv.min /\ ReadMax(kv) = kv.max /\ ReadCap(kv) = kv.cap /\ ReadAmount(kv) \in Int
      /\ (kv.mode = "fixed" => ReadAmount(kv) = kv.amount)
  <2>1. ReadMin(kv) = kv.min
    BY <1>1 DEF ReadMin
  <2>2. ReadMax(kv) = kv.max
    BY <1>1, <2>1 DEF ReadMax, AtLeast
  <2>3. ReadCap(kv) = kv.cap
    BY <1>1, CheckinDefaultsAssumption DEF ReadCap, AtMost
  <2>4. ReadAmount(kv) \in Int
    BY <1>1, CheckinDefaultsAssumption DEF ReadAmount
  <2>5. kv.mode = "fixed" => kv.amount > 0
    BY <1>1
  <2>6. kv.mode = "fixed" => ReadAmount(kv) = kv.amount
    BY <1>1, <2>5 DEF ReadAmount
  <2> QED
    BY <2>1, <2>2, <2>3, <2>4, <2>6
<1>3. /\ r = [f \in AllFields |-> r[f]]
      /\ \A f \in PlainFields : r[f] = Plain(kv, f)
      /\ r.mode = kv.mode
      /\ r.amount = AtMost(ReadAmount(kv), kv.cap)
      /\ r.min = AtMost(kv.min, kv.cap)
      /\ r.max = AtMost(kv.max, kv.cap)
      /\ r.cap = kv.cap
      /\ r.ranges = Ranges(ReadRanges(kv), kv.cap)
      /\ r.clamped = ReadClamped(kv)
  <2>1. "mode" \in DOMAIN kv
    BY <1>1
  <2> QED
    BY <1>2, <2>1, CheckinReloadIs
<1> HIDE DEF r
<1>4. r.min = kv.min /\ r.max = kv.max /\ r.amount \in Int /\ (kv.mode = "fixed" => r.amount = kv.amount)
  BY <1>1, <1>2, <1>3, CheckinDefaultsAssumption DEF AtMost
<1>5. r.ranges \in SUBSET (Int \X Int) /\ Ranges(r.ranges, r.cap) = r.ranges
  <2>1. kv.cap \in Int
    BY <1>1
  <2> QED
    BY <1>0, <1>3, <2>1, ReadRangesTyped, RangesOnce
<1>6. r.clamped \in BOOLEAN
  BY <1>3 DEF ReadClamped
<1>7. /\ r.enabled \in BOOLEAN /\ r.budget \in Int /\ r.action \in Actions
      /\ r.zone \in Texts /\ r.step \in Int /\ r.days \in Int
  BY <1>0, <1>3, PlainTyped DEF PlainFields
<1>8. r \in CheckinTypes
  BY <1>1, <1>3, <1>4, <1>5, <1>6, <1>7, CheckinFrom
<1>9. AmountsFit(r)
  BY <1>1, <1>3, <1>4 DEF AmountsFit
<1>10. r \in CheckinSettled
  BY <1>5, <1>8, <1>9 DEF CheckinSettled
<1> QED
  BY <1>3, <1>4, <1>10 DEF r

\* Without rows the defaults are in force, the reward clamped to the cap.
LEMMA CheckinNoRowsRead ==
  ASSUME NEW kv, DOMAIN kv = {}
  PROVE  LET r == CheckinReload(kv)
         IN r \in CheckinSettled /\ \A f \in PlainFields : r[f] = Plain(kv, f)
<1> DEFINE r == CheckinReload(kv)
           reward == AtMost(DefaultReward, DefaultHardCap)
<1>0. NoRowsOr(kv)
  BY DEF NoRowsOr
<1>1. DefaultReward \in Nat \ {0} /\ DefaultHardCap \in Nat \ {0} /\ AbsoluteMax \in Nat
      /\ DefaultHardCap <= AbsoluteMax
  BY CheckinDefaultsAssumption
<1>2. ReadAmount(kv) = DefaultReward
  BY DEF ReadAmount
<1>3. ReadMin(kv) = DefaultReward
  BY <1>2 DEF ReadMin
<1>4. ReadMax(kv) = DefaultReward
  BY <1>1, <1>2, <1>3 DEF ReadMax, AtLeast
<1>5. ReadCap(kv) = DefaultHardCap
  BY <1>1 DEF ReadCap, AtMost
<1>6. ReadRanges(kv) = {}
  BY DEF ReadRanges
<1>7. reward \in Nat \ {0} /\ reward <= DefaultHardCap
  BY <1>1 DEF AtMost
<1> HIDE DEF reward
<1>8. /\ r = [f \in AllFields |-> r[f]]
      /\ \A f \in PlainFields : r[f] = Plain(kv, f)
      /\ r.mode = "fixed"
      /\ r.amount = reward /\ r.min = reward /\ r.max = reward
      /\ r.cap = DefaultHardCap
      /\ r.ranges = Ranges({}, DefaultHardCap)
      /\ r.clamped = ReadClamped(kv)
  <2>1. "mode" \notin DOMAIN kv
    OBVIOUS
  <2>2. ~(DefaultReward > DefaultReward)
    BY <1>1
  <2> QED
    BY <1>2, <1>3, <1>4, <1>5, <1>6, <2>1, <2>2, CheckinReloadIs DEF reward
<1> HIDE DEF r
<1>9. r.ranges = {} /\ Ranges(r.ranges, r.cap) = r.ranges
  BY <1>8 DEF Ranges
<1>10. r.clamped \in BOOLEAN
  BY <1>8 DEF ReadClamped
<1>11. /\ r.enabled \in BOOLEAN /\ r.budget \in Int /\ r.action \in Actions
       /\ r.zone \in Texts /\ r.step \in Int /\ r.days \in Int
  BY <1>0, <1>8, PlainTyped DEF PlainFields
<1>12. r.mode \in Modes /\ r.ranges \in SUBSET (Int \X Int)
  BY <1>8, <1>9 DEF Modes
<1>13. r.amount \in Int /\ r.min \in Nat \ {0} /\ r.max \in Nat \ {0} /\ r.cap \in 1..AbsoluteMax
  BY <1>1, <1>7, <1>8
<1>14. r \in CheckinTypes
  BY <1>8, <1>10, <1>11, <1>12, <1>13, CheckinFrom
<1>15. AmountsFit(r)
  BY <1>1, <1>7, <1>8 DEF AmountsFit
<1>16. r \in CheckinSettled
  BY <1>9, <1>14, <1>15 DEF CheckinSettled
<1> QED
  BY <1>8, <1>16 DEF r

\* The steps of an update, named.
LoOf(cur, in) == LET next == Overlay(cur, in) IN AtMost(next.min, next.cap)
HiOf(cur, in) == LET next == Overlay(cur, in) IN AtMost(next.max, next.cap)
FixedIn(cur, in) == LET next == Overlay(cur, in) IN AtMost(FixedOf(next, in, next.min), next.cap)
ModeIn(cur, in) == LET next == Overlay(cur, in) IN ModeOf(cur, in, next.min, next.max)
MiddleOf(lo, hi) == Unit * ((lo + hi + Unit) \div (2 * Unit))

LEMMA CheckinSettledIs ==
  ASSUME NEW s \in CheckinSettled
  PROVE  /\ s \in CheckinTypes /\ AmountsFit(s) /\ Ranges(s.ranges, s.cap) = s.ranges
         /\ DOMAIN s = AllFields /\ s = [f \in AllFields |-> s[f]]
         /\ s.enabled \in BOOLEAN /\ s.mode \in Modes /\ s.amount \in Int
         /\ s.min \in Nat \ {0} /\ s.max \in Nat \ {0} /\ s.ranges \in SUBSET (Int \X Int)
         /\ s.cap \in 1..AbsoluteMax /\ s.budget \in Int /\ s.action \in Actions
         /\ s.zone \in Texts /\ s.step \in Int /\ s.days \in Int
<1>1. s \in CheckinTypes /\ AmountsFit(s) /\ Ranges(s.ranges, s.cap) = s.ranges
  BY DEF CheckinSettled
<1> QED
  BY <1>1, CheckinTypesAre DEF CheckinTypes

LEMMA ActionsAreTexts == Actions \subseteq Texts /\ Modes \subseteq Texts
BY TextsAssumption DEF Actions, Modes

\* The fields an update starts from.
LEMMA OverlaidTypes ==
  ASSUME NEW cur \in CheckinSettled, NEW in, WellTyped(in, CheckinFields)
  PROVE  LET o == Overlay(cur, in)
         IN /\ DOMAIN o = AllFields /\ o = [f \in AllFields |-> o[f]]
            /\ \A f \in AllFields : o[f] = IF f \in DOMAIN in THEN in[f] ELSE cur[f]
            /\ o.enabled \in BOOLEAN /\ o.amount \in Int /\ o.min \in Int /\ o.max \in Int
            /\ o.ranges \in SUBSET (Int \X Int) /\ o.cap \in Int /\ o.budget \in Int
            /\ o.zone \in Texts /\ o.step \in Int /\ o.days \in Int
<1> DEFINE o == Overlay(cur, in)
<1>1. o = [f \in AllFields |-> IF f \in DOMAIN in THEN in[f] ELSE cur[f]]
  BY CheckinSettledIs DEF Overlay
<1> HIDE DEF o
<1>2. \A f \in AllFields : o[f] = IF f \in DOMAIN in THEN in[f] ELSE cur[f]
  BY <1>1
<1>3. /\ CheckinFields["enabled"] = BOOLEAN /\ CheckinFields["amount"] = Int /\ CheckinFields["min"] = Int
      /\ CheckinFields["max"] = Int /\ CheckinFields["ranges"] = SUBSET (Int \X Int)
      /\ CheckinFields["cap"] = Int /\ CheckinFields["budget"] = Int /\ CheckinFields["zone"] = Texts
      /\ CheckinFields["step"] = Int /\ CheckinFields["days"] = Int
      /\ DOMAIN CheckinFields = AllFields \ {"clamped"}
  BY DEF CheckinFields, AllFields, CountingFields, PlainFields
<1>4. \A f \in AllFields \ {"clamped"} : f \in DOMAIN in => in[f] \in CheckinFields[f]
  BY <1>3 DEF WellTyped
<1>5. cur.enabled \in BOOLEAN /\ cur.amount \in Int /\ cur.min \in Int /\ cur.max \in Int
      /\ cur.ranges \in SUBSET (Int \X Int) /\ cur.cap \in Int /\ cur.budget \in Int
      /\ cur.zone \in Texts /\ cur.step \in Int /\ cur.days \in Int
  BY CheckinSettledIs
<1>6. {"enabled", "amount", "min", "max", "ranges", "cap", "budget", "zone", "step", "days"} \subseteq AllFields \ {"clamped"}
  BY DEF AllFields, CountingFields, PlainFields
<1>7. o.enabled \in BOOLEAN /\ o.zone \in Texts /\ o.ranges \in SUBSET (Int \X Int)
  BY <1>2, <1>3, <1>4, <1>5, <1>6
<1>8. o.amount \in Int /\ o.min \in Int /\ o.max \in Int
  BY <1>2, <1>3, <1>4, <1>5, <1>6
<1>9. o.cap \in Int /\ o.budget \in Int /\ o.step \in Int /\ o.days \in Int
  BY <1>2, <1>3, <1>4, <1>5, <1>6
<1>10. DOMAIN o = AllFields /\ o = [f \in AllFields |-> o[f]]
  BY <1>1
<1> QED
  BY <1>2, <1>7, <1>8, <1>9, <1>10 DEF o

LEMMA ModeInModes == ASSUME NEW cur \in CheckinSettled, NEW in PROVE ModeIn(cur, in) \in Modes
<1>1. cur.mode \in Modes
  BY CheckinSettledIs
<1> QED
  BY <1>1 DEF ModeIn, ModeOf, Modes, Fallback

\* What an accepted update makes of the settings, field by field.
LEMMA CheckinUpdateIs ==
  ASSUME NEW cur \in CheckinSettled, NEW in, WellTyped(in, CheckinFields), CheckinUpdate(cur, in).ok
  PROVE  LET u == CheckinUpdate(cur, in)
             n == u.next
             o == Overlay(cur, in)
         IN /\ n = [f \in AllFields |-> n[f]]
            /\ \A f \in PlainFields \ {"action"} : n[f] = o[f]
            /\ n.action = Fallback(o.action, o.action = "disable", "block")
            /\ n.cap = o.cap /\ n.cap \in 1..AbsoluteMax
            /\ n.mode = ModeIn(cur, in) /\ n.mode \in Modes
            /\ n.mode = "random" =>
                  /\ n.min = LoOf(cur, in) /\ n.max = HiOf(cur, in) /\ 0 < n.min /\ n.min <= n.max
                  /\ n.amount = MiddleOf(n.min, n.max)
                  /\ n.ranges = Ranges(o.ranges, n.cap)
            /\ n.mode = "fixed" =>
                  /\ n.min = FixedIn(cur, in) /\ n.max = FixedIn(cur, in) /\ n.amount = FixedIn(cur, in) /\ n.min > 0
                  /\ n.ranges = {}
            /\ n.clamped \in BOOLEAN
            /\ u.kv = [k \in DOMAIN u.kv |-> n[k]]
            /\ AmountKeys \subseteq DOMAIN u.kv
            /\ DOMAIN u.kv \subseteq AmountKeys \cup {"ranges"} \cup (PlainKeys \cap DOMAIN in)
            /\ PlainKeys \cap DOMAIN in \subseteq DOMAIN u.kv
<1> DEFINE u == CheckinUpdate(cur, in)
           o == Overlay(cur, in)
           mode == ModeIn(cur, in)
           lo == LoOf(cur, in)
           hi == HiOf(cur, in)
           fixed == FixedIn(cur, in)
           rewards ==
             IF mode = "random"
             THEN [mode |-> mode, min |-> lo, max |-> hi, amount |-> MiddleOf(lo, hi), ranges |-> Ranges(o.ranges, o.cap)]
             ELSE [mode |-> mode, min |-> fixed, max |-> fixed, amount |-> fixed, ranges |-> {}]
           clamped == o.amount > o.cap \/ o.min > o.cap \/ o.max > o.cap \/ RangesClamped(o.ranges, o.cap)
           w == Overlay(o, rewards)
           result == [w EXCEPT !.clamped = clamped, !.action = Fallback(@, @ = "disable", "block")]
           rangesStored == "ranges" \in DOMAIN in \/ (mode = "random" /\ RangesClamped(o.ranges, o.cap))
           keys == RewardKeys \cup {"cap"} \cup (PlainKeys \cap DOMAIN in)
                     \cup (IF rangesStored THEN {"ranges"} ELSE {})
           fits == /\ o.cap \in 1..AbsoluteMax /\ RangesValid(o.ranges)
                   /\ IF mode = "random" THEN 0 < lo /\ lo <= hi ELSE fixed > 0
                   /\ PlainValid(in)
<1>1. DOMAIN o = AllFields /\ o = [f \in AllFields |-> o[f]]
  BY OverlaidTypes
<1>2. mode \in Modes
  BY ModeInModes
<1>a. "action" \notin DOMAIN rewards
  OBVIOUS
<1>b. w.action = o.action
  BY <1>1, <1>a DEF Overlay, AllFields, CountingFields, PlainFields
<1>3. u = IF fits THEN [ok |-> TRUE, next |-> result, kv |-> [k \in keys |-> result[k]]] ELSE Refused(cur)
  BY DEF CheckinUpdate, ModeIn, LoOf, HiOf, FixedIn, MiddleOf
<1> HIDE DEF u, o, mode, lo, hi, fixed, keys, clamped
<1>4. fits /\ u.next = result /\ u.kv = [k \in keys |-> result[k]]
  <2>1. u.ok
    BY DEF u
  <2>2. ~Refused(cur).ok
    BY DEF Refused
  <2> HIDE DEF fits, result
  <2> QED
    BY <1>3, <2>1, <2>2
<1>5. w = [f \in AllFields |-> IF f \in DOMAIN rewards THEN rewards[f] ELSE o[f]]
  BY <1>1 DEF Overlay
<1>6. DOMAIN rewards = {"mode", "min", "max", "amount", "ranges"}
  OBVIOUS
<1>7. /\ rewards.mode = mode
      /\ mode = "random" => /\ rewards.min = lo /\ rewards.max = hi /\ rewards.amount = MiddleOf(lo, hi)
                            /\ rewards.ranges = Ranges(o.ranges, o.cap)
      /\ mode # "random" => /\ rewards.min = fixed /\ rewards.max = fixed /\ rewards.amount = fixed
                            /\ rewards.ranges = {}
  OBVIOUS
<1> HIDE DEF rewards, w
<1> DEFINE n == u.next
<1>8. DOMAIN w = AllFields /\ n = [w EXCEPT !.clamped = clamped, !.action = Fallback(@, @ = "disable", "block")]
  BY <1>4, <1>5
<1> HIDE DEF result, n
<1>c. /\ n = [f \in AllFields |-> n[f]]
      /\ \A f \in AllFields \ {"clamped", "action"} : n[f] = w[f]
      /\ n.clamped = clamped /\ n.action = Fallback(w.action, w.action = "disable", "block")
  <2>1. "clamped" \in AllFields /\ "action" \in AllFields
    BY DEF AllFields, CountingFields, PlainFields
  <2>2. n = [f \in AllFields |-> n[f]]
    BY <1>8
  <2>3. \A f \in AllFields \ {"clamped", "action"} : n[f] = w[f]
    BY <1>8
  <2>4. n.clamped = clamped /\ n.action = Fallback(w.action, w.action = "disable", "block")
    BY <1>8, <2>1
  <2> QED
    BY <2>2, <2>3, <2>4
<1>9. /\ n.mode = rewards.mode /\ n.min = rewards.min /\ n.max = rewards.max
      /\ n.amount = rewards.amount /\ n.ranges = rewards.ranges
  BY <1>5, <1>6, <1>c DEF AllFields, CountingFields, PlainFields
<1>10. n.clamped = clamped /\ n.action = Fallback(o.action, o.action = "disable", "block")
  BY <1>b, <1>c
<1>11. n.cap = o.cap /\ \A f \in PlainFields \ {"action"} : n[f] = o[f]
  BY <1>5, <1>6, <1>c DEF AllFields, CountingFields, PlainFields
<1>12. clamped \in BOOLEAN
  BY DEF clamped
<1>13. mode = "random" => 0 < lo /\ lo <= hi
  BY <1>4
<1>14. mode = "fixed" => fixed > 0 /\ mode # "random"
  BY <1>4
<1>15. /\ u.kv = [k \in DOMAIN u.kv |-> n[k]] /\ DOMAIN u.kv = keys
  BY <1>4 DEF n
<1>16. /\ AmountKeys \subseteq keys
       /\ keys \subseteq AmountKeys \cup {"ranges"} \cup (PlainKeys \cap DOMAIN in)
       /\ PlainKeys \cap DOMAIN in \subseteq keys
  BY DEF keys, AmountKeys
<1>17. o.cap \in 1..AbsoluteMax
  BY <1>4
<1> HIDE DEF fits
<1>18. n.mode = "random" =>
          /\ n.min = lo /\ n.max = hi /\ 0 < n.min /\ n.min <= n.max
          /\ n.amount = MiddleOf(n.min, n.max)
          /\ n.ranges = Ranges(o.ranges, n.cap)
  BY <1>7, <1>9, <1>11, <1>13
<1>19. n.mode = "fixed" =>
          /\ n.min = fixed /\ n.max = fixed /\ n.amount = fixed /\ n.min > 0
          /\ n.ranges = {}
  BY <1>7, <1>9, <1>14
<1>20. n.mode = mode /\ n.mode \in Modes
  BY <1>2, <1>7, <1>9
<1>21. /\ n = [f \in AllFields |-> n[f]]
       /\ \A f \in PlainFields \ {"action"} : n[f] = o[f]
       /\ n.action = Fallback(o.action, o.action = "disable", "block")
       /\ n.cap = o.cap /\ n.cap \in 1..AbsoluteMax
       /\ n.mode = mode /\ n.mode \in Modes
       /\ n.clamped \in BOOLEAN
  BY <1>c, <1>10, <1>11, <1>12, <1>17, <1>20
<1>22. /\ u.kv = [k \in DOMAIN u.kv |-> n[k]]
       /\ AmountKeys \subseteq DOMAIN u.kv
       /\ DOMAIN u.kv \subseteq AmountKeys \cup {"ranges"} \cup (PlainKeys \cap DOMAIN in)
       /\ PlainKeys \cap DOMAIN in \subseteq DOMAIN u.kv
  BY <1>15, <1>16 DEF n
<1> QED
  BY <1>18, <1>19, <1>21, <1>22, Zenon DEF n, u, o, mode, lo, hi, fixed

LEMMA MiddleTyped == ASSUME NEW lo \in Int, NEW hi \in Int PROVE MiddleOf(lo, hi) \in Int
<1>1. Unit \in Nat \ {0}
  BY SettingsAssumption
<1>2. PICK d \in Nat \ {0} : d = 2 * Unit
  BY <1>1
<1>3. PICK x \in Int : x = lo + hi + Unit
  BY <1>1
<1>4. x \div d \in Int
  OBVIOUS
<1> QED
  BY <1>1, <1>2, <1>3, <1>4 DEF MiddleOf

LEMMA CheckinUpdated ==
  ASSUME NEW cur \in CheckinSettled, NEW in, WellTyped(in, CheckinFields)
  PROVE  LET u == CheckinUpdate(cur, in) IN u.ok => u.next \in CheckinSettled
<1> SUFFICES ASSUME CheckinUpdate(cur, in).ok PROVE CheckinUpdate(cur, in).next \in CheckinSettled
  OBVIOUS
<1> DEFINE n == CheckinUpdate(cur, in).next
           o == Overlay(cur, in)
<1>1. /\ n = [f \in AllFields |-> n[f]]
      /\ \A f \in PlainFields \ {"action"} : n[f] = o[f]
      /\ n.action = Fallback(o.action, o.action = "disable", "block")
      /\ n.cap = o.cap /\ n.cap \in 1..AbsoluteMax
      /\ n.mode \in Modes /\ n.clamped \in BOOLEAN
  BY CheckinUpdateIs
<1>2. n.mode = "random" =>
         /\ n.min = LoOf(cur, in) /\ n.max = HiOf(cur, in) /\ 0 < n.min /\ n.min <= n.max
         /\ n.amount = MiddleOf(n.min, n.max)
         /\ n.ranges = Ranges(o.ranges, n.cap)
  BY CheckinUpdateIs
<1>3. n.mode = "fixed" =>
         /\ n.min = FixedIn(cur, in) /\ n.max = FixedIn(cur, in) /\ n.amount = FixedIn(cur, in) /\ n.min > 0
         /\ n.ranges = {}
  BY CheckinUpdateIs
<1>4. /\ o.enabled \in BOOLEAN /\ o.amount \in Int /\ o.min \in Int /\ o.max \in Int
      /\ o.ranges \in SUBSET (Int \X Int) /\ o.cap \in Int /\ o.budget \in Int
      /\ o.zone \in Texts /\ o.step \in Int /\ o.days \in Int
  BY OverlaidTypes
<1>5. /\ LoOf(cur, in) \in Int /\ LoOf(cur, in) <= o.cap /\ HiOf(cur, in) \in Int /\ HiOf(cur, in) <= o.cap
      /\ FixedIn(cur, in) \in Int /\ FixedIn(cur, in) <= o.cap
  <2>1. LoOf(cur, in) \in Int /\ LoOf(cur, in) <= o.cap
    BY <1>4 DEF LoOf, AtMost
  <2>2. HiOf(cur, in) \in Int /\ HiOf(cur, in) <= o.cap
    BY <1>4 DEF HiOf, AtMost
  <2>3. FixedOf(o, in, o.min) \in Int
    BY <1>4 DEF FixedOf
  <2>4. FixedIn(cur, in) \in Int /\ FixedIn(cur, in) <= o.cap
    BY <1>4, <2>3 DEF FixedIn, AtMost
  <2> QED
    BY <2>1, <2>2, <2>4
<1> HIDE DEF n, o
<1>6. n.action \in Actions
  BY <1>1 DEF Actions, Fallback
<1>7. n.enabled \in BOOLEAN /\ n.budget \in Int /\ n.zone \in Texts /\ n.step \in Int /\ n.days \in Int
  BY <1>1, <1>4 DEF PlainFields
<1>8. CASE n.mode = "random"
  <2>1. n.min \in Nat \ {0} /\ n.max \in Nat \ {0} /\ n.min <= n.max /\ n.max <= n.cap
    BY <1>1, <1>2, <1>5, <1>8
  <2>a. n.min \in Int /\ n.max \in Int
    BY <2>1
  <2>2. n.amount \in Int
    BY <1>2, <1>8, <2>a, MiddleTyped
  <2>3. n.ranges \in SUBSET (Int \X Int) /\ Ranges(n.ranges, n.cap) = n.ranges
    BY <1>1, <1>2, <1>4, <1>8, RangesOnce
  <2>4. n \in CheckinTypes
    BY <1>1, <1>6, <1>7, <2>1, <2>2, <2>3, CheckinFrom
  <2>5. AmountsFit(n)
    BY <1>8, <2>1 DEF AmountsFit
  <2> QED
    BY <2>3, <2>4, <2>5 DEF CheckinSettled, n
<1>9. CASE n.mode = "fixed"
  <2>1. n.min \in Nat \ {0} /\ n.max \in Nat \ {0} /\ n.min = n.max /\ n.amount = n.min /\ n.max <= n.cap
    BY <1>1, <1>3, <1>5, <1>9
  <2>2. n.ranges = {} /\ Ranges(n.ranges, n.cap) = n.ranges
    BY <1>3, <1>9 DEF Ranges
  <2>3. n.amount \in Int /\ n.ranges \in SUBSET (Int \X Int)
    BY <2>1, <2>2
  <2>4. n \in CheckinTypes
    BY <1>1, <1>6, <1>7, <2>1, <2>3, CheckinFrom
  <2>5. AmountsFit(n)
    BY <2>1 DEF AmountsFit
  <2> QED
    BY <2>2, <2>4, <2>5 DEF CheckinSettled, n
<1> QED
  BY <1>1, <1>8, <1>9 DEF Modes

-----------------------------------------------------------------------------
(***************************************************************************)
(* What an update of the check-in writes is read back, and what a switch and *)
(* a rollback make of the settings in force.                                  *)
(***************************************************************************)
Written(kv, new) == [k \in DOMAIN kv \cup DOMAIN new |-> IF k \in DOMAIN new THEN new[k] ELSE kv[k]]

LEMMA CheckinFieldsAre ==
  /\ DOMAIN CheckinFields = AllFields \ {"clamped"}
  /\ CheckinFields["enabled"] = BOOLEAN /\ CheckinFields["mode"] = Texts /\ CheckinFields["amount"] = Int
  /\ CheckinFields["min"] = Int /\ CheckinFields["max"] = Int /\ CheckinFields["ranges"] = SUBSET (Int \X Int)
  /\ CheckinFields["cap"] = Int /\ CheckinFields["budget"] = Int /\ CheckinFields["action"] = Texts
  /\ CheckinFields["zone"] = Texts /\ CheckinFields["step"] = Int /\ CheckinFields["days"] = Int
BY DEF CheckinFields, AllFields, CountingFields, PlainFields

LEMMA SettledFits ==
  ASSUME NEW s \in CheckinSettled
  PROVE  \A f \in DOMAIN CheckinFields : s[f] \in CheckinFields[f]
<1> SUFFICES ASSUME NEW f \in DOMAIN CheckinFields PROVE s[f] \in CheckinFields[f]
  OBVIOUS
<1>1. f \in {"enabled", "mode", "amount", "min", "max", "ranges", "cap", "budget", "action", "zone", "step", "days"}
  BY CheckinFieldsAre DEF AllFields, CountingFields, PlainFields
<1>2. AbsoluteMax \in Nat
  BY CheckinDefaultsAssumption
<1>3. f = "mode" \/ f = "action" => s[f] \in Texts
  BY CheckinSettledIs, ActionsAreTexts
<1>4. CASE f \in {"enabled", "ranges", "zone", "mode", "action"}
  BY <1>3, <1>4, CheckinSettledIs, CheckinFieldsAre
<1>5. CASE f \in {"amount", "min", "max", "cap", "budget", "step", "days"}
  <2>1. s[f] \in Int
    BY <1>2, <1>5, CheckinSettledIs
  <2>2. CheckinFields[f] = Int
    BY <1>5, CheckinFieldsAre
  <2> QED
    BY <2>1, <2>2
<1> QED
  BY <1>1, <1>4, <1>5

\* Rows that hold the amounts of settings, and for the rest what fits.
LEMMA RowsFrom ==
  ASSUME NEW kv, NEW s \in CheckinSettled,
         kv = [k \in DOMAIN kv |-> kv[k]],
         AmountKeys \subseteq DOMAIN kv, DOMAIN kv \subseteq DOMAIN CheckinFields,
         \A k \in AmountKeys : kv[k] = s[k],
         \A k \in DOMAIN kv : kv[k] \in CheckinFields[k],
         "action" \in DOMAIN kv => kv["action"] \in Actions
  PROVE  CheckinRows(kv)
<1>1. {"mode", "amount", "min", "max", "cap"} \subseteq AmountKeys
  BY DEF AmountKeys, RewardKeys
<1>2. kv.mode = s.mode /\ kv.amount = s.amount /\ kv.min = s.min /\ kv.max = s.max /\ kv.cap = s.cap
  BY <1>1
<1>3. s.mode \in Modes /\ s.cap \in 1..AbsoluteMax /\ s.min \in Nat \ {0} /\ AmountsFit(s)
  BY CheckinSettledIs
<1>4. AmountsFit(kv)
  BY <1>2, <1>3 DEF AmountsFit
<1>5. WellTyped(kv, CheckinFields)
  BY DEF WellTyped
<1>6. kv.min > 0
  BY <1>2, <1>3
<1> QED
  BY <1>2, <1>3, <1>4, <1>5, <1>6 DEF CheckinRows

\* Writing the keys of an update.
LEMMA WrittenAreRows ==
  ASSUME NEW kv, NoRowsOr(kv), NEW s \in CheckinSettled, NEW new, new = [k \in DOMAIN new |-> s[k]],
         AmountKeys \subseteq DOMAIN new, DOMAIN new \subseteq DOMAIN CheckinFields
  PROVE  CheckinRows(Written(kv, new))
<1> DEFINE w == Written(kv, new)
<1>1. w = [k \in DOMAIN w |-> w[k]] /\ DOMAIN w = DOMAIN kv \cup DOMAIN new
      /\ \A k \in DOMAIN w : w[k] = IF k \in DOMAIN new THEN s[k] ELSE kv[k]
  BY DEF Written
<1> HIDE DEF w
<1>2. DOMAIN kv \subseteq DOMAIN CheckinFields /\ (\A k \in DOMAIN kv : kv[k] \in CheckinFields[k])
      /\ ("action" \in DOMAIN kv => kv["action"] \in Actions)
  BY CheckinRowsAre DEF NoRowsOr
<1>3. \A k \in DOMAIN new : s[k] \in CheckinFields[k]
  BY SettledFits
<1>4. s["action"] \in Actions
  BY CheckinSettledIs
<1>5. \A k \in AmountKeys : w[k] = s[k]
  BY <1>1
<1>6. \A k \in DOMAIN w : w[k] \in CheckinFields[k]
  BY <1>1, <1>2, <1>3
<1>7. "action" \in DOMAIN w => w["action"] \in Actions
  BY <1>1, <1>2, <1>4
<1>8. AmountKeys \subseteq DOMAIN w /\ DOMAIN w \subseteq DOMAIN CheckinFields
  BY <1>1, <1>2
<1>9. CheckinRows(w)
  BY <1>1, <1>5, <1>6, <1>7, <1>8, RowsFrom
<1> QED
  BY <1>9 DEF w

LEMMA WrittenOnRows ==
  ASSUME NEW kv, NoRowsOr(kv)
  PROVE  /\ CheckinReload(kv) \in CheckinSettled
         /\ \A f \in PlainFields : CheckinReload(kv)[f] = Plain(kv, f)
BY CheckinRowsRead, CheckinNoRowsRead DEF NoRowsOr

\* An accepted update is read back, if the rows said before what was in force.
LEMMA UpdateReadsBack ==
  ASSUME NEW kv, NoRowsOr(kv), NEW cur \in CheckinSettled, Same(CheckinReload(kv), cur),
         NEW in, WellTyped(in, CheckinFields), CheckinUpdate(cur, in).ok
  PROVE  LET u == CheckinUpdate(cur, in)
             w == Written(kv, u.kv)
         IN CheckinRows(w) /\ Same(CheckinReload(w), u.next)
<1> DEFINE u == CheckinUpdate(cur, in)
           n == u.next
           o == Overlay(cur, in)
           w == Written(kv, u.kv)
           r == CheckinReload(w)
<1>1. n \in CheckinSettled
  BY CheckinUpdated
<1>2. /\ \A f \in PlainFields \ {"action"} : n[f] = o[f]
      /\ n.action = Fallback(o.action, o.action = "disable", "block")
      /\ u.kv = [k \in DOMAIN u.kv |-> n[k]]
      /\ AmountKeys \subseteq DOMAIN u.kv
      /\ DOMAIN u.kv \subseteq AmountKeys \cup {"ranges"} \cup (PlainKeys \cap DOMAIN in)
      /\ PlainKeys \cap DOMAIN in \subseteq DOMAIN u.kv
  BY CheckinUpdateIs
<1>3. \A f \in AllFields : o[f] = IF f \in DOMAIN in THEN in[f] ELSE cur[f]
  BY OverlaidTypes
<1> HIDE DEF u, n, o
<1>4. DOMAIN u.kv \subseteq DOMAIN CheckinFields
  BY <1>2, CheckinFieldsAre DEF AmountKeys, RewardKeys, PlainKeys, AllFields, CountingFields, PlainFields
<1>5. CheckinRows(w)
  BY <1>1, <1>2, <1>4, WrittenAreRows
<1>6. r.mode = w.mode /\ r.min = w.min /\ r.max = w.max /\ r.cap = w.cap
      /\ \A f \in PlainFields : r[f] = Plain(w, f)
  BY <1>5, CheckinRowsRead
<1>7. DOMAIN w = DOMAIN kv \cup DOMAIN u.kv
      /\ \A k \in DOMAIN w : w[k] = IF k \in DOMAIN u.kv THEN n[k] ELSE kv[k]
  BY <1>2 DEF Written
<1>8. \A f \in PlainFields : cur[f] = Plain(kv, f)
  BY WrittenOnRows DEF Same, CountingFields
<1> HIDE DEF w, r
<1>9. {"mode", "min", "max", "cap"} \subseteq DOMAIN u.kv
  BY <1>2 DEF AmountKeys, RewardKeys
<1>10. r.mode = n.mode /\ r.min = n.min /\ r.max = n.max /\ r.cap = n.cap
  BY <1>6, <1>7, <1>9
<1>11. ASSUME NEW f \in PlainFields PROVE r[f] = n[f]
  <2>1. CASE f \in DOMAIN u.kv
    BY <1>6, <1>7, <2>1 DEF Plain
  <2>2. CASE f \notin DOMAIN u.kv
    <3>1. f \notin DOMAIN in
      BY <1>2, <2>2 DEF PlainKeys, PlainFields
    <3>2. o[f] = cur[f]
      BY <1>3, <3>1 DEF AllFields, CountingFields
    <3>3. cur.action \in Actions
      BY CheckinSettledIs
    <3>4. n[f] = cur[f]
      <4>1. CASE f = "action"
        BY <1>2, <3>2, <3>3, <4>1 DEF Actions, Fallback
      <4>2. CASE f # "action"
        BY <1>2, <3>2, <4>2
      <4> QED
        BY <4>1, <4>2
    <3>5. Plain(w, f) = Plain(kv, f)
      BY <1>7, <2>2 DEF Plain
    <3> QED
      BY <1>6, <1>8, <3>4, <3>5
  <2> QED
    BY <2>1, <2>2
<1>12. Same(r, n)
  BY <1>10, <1>11 DEF Same, CountingFields
<1> QED
  BY <1>5, <1>12 DEF w, r, n, u

\* What a start stores of clamped amounts are rows again.
LEMMA ClampedAreRows ==
  ASSUME NEW kv, NoRowsOr(kv), NEW rt \in CheckinSettled
  PROVE  LET w == PersistClamped(rt, kv)
         IN IF rt.clamped
            THEN /\ CheckinRows(w) /\ DOMAIN w = DOMAIN kv \cup ClampedKeys
                 /\ \A k \in DOMAIN w : w[k] = IF k \in ClampedKeys THEN rt[k] ELSE kv[k]
            ELSE w = kv
<1> DEFINE w == PersistClamped(rt, kv)
<1>1. CASE ~rt.clamped
  BY <1>1 DEF PersistClamped
<1>2. CASE rt.clamped
  <2>1. DOMAIN w = DOMAIN kv \cup ClampedKeys /\ w = [k \in DOMAIN w |-> w[k]]
        /\ \A k \in DOMAIN w : w[k] = IF k \in ClampedKeys THEN rt[k] ELSE kv[k]
    BY <1>2 DEF PersistClamped
  <2> HIDE DEF w
  <2>2. AmountKeys \subseteq ClampedKeys /\ ClampedKeys \subseteq DOMAIN CheckinFields
    BY CheckinFieldsAre DEF AmountKeys, ClampedKeys, RewardKeys, AllFields, CountingFields, PlainFields
  <2>3. DOMAIN kv \subseteq DOMAIN CheckinFields /\ \A k \in DOMAIN kv : kv[k] \in CheckinFields[k]
    BY CheckinRowsAre DEF NoRowsOr
  <2>4. \A k \in DOMAIN CheckinFields : rt[k] \in CheckinFields[k]
    BY SettledFits
  <2>5. \A k \in DOMAIN w : w[k] \in CheckinFields[k]
    BY <2>1, <2>2, <2>3, <2>4
  <2>6. w["action"] \in Actions
    <3>1. rt.action \in Actions
      BY CheckinSettledIs
    <3> QED
      BY <2>1, <3>1 DEF ClampedKeys
  <2>7. \A k \in AmountKeys : w[k] = rt[k]
    BY <2>1, <2>2
  <2>8. AmountKeys \subseteq DOMAIN w /\ DOMAIN w \subseteq DOMAIN CheckinFields
    BY <2>1, <2>2, <2>3
  <2>9. CheckinRows(w)
    BY <2>1, <2>5, <2>6, <2>7, <2>8, RowsFrom
  <2> QED
    BY <1>2, <2>1, <2>9 DEF w
<1> QED
  BY <1>1, <1>2

\* What a start stores of clamped amounts is what it has read.
LEMMA ClampedReadsBack ==
  ASSUME NEW kv, NoRowsOr(kv)
  PROVE  LET rt == CheckinReload(kv)
             w == PersistClamped(rt, kv)
         IN (w = kv \/ CheckinRows(w)) /\ Same(CheckinReload(w), rt)
<1> DEFINE rt == CheckinReload(kv)
           w == PersistClamped(rt, kv)
           r == CheckinReload(w)
<1>1. rt \in CheckinSettled /\ \A f \in PlainFields : rt[f] = Plain(kv, f)
  BY WrittenOnRows
<1>2. CASE ~rt.clamped
  <2>1. w = kv
    BY <1>2 DEF PersistClamped
  <2> QED
    BY <2>1 DEF Same
<1>3. CASE rt.clamped
  <2> HIDE DEF rt
  <2>1. /\ CheckinRows(w) /\ DOMAIN w = DOMAIN kv \cup ClampedKeys
        /\ \A k \in DOMAIN w : w[k] = IF k \in ClampedKeys THEN rt[k] ELSE kv[k]
    BY <1>1, <1>3, ClampedAreRows
  <2> HIDE DEF w
  <2>2. r.mode = w.mode /\ r.min = w.min /\ r.max = w.max /\ r.cap = w.cap
        /\ \A f \in PlainFields : r[f] = Plain(w, f)
    BY <2>1, CheckinRowsRead
  <2> HIDE DEF r
  <2>3. {"mode", "min", "max", "cap"} \subseteq ClampedKeys
    BY DEF ClampedKeys, RewardKeys
  <2>4. r.mode = rt.mode /\ r.min = rt.min /\ r.max = rt.max /\ r.cap = rt.cap
    BY <2>1, <2>2, <2>3
  <2>5. ASSUME NEW f \in PlainFields PROVE r[f] = rt[f]
    <3>1. CASE f \in ClampedKeys
      BY <2>1, <2>2, <3>1 DEF Plain
    <3>2. CASE f \notin ClampedKeys
      BY <1>1, <2>1, <2>2, <3>2 DEF Plain
    <3> QED
      BY <3>1, <3>2
  <2>6. Same(r, rt)
    BY <2>4, <2>5 DEF Same, CountingFields
  <2> QED
    BY <2>1, <2>6 DEF r, w, rt
<1> QED
  BY <1>2, <1>3

\* After a start nobody asks any more whether amounts were clamped.
LEMMA ClampedForgotten ==
  ASSUME NEW s \in CheckinSettled
  PROVE  LET t == [s EXCEPT !.clamped = FALSE] IN t \in CheckinSettled /\ Same(t, s)
<1> DEFINE t == [s EXCEPT !.clamped = FALSE]
<1>1. s \in CheckinTypes /\ AmountsFit(s) /\ Ranges(s.ranges, s.cap) = s.ranges /\ DOMAIN s = AllFields
  BY CheckinSettledIs
<1>2. t \in CheckinTypes
  BY <1>1 DEF CheckinTypes
<1>3. \A f \in AllFields \ {"clamped"} : t[f] = s[f]
  BY <1>1
<1> HIDE DEF t
<1>4. {"mode", "amount", "min", "max", "cap", "ranges"} \subseteq AllFields \ {"clamped"}
  BY DEF AllFields, CountingFields, PlainFields
<1>5. t.mode = s.mode /\ t.amount = s.amount /\ t.min = s.min /\ t.max = s.max /\ t.cap = s.cap /\ t.ranges = s.ranges
  BY <1>3, <1>4
<1>6. AmountsFit(t)
  BY <1>1, <1>5 DEF AmountsFit
<1>7. CountingFields \subseteq AllFields \ {"clamped"}
  BY DEF AllFields, CountingFields, PlainFields
<1>8. Same(t, s)
  BY <1>3, <1>7 DEF Same
<1> QED
  BY <1>1, <1>2, <1>5, <1>6, <1>8 DEF CheckinSettled, t

-----------------------------------------------------------------------------
\* A switch keeps the mode, the amounts and every other field.
LEMMA CheckinSwitched ==
  ASSUME NEW cur \in CheckinSettled, NEW on \in BOOLEAN, CheckinUpdate(cur, [enabled |-> on]).ok
  PROVE  LET n == CheckinUpdate(cur, [enabled |-> on]).next
         IN /\ n \in CheckinSettled
            /\ \A f \in CountingFields \ {"enabled"} : n[f] = cur[f]
            /\ RewardsOf(n) = RewardsOf(cur)
<1> DEFINE in == [enabled |-> on]
           n == CheckinUpdate(cur, in).next
           o == Overlay(cur, in)
<1>1. WellTyped(in, CheckinFields)
  BY CheckinFieldsAre DEF WellTyped
<1>2. n \in CheckinSettled
  BY <1>1, CheckinUpdated
<1>3. /\ \A f \in PlainFields \ {"action"} : n[f] = o[f]
      /\ n.action = Fallback(o.action, o.action = "disable", "block")
      /\ n.cap = o.cap
      /\ n.mode = ModeIn(cur, in) /\ n.mode \in Modes
      /\ n.mode = "random" =>
            n.min = LoOf(cur, in) /\ n.max = HiOf(cur, in) /\ n.ranges = Ranges(o.ranges, n.cap)
      /\ n.mode = "fixed" =>
            n.min = FixedIn(cur, in) /\ n.max = FixedIn(cur, in) /\ n.amount = FixedIn(cur, in)
  BY <1>1, CheckinUpdateIs
<1>4. \A f \in AllFields : o[f] = IF f \in DOMAIN in THEN in[f] ELSE cur[f]
  BY <1>1, OverlaidTypes
<1>5. DOMAIN in = {"enabled"}
  OBVIOUS
<1>6. \A f \in AllFields \ {"enabled"} : o[f] = cur[f]
  BY <1>4, <1>5
<1>7. {"mode", "amount", "min", "max", "cap", "ranges", "action"} \subseteq AllFields \ {"enabled"}
  BY DEF AllFields, CountingFields, PlainFields
<1>8. o.mode = cur.mode /\ o.amount = cur.amount /\ o.min = cur.min /\ o.max = cur.max /\ o.cap = cur.cap
      /\ o.ranges = cur.ranges /\ o.action = cur.action
  BY <1>6, <1>7
<1>9. ModeIn(cur, in) = cur.mode
  BY <1>5 DEF ModeIn, ModeOf
<1>10. FixedOf(o, in, o.min) = o.amount
  BY <1>5 DEF FixedOf
<1>11. /\ cur.min \in Nat \ {0} /\ cur.max \in Nat \ {0} /\ cur.cap \in Int /\ cur.amount \in Int
       /\ cur.min <= cur.max /\ cur.max <= cur.cap
       /\ cur.mode = "fixed" => cur.amount = cur.min /\ cur.amount = cur.max
       /\ cur.action \in Actions /\ Ranges(cur.ranges, cur.cap) = cur.ranges /\ cur.mode \in Modes
  BY CheckinSettledIs, CheckinDefaultsAssumption DEF AmountsFit
<1>12. LoOf(cur, in) = AtMost(o.min, o.cap) /\ HiOf(cur, in) = AtMost(o.max, o.cap)
       /\ FixedIn(cur, in) = AtMost(o.amount, o.cap)
  BY <1>10 DEF LoOf, HiOf, FixedIn
<1> HIDE DEF in, n, o
<1>13. LoOf(cur, in) = cur.min /\ HiOf(cur, in) = cur.max /\ (cur.mode = "fixed" => FixedIn(cur, in) = cur.amount)
  BY <1>8, <1>11, <1>12 DEF AtMost
<1>14. n.mode = cur.mode /\ n.cap = cur.cap
  BY <1>3, <1>8, <1>9
<1>15. n.min = cur.min /\ n.max = cur.max /\ (cur.mode = "fixed" => n.amount = cur.amount)
       /\ (cur.mode = "random" => n.ranges = cur.ranges)
  BY <1>3, <1>8, <1>11, <1>13, <1>14 DEF Modes
<1>16. n.action = cur.action
  BY <1>3, <1>8, <1>11 DEF Actions, Fallback
<1>17. \A f \in PlainFields \ {"action", "enabled"} : n[f] = cur[f]
  BY <1>3, <1>6 DEF AllFields, CountingFields
<1>18. \A f \in CountingFields \ {"enabled"} : n[f] = cur[f]
  BY <1>14, <1>15, <1>16, <1>17 DEF CountingFields
<1>19. RewardsOf(n) = RewardsOf(cur)
  <2>1. CASE cur.mode = "fixed"
    BY <1>14, <1>15, <2>1 DEF RewardsOf
  <2>2. CASE cur.mode = "random"
    BY <1>14, <1>15, <2>2 DEF RewardsOf
  <2> QED
    BY <1>11, <2>1, <2>2 DEF Modes
<1> QED
  BY <1>2, <1>18, <1>19 DEF n, in

LEMMA PayloadIs ==
  ASSUME NEW p \in CheckinPayloads
  PROVE  /\ DOMAIN p = AllFields \ {"clamped"} /\ AmountsFit(p) /\ Ranges(p.ranges, p.cap) = p.ranges
         /\ p.enabled \in BOOLEAN /\ p.mode \in Modes /\ p.amount \in Int
         /\ p.min \in Nat \ {0} /\ p.max \in Nat \ {0} /\ p.ranges \in SUBSET (Int \X Int)
         /\ p.cap \in 1..AbsoluteMax /\ p.budget \in Int /\ p.action \in Actions
         /\ p.zone \in Texts /\ p.step \in Int /\ p.days \in Int
<1>1. p \in [enabled : BOOLEAN, mode : Modes, amount : Int, min : Nat \ {0}, max : Nat \ {0}, ranges : SUBSET (Int \X Int),
             cap : 1..AbsoluteMax, budget : Int, action : Actions, zone : Texts, step : Int, days : Int]
      /\ AmountsFit(p) /\ Ranges(p.ranges, p.cap) = p.ranges
  BY DEF CheckinPayloads
<1>2. DOMAIN p = {"enabled", "mode", "amount", "min", "max", "ranges", "cap", "budget", "action", "zone", "step", "days"}
  BY <1>1
<1>3. DOMAIN p = AllFields \ {"clamped"}
  BY <1>2 DEF AllFields, CountingFields, PlainFields
<1> QED
  BY <1>1, <1>3

\* The audit keeps settings as they were.
LEMMA PayloadKept == ASSUME NEW s \in CheckinSettled PROVE PayloadOf(s) \in CheckinPayloads
<1> DEFINE p == PayloadOf(s)
<1>1. p = [f \in AllFields \ {"clamped"} |-> s[f]]
  BY CheckinSettledIs DEF PayloadOf
<1>2. AllFields \ {"clamped"} =
        {"enabled", "mode", "amount", "min", "max", "ranges", "cap", "budget", "action", "zone", "step", "days"}
  BY DEF AllFields, CountingFields, PlainFields
<1> HIDE DEF p
<1>3. /\ s.enabled \in BOOLEAN /\ s.mode \in Modes /\ s.amount \in Int
      /\ s.min \in Nat \ {0} /\ s.max \in Nat \ {0} /\ s.ranges \in SUBSET (Int \X Int)
      /\ s.cap \in 1..AbsoluteMax /\ s.budget \in Int /\ s.action \in Actions
      /\ s.zone \in Texts /\ s.step \in Int /\ s.days \in Int /\ AmountsFit(s)
      /\ Ranges(s.ranges, s.cap) = s.ranges
  BY CheckinSettledIs
<1>4. p = [enabled |-> s.enabled, mode |-> s.mode, amount |-> s.amount, min |-> s.min, max |-> s.max,
           ranges |-> s.ranges, cap |-> s.cap, budget |-> s.budget, action |-> s.action, zone |-> s.zone,
           step |-> s.step, days |-> s.days]
  BY <1>1, <1>2
<1>5. AmountsFit(p) /\ Ranges(p.ranges, p.cap) = p.ranges
  BY <1>3, <1>4 DEF AmountsFit
<1>6. p \in CheckinPayloads
  BY <1>3, <1>4, <1>5 DEF CheckinPayloads
<1> QED
  BY <1>6 DEF p

\* What a rollback asks for names every field, the ranges if there are valid ones.
LEMMA RollbackNames ==
  ASSUME NEW p \in CheckinPayloads
  PROVE  LET in == UpdateInputOf(p)
         IN /\ WellTyped(in, CheckinFields)
            /\ AllFields \ {"clamped", "ranges"} \subseteq DOMAIN in
            /\ \A f \in DOMAIN in : in[f] = p[f]
            /\ "ranges" \in DOMAIN in <=> NamesRanges(p)
<1> DEFINE in == UpdateInputOf(p)
<1>1. DOMAIN p = AllFields \ {"clamped"} /\ "ranges" \in DOMAIN p
  BY PayloadIs DEF AllFields, CountingFields, PlainFields
<1>2. DOMAIN in \subseteq DOMAIN p /\ AllFields \ {"clamped", "ranges"} \subseteq DOMAIN in
      /\ (\A f \in DOMAIN in : in[f] = p[f])
      /\ ("ranges" \in DOMAIN in <=> NamesRanges(p))
  BY <1>1 DEF UpdateInputOf
<1> HIDE DEF in
<1>3. \A f \in DOMAIN p : p[f] \in CheckinFields[f]
  <2> SUFFICES ASSUME NEW f \in DOMAIN p PROVE p[f] \in CheckinFields[f]
    OBVIOUS
  <2>1. f \in {"enabled", "mode", "amount", "min", "max", "ranges", "cap", "budget", "action", "zone", "step", "days"}
    BY <1>1 DEF AllFields, CountingFields, PlainFields
  <2>2. AbsoluteMax \in Nat
    BY CheckinDefaultsAssumption
  <2>3. f = "mode" \/ f = "action" => p[f] \in Texts
    BY PayloadIs, ActionsAreTexts
  <2>4. CASE f \in {"enabled", "ranges", "zone", "mode", "action"}
    BY <2>3, <2>4, PayloadIs, CheckinFieldsAre
  <2>5. CASE f \in {"amount", "min", "max", "cap", "budget", "step", "days"}
    <3>1. p[f] \in Int
      BY <2>2, <2>5, PayloadIs
    <3>2. CheckinFields[f] = Int
      BY <2>5, CheckinFieldsAre
    <3> QED
      BY <3>1, <3>2
  <2> QED
    BY <2>1, <2>4, <2>5
<1>4. WellTyped(in, CheckinFields)
  BY <1>2, <1>3 DEF WellTyped
<1> QED
  BY <1>2, <1>4 DEF in

\* The ranges that are in force after a rollback.
RangesBack(cur, p) == IF NamesRanges(p) THEN p.ranges ELSE Ranges(cur.ranges, p.cap)

\* A rollback brings back the amounts, and the rewards but for ranges that it
\* does not name.
LEMMA CheckinRolledBack ==
  ASSUME NEW cur \in CheckinSettled, NEW p \in CheckinPayloads, CheckinUpdate(cur, UpdateInputOf(p)).ok
  PROVE  LET n == CheckinUpdate(cur, UpdateInputOf(p)).next
         IN /\ \A f \in {"enabled", "mode", "min", "max", "cap", "budget"} : n[f] = p[f]
            /\ RewardsOf(n) = RewardsOf([p EXCEPT !.ranges = RangesBack(cur, p)])
<1> DEFINE in == UpdateInputOf(p)
           n == CheckinUpdate(cur, in).next
           o == Overlay(cur, in)
<1>1. /\ WellTyped(in, CheckinFields)
      /\ AllFields \ {"clamped", "ranges"} \subseteq DOMAIN in
      /\ \A f \in DOMAIN in : in[f] = p[f]
      /\ "ranges" \in DOMAIN in <=> NamesRanges(p)
  BY RollbackNames
<1>2. /\ \A f \in PlainFields \ {"action"} : n[f] = o[f]
      /\ n.cap = o.cap
      /\ n.mode = ModeIn(cur, in) /\ n.mode \in Modes
      /\ n.mode = "random" => n.min = LoOf(cur, in) /\ n.max = HiOf(cur, in) /\ n.ranges = Ranges(o.ranges, n.cap)
      /\ n.mode = "fixed" => n.min = FixedIn(cur, in) /\ n.max = FixedIn(cur, in) /\ n.amount = FixedIn(cur, in)
  BY <1>1, CheckinUpdateIs
<1>3. \A f \in AllFields : o[f] = IF f \in DOMAIN in THEN in[f] ELSE cur[f]
  BY <1>1, OverlaidTypes
<1>4. {"enabled", "mode", "amount", "min", "max", "cap", "budget"} \subseteq AllFields \ {"clamped", "ranges"}
  BY DEF AllFields, CountingFields, PlainFields
<1>5. \A f \in {"enabled", "mode", "amount", "min", "max", "cap", "budget"} : f \in DOMAIN in /\ o[f] = p[f] /\ in[f] = p[f]
  BY <1>1, <1>3, <1>4
<1>6. /\ p.mode \in Modes /\ p.min \in Nat \ {0} /\ p.max \in Nat \ {0} /\ p.cap \in Int /\ p.amount \in Int
      /\ p.min <= p.max /\ p.max <= p.cap /\ (p.mode = "fixed" => p.amount = p.min /\ p.amount = p.max)
  BY PayloadIs, CheckinDefaultsAssumption DEF AmountsFit
<1> HIDE DEF in, n, o
<1>7. "mode" \in DOMAIN in /\ in.mode = p.mode
  BY <1>5
<1>8. ModeIn(cur, in) = p.mode
  BY <1>6, <1>7 DEF ModeIn, ModeOf, Fallback, Modes
<1>9. o.min = p.min /\ o.max = p.max /\ o.cap = p.cap /\ o.amount = p.amount
  BY <1>5
<1>10. LoOf(cur, in) = AtMost(o.min, o.cap) /\ HiOf(cur, in) = AtMost(o.max, o.cap)
       /\ FixedIn(cur, in) = AtMost(FixedOf(o, in, o.min), o.cap)
  BY DEF LoOf, HiOf, FixedIn, o
<1>11. LoOf(cur, in) = p.min /\ HiOf(cur, in) = p.max
  BY <1>6, <1>9, <1>10 DEF AtMost
<1>12. p.mode = "fixed" => FixedIn(cur, in) = p.amount
  BY <1>6, <1>9, <1>10 DEF AtMost, FixedOf
<1>13. n.mode = p.mode /\ n.min = p.min /\ n.max = p.max
  BY <1>2, <1>6, <1>8, <1>11, <1>12 DEF Modes
<1>14. n.enabled = p.enabled /\ n.budget = p.budget /\ n.cap = p.cap
  BY <1>2, <1>5 DEF PlainFields
<1>15. \A f \in {"enabled", "mode", "min", "max", "cap", "budget"} : n[f] = p[f]
  BY <1>13, <1>14
<1> DEFINE back == [p EXCEPT !.ranges = RangesBack(cur, p)]
<1>16. back.mode = p.mode /\ back.min = p.min /\ back.max = p.max /\ back.cap = p.cap /\ back.amount = p.amount
       /\ back.ranges = RangesBack(cur, p)
  BY PayloadIs DEF AllFields, CountingFields, PlainFields
<1> HIDE DEF back
<1>17. p.mode = "random" => n.ranges = back.ranges
  <2>1. Ranges(p.ranges, p.cap) = p.ranges
    BY PayloadIs
  <2>2. o.ranges = IF NamesRanges(p) THEN p.ranges ELSE cur.ranges
    BY <1>1, <1>3 DEF AllFields, CountingFields, PlainFields
  <2>3. p.mode = "random" => n.ranges = Ranges(o.ranges, p.cap)
    BY <1>2, <1>13, <1>14
  <2> QED
    BY <1>16, <2>1, <2>2, <2>3 DEF RangesBack
<1>18. p.mode = "fixed" => n.amount = back.amount
  BY <1>2, <1>12, <1>13, <1>16
<1>19. RewardsOf(n) = RewardsOf(back)
  <2>1. CASE p.mode = "fixed"
    BY <1>13, <1>14, <1>16, <1>18, <2>1 DEF RewardsOf
  <2>2. CASE p.mode = "random"
    BY <1>13, <1>14, <1>16, <1>17, <2>2 DEF RewardsOf
  <2> QED
    BY <1>6, <2>1, <2>2 DEF Modes
<1> QED
  BY <1>15, <1>19 DEF n, in, back

-----------------------------------------------------------------------------
(***************************************************************************)
(* The modules together: what an update, a start and a switch make of the    *)
(* settings of the module that is looked at.                                  *)
(***************************************************************************)
Kept == {"patrol", "notify", "report", "lottery", "redistribution", "tasks", "media"}

LEMMA ModulesAre == ASSUME NEW m \in Modules PROVE m \in Kept \cup {"checkin"}
BY OffersAssumption DEF Kept

LEMMA SettledOf ==
  /\ Settled("checkin") = CheckinSettled /\ Settled("patrol") = PatrolSettled /\ Settled("notify") = NotifySettled
  /\ Settled("report") = ReportSettled /\ Settled("lottery") = LotterySettled
  /\ Settled("redistribution") = RedistributionSettled /\ Settled("tasks") = TaskSettled
  /\ Settled("media") = MediaSettled
BY DEF Settled

LEMMA FieldsAre ==
  /\ FieldsOf("checkin") = CheckinFields /\ FieldsOf("patrol") = PatrolFields /\ FieldsOf("notify") = NotifyFields
  /\ FieldsOf("report") = ReportFields /\ FieldsOf("lottery") = LotteryFields
  /\ FieldsOf("redistribution") = RedistributionFields /\ FieldsOf("tasks") = TaskFields
  /\ FieldsOf("media") = MediaFields
BY DEF FieldsOf

LEMMA UpdateIs ==
  ASSUME NEW m, NEW cur, NEW in
  PROVE  /\ m = "checkin" => Update(m, cur, in) = CheckinUpdate(cur, in)
         /\ m = "patrol" => Update(m, cur, in) = PatrolUpdate(cur, in)
         /\ m = "notify" => Update(m, cur, in) = NotifyUpdate(cur, in)
         /\ m = "report" => Update(m, cur, in) = ReportUpdate(cur, in)
         /\ m = "lottery" => Update(m, cur, in) = LotteryUpdate(cur, in)
         /\ m = "redistribution" => Update(m, cur, in) = RedistributionUpdate(cur, in)
         /\ m = "tasks" => Update(m, cur, in) = TaskUpdate(cur, in)
         /\ m = "media" => Update(m, cur, in) = MediaUpdate(cur, in)
BY DEF Update

LEMMA ReloadIs ==
  ASSUME NEW kv
  PROVE  /\ Reload("checkin", kv) = CheckinReload(kv) /\ Reload("patrol", kv) = PatrolReload(kv)
         /\ Reload("notify", kv) = NotifyReload(kv) /\ Reload("report", kv) = ReportReload(kv)
         /\ Reload("lottery", kv) = LotteryReload(kv)
         /\ Reload("redistribution", kv) = RedistributionReload(kv)
         /\ Reload("tasks", kv) = TaskReload(kv) /\ Reload("media", kv) = MediaReload(kv)
BY DEF Reload

\* An accepted update: what it makes of the settings, and what it writes.
LEMMA UpdateSettles ==
  ASSUME NEW m \in Modules, NEW cur \in Settled(m), NEW in, WellTyped(in, FieldsOf(m)), Update(m, cur, in).ok
  PROVE  LET u == Update(m, cur, in)
         IN /\ u.next \in Settled(m)
            /\ m # "checkin" => u.kv = u.next
            /\ m = "redistribution" => RedistributionValid(u.next)
            /\ m = "checkin" =>
                  /\ AmountKeys \subseteq DOMAIN u.kv /\ DOMAIN u.kv \subseteq DOMAIN CheckinFields
                  /\ u.kv = [k \in DOMAIN u.kv |-> u.next[k]]
<1>1. CASE m = "checkin"
  <2>1. cur \in CheckinSettled /\ WellTyped(in, CheckinFields) /\ Update(m, cur, in) = CheckinUpdate(cur, in)
    BY <1>1, SettledOf, FieldsAre, UpdateIs
  <2> DEFINE u == CheckinUpdate(cur, in)
  <2>2. u.ok
    BY <2>1
  <2>3. u.next \in CheckinSettled
    BY <2>1, <2>2, CheckinUpdated
  <2>4. /\ u.kv = [k \in DOMAIN u.kv |-> u.next[k]]
        /\ AmountKeys \subseteq DOMAIN u.kv
        /\ DOMAIN u.kv \subseteq AmountKeys \cup {"ranges"} \cup (PlainKeys \cap DOMAIN in)
    BY <2>1, <2>2, CheckinUpdateIs
  <2> HIDE DEF u
  <2>5. DOMAIN u.kv \subseteq DOMAIN CheckinFields
    BY <2>4, CheckinFieldsAre DEF AmountKeys, RewardKeys, PlainKeys, AllFields, CountingFields, PlainFields
  <2> QED
    BY <1>1, <2>1, <2>3, <2>4, <2>5, SettledOf DEF u
<1>2. CASE m = "patrol"
  BY <1>2, SettledOf, FieldsAre, UpdateIs, PatrolUpdated
<1>3. CASE m = "notify"
  BY <1>3, SettledOf, FieldsAre, UpdateIs, NotifyUpdated
<1>4. CASE m = "report"
  BY <1>4, SettledOf, FieldsAre, UpdateIs, ReportUpdated
<1>5. CASE m = "lottery"
  BY <1>5, SettledOf, FieldsAre, UpdateIs, LotteryUpdated
<1>6. CASE m = "redistribution"
  BY <1>6, SettledOf, FieldsAre, UpdateIs, RedistributionUpdated
<1>7. CASE m = "tasks"
  BY <1>7, SettledOf, FieldsAre, UpdateIs, TaskUpdated
<1>8. CASE m = "media"
  BY <1>8, SettledOf, FieldsAre, UpdateIs, MediaUpdated
<1> QED
  BY <1>1, <1>2, <1>3, <1>4, <1>5, <1>6, <1>7, <1>8, ModulesAre DEF Kept

LEMMA PartTyped ==
  ASSUME NEW kv, NEW types, WellTyped(kv, types), NEW lost
  PROVE  WellTyped([k \in DOMAIN kv \ lost |-> kv[k]], types)
BY DEF WellTyped

\* The settings of the modules that are read key by key fit their fields.
LEMMA SettledTyped ==
  ASSUME NEW s
  PROVE  /\ s \in PatrolSettled => WellTyped(s, PatrolFields)
         /\ s \in NotifySettled => WellTyped(s, NotifyFields)
         /\ s \in ReportSettled => WellTyped(s, ReportFields)
         /\ s \in LotterySettled => WellTyped(s, LotteryFields)
         /\ s \in MediaSettled => WellTyped(s, MediaFields)
<1>1. s \in PatrolRaw => WellTyped(s, PatrolFields)
  BY DEF PatrolRaw, PatrolFields, WellTyped
<1>2. s \in NotifyRaw => WellTyped(s, NotifyFields)
  BY DEF NotifyRaw, NotifyFields, WellTyped
<1>3. s \in ReportRaw => WellTyped(s, ReportFields)
  BY DEF ReportRaw, ReportFields, WellTyped
<1>4. s \in LotteryRaw => WellTyped(s, LotteryFields)
  BY DEF LotteryRaw, LotteryFields, WellTyped
<1>5. s \in MediaSettled => WellTyped(s, MediaFields)
  <2>1. {"local", "webdav"} \subseteq Texts
    BY TextsAssumption
  <2> QED
    BY <2>1 DEF MediaSettled, MediaFields, WellTyped
<1> QED
  BY <1>1, <1>2, <1>3, <1>4, <1>5, PatrolSettledRaw, NotifySettledRaw, ReportSettledRaw, LotterySettledRaw

LEMMA NoRowsEmpty == DOMAIN NoRows = {} /\ \A types : WellTyped(NoRows, types)
BY DEF NoRows, WellTyped

LEMMA SettledIsRecord ==
  ASSUME NEW m \in Kept, NEW s \in Settled(m)
  PROVE  s = [k \in DOMAIN s |-> s[k]] /\ \A t \in Settled(m) : DOMAIN t = DOMAIN s
<1>1. CASE m = "patrol"
  <2>1. ASSUME NEW t \in PatrolSettled
        PROVE  t = [k \in DOMAIN t |-> t[k]] /\ DOMAIN t =
                 {"enabled", "cron", "model", "concurrency", "timeout", "action", "prompt",
                                            "keep", "threshold"}
    BY DEF PatrolSettled
  <2>2. Settled(m) = PatrolSettled
    BY <1>1, SettledOf
  <2> QED
    BY <2>1, <2>2
<1>2. CASE m = "notify"
  <2>1. ASSUME NEW t \in NotifySettled
        PROVE  t = [k \in DOMAIN t |-> t[k]] /\ DOMAIN t =
                 {"enabled", "channel", "target", "extra", "secret", "events", "level"}
    BY DEF NotifySettled
  <2>2. Settled(m) = NotifySettled
    BY <1>2, SettledOf
  <2> QED
    BY <2>1, <2>2
<1>3. CASE m = "report"
  <2>1. ASSUME NEW t \in ReportSettled
        PROVE  t = [k \in DOMAIN t |-> t[k]] /\ DOMAIN t =
                 {"enabled", "sendAt", "zone", "cover", "sections"}
    BY DEF ReportSettled
  <2>2. Settled(m) = ReportSettled
    BY <1>3, SettledOf
  <2> QED
    BY <2>1, <2>2
<1>4. CASE m = "lottery"
  <2>1. ASSUME NEW t \in LotterySettled
        PROVE  t = [k \in DOMAIN t |-> t[k]] /\ DOMAIN t =
                 {"enabled", "requireCheckin", "prizes", "budget", "cap"}
    BY DEF LotterySettled
  <2>2. Settled(m) = LotterySettled
    BY <1>4, SettledOf
  <2> QED
    BY <2>1, <2>2
<1>5. CASE m = "redistribution"
  <2>1. ASSUME NEW t \in RedistributionSettled
        PROVE  t = [k \in DOMAIN t |-> t[k]] /\ DOMAIN t =
                 {"enabled", "auto", "cron", "zone", "inactive", "active", "protected",
                                            "excluded", "reclaim", "claim", "poolDays", "draw", "allocation",
                                            "failPercent", "keep"}
    BY DEF RedistributionSettled
  <2>2. Settled(m) = RedistributionSettled
    BY <1>5, SettledOf
  <2> QED
    BY <2>1, <2>2
<1>6. CASE m = "tasks"
  <2>1. ASSUME NEW t \in TaskSettled
        PROVE  t = [k \in DOMAIN t |-> t[k]] /\ DOMAIN t =
                 {"enabled", "defs"}
    BY DEF TaskSettled
  <2>2. Settled(m) = TaskSettled
    BY <1>6, SettledOf
  <2> QED
    BY <2>1, <2>2
<1>7. CASE m = "media"
  <2>1. ASSUME NEW t \in MediaSettled
        PROVE  t = [k \in DOMAIN t |-> t[k]] /\ DOMAIN t =
                 {"driver", "url", "password", "root", "fallback"}
    BY DEF MediaSettled
  <2>2. Settled(m) = MediaSettled
    BY <1>7, SettledOf
  <2> QED
    BY <2>1, <2>2
<1> QED
  BY <1>1, <1>2, <1>3, <1>4, <1>5, <1>6, <1>7 DEF Kept

LEMMA RowsAreRecord ==
  ASSUME NEW m \in Modules, NEW kv, RowsOK(m, kv)
  PROVE  kv = [k \in DOMAIN kv |-> kv[k]]
<1>1. CASE kv = NoRows
  BY <1>1 DEF NoRows
<1>2. CASE m = "checkin" /\ CheckinRows(kv)
  BY <1>2 DEF CheckinRows
<1>3. CASE m # "checkin" /\ kv \in Settled(m)
  BY <1>3, ModulesAre, SettledIsRecord
<1> QED
  BY <1>1, <1>2, <1>3 DEF RowsOK

\* Whatever keys a start cannot read, the settings it puts in force are settled.
LEMMA ReloadSettles ==
  ASSUME NEW m \in Modules, NEW kv, RowsOK(m, kv),
         NEW lost, lost = {} \/ (m \in ReadsAllOrNone => lost = DOMAIN kv)
  PROVE  Reload(m, [k \in DOMAIN kv \ lost |-> kv[k]]) \in Settled(m)
<1> DEFINE r == [k \in DOMAIN kv \ lost |-> kv[k]]
<1>1. kv = [k \in DOMAIN kv |-> kv[k]]
  BY RowsAreRecord
<1>2. ASSUME m \in ReadsAllOrNone PROVE r = kv \/ DOMAIN r = {}
  <2>1. CASE lost = {}
    <3>1. DOMAIN kv \ lost = DOMAIN kv
      BY <2>1
    <3> QED
      BY <1>1, <3>1
  <2>2. CASE lost = DOMAIN kv
    BY <2>2
  <2> QED
    BY <1>2, <2>1, <2>2
<1>3. ASSUME NEW types, WellTyped(kv, types) PROVE WellTyped(r, types)
  BY <1>3, PartTyped
<1>4. kv = NoRows => DOMAIN r = {} /\ \A types : WellTyped(kv, types)
  BY NoRowsEmpty
<1> HIDE DEF r
<1>5. CASE m = "checkin"
  <2>1. m \in ReadsAllOrNone
    BY <1>5 DEF ReadsAllOrNone
  <2>2. NoRowsOr(r)
    BY <1>2, <1>4, <1>5, <2>1 DEF RowsOK, NoRowsOr
  <2>3. CheckinReload(r) \in CheckinSettled
    BY <2>2, WrittenOnRows
  <2> QED
    BY <1>5, <2>3, SettledOf, ReloadIs DEF r
<1>6. CASE m = "patrol"
  <2>1. WellTyped(kv, PatrolFields)
    BY <1>4, <1>6, SettledTyped, SettledOf DEF RowsOK
  <2>2. PatrolReload(r) \in PatrolSettled
    BY <1>3, <2>1, PatrolReads
  <2> QED
    BY <1>6, <2>2, SettledOf, ReloadIs DEF r
<1>7. CASE m = "notify"
  <2>1. WellTyped(kv, NotifyFields)
    BY <1>4, <1>7, SettledTyped, SettledOf DEF RowsOK
  <2>2. NotifyReload(r) \in NotifySettled
    BY <1>3, <2>1, NotifyReads
  <2> QED
    BY <1>7, <2>2, SettledOf, ReloadIs DEF r
<1>8. CASE m = "report"
  <2>1. WellTyped(kv, ReportFields)
    BY <1>4, <1>8, SettledTyped, SettledOf DEF RowsOK
  <2>2. ReportReload(r) \in ReportSettled
    BY <1>3, <2>1, ReportReads
  <2> QED
    BY <1>8, <2>2, SettledOf, ReloadIs DEF r
<1>9. CASE m = "lottery"
  <2>1. WellTyped(kv, LotteryFields)
    BY <1>4, <1>9, SettledTyped, SettledOf DEF RowsOK
  <2>2. LotteryReload(r) \in LotterySettled
    BY <1>3, <2>1, LotteryReads
  <2> QED
    BY <1>9, <2>2, SettledOf, ReloadIs DEF r
<1>10. CASE m = "redistribution"
  <2>1. DOMAIN r = {} \/ (r \in RedistributionSettled /\ RedistributionValid(r))
    BY <1>2, <1>4, <1>10, SettledOf DEF RowsOK, ReadsAllOrNone
  <2>2. RedistributionReload(r) \in RedistributionSettled
    BY <2>1, RedistributionReads
  <2> QED
    BY <1>10, <2>2, SettledOf, ReloadIs DEF r
<1>11. CASE m = "tasks"
  <2>1. DOMAIN r = {} \/ r \in TaskSettled
    BY <1>2, <1>4, <1>11, SettledOf DEF RowsOK, ReadsAllOrNone
  <2>2. TaskReload(r) \in TaskSettled
    BY <2>1, TaskReads
  <2> QED
    BY <1>11, <2>2, SettledOf, ReloadIs DEF r
<1>12. CASE m = "media"
  <2>1. WellTyped(kv, MediaFields)
    BY <1>4, <1>12, SettledTyped, SettledOf DEF RowsOK
  <2>2. MediaReload(r) \in MediaSettled
    BY <1>3, <2>1, MediaReads
  <2> QED
    BY <1>12, <2>2, SettledOf, ReloadIs DEF r
<1> QED
  BY <1>5, <1>6, <1>7, <1>8, <1>9, <1>10, <1>11, <1>12, ModulesAre DEF Kept

LEMMA ReloadWhole ==
  ASSUME NEW m \in Modules, NEW kv, RowsOK(m, kv)
  PROVE  Reload(m, kv) \in Settled(m)
<1>1. kv = [k \in DOMAIN kv \ {} |-> kv[k]]
  BY RowsAreRecord
<1>2. Reload(m, [k \in DOMAIN kv \ {} |-> kv[k]]) \in Settled(m)
  BY ReloadSettles
<1> QED
  BY <1>1, <1>2

\* Outside the check-in the rows are the settings, and are read back.
LEMMA ReadsBack ==
  ASSUME NEW m \in Kept, NEW s \in Settled(m), m = "redistribution" => RedistributionValid(s)
  PROVE  InForce(m, Reload(m, s)) = InForce(m, s)
<1>1. CASE m = "redistribution"
  BY <1>1, SettledOf, ReloadIs, RedistributionReadsBack DEF InForce
<1>2. CASE m = "patrol"
  BY <1>2, SettledOf, ReloadIs, PatrolReadsBack
<1>3. CASE m = "notify"
  BY <1>3, SettledOf, ReloadIs, NotifyReadsBack
<1>4. CASE m = "report"
  BY <1>4, SettledOf, ReloadIs, ReportReadsBack
<1>5. CASE m = "lottery"
  BY <1>5, SettledOf, ReloadIs, LotteryReadsBack
<1>6. CASE m = "tasks"
  BY <1>6, SettledOf, ReloadIs, TaskReadsBack
<1>7. CASE m = "media"
  BY <1>7, SettledOf, ReloadIs, MediaReadsBack
<1> QED
  BY <1>1, <1>2, <1>3, <1>4, <1>5, <1>6, <1>7 DEF Kept

\* Of the check-in's settings the counting fields are in force.
LEMMA InForceSame ==
  ASSUME NEW a \in CheckinSettled, NEW b \in CheckinSettled
  PROVE  InForce("checkin", a) = InForce("checkin", b) <=> Same(a, b)
<1> DEFINE D(rt) == AllFields \ ({"ranges", "clamped"} \cup (IF rt.mode = "random" THEN {"amount"} ELSE {}))
<1>1. InForce("checkin", a) = [f \in D(a) |-> a[f]] /\ InForce("checkin", b) = [f \in D(b) |-> b[f]]
  BY CheckinSettledIs DEF InForce
<1>2. CountingFields \subseteq D(a) /\ CountingFields \subseteq D(b)
  BY DEF AllFields, CountingFields, PlainFields
<1>3. D(a) \subseteq CountingFields \cup {"amount"} /\ ("amount" \in D(a) => a.mode # "random")
  BY DEF AllFields
<1>4. a.mode = b.mode => D(a) = D(b)
  OBVIOUS
<1>5. a.mode \in Modes /\ b.mode \in Modes /\ AmountsFit(a) /\ AmountsFit(b)
  BY CheckinSettledIs
<1> HIDE DEF D
<1>6. ASSUME InForce("checkin", a) = InForce("checkin", b) PROVE Same(a, b)
  <2> SUFFICES ASSUME NEW f \in CountingFields PROVE a[f] = b[f]
    BY DEF Same
  <2>1. InForce("checkin", a)[f] = a[f] /\ InForce("checkin", b)[f] = b[f]
    BY <1>1, <1>2
  <2> QED
    BY <1>6, <2>1
<1>7. ASSUME Same(a, b) PROVE InForce("checkin", a) = InForce("checkin", b)
  <2>1. a.mode = b.mode /\ a.min = b.min
    BY <1>7 DEF Same, CountingFields
  <2>2. D(a) = D(b)
    BY <1>4, <2>1
  <2>3. ASSUME NEW f \in D(a) PROVE a[f] = b[f]
    <3>1. CASE f \in CountingFields
      BY <1>7, <3>1 DEF Same
    <3>2. CASE f = "amount"
      <4>1. a.mode = "fixed" /\ b.mode = "fixed"
        BY <1>3, <1>5, <2>1, <2>3, <3>2 DEF Modes
      <4> QED
        BY <1>5, <2>1, <3>2, <4>1 DEF AmountsFit
    <3> QED
      BY <1>3, <2>3, <3>1, <3>2
  <2> QED
    BY <1>1, <2>2, <2>3
<1> QED
  BY <1>6, <1>7

LEMMA RestOfCheckin ==
  ASSUME NEW a \in CheckinSettled
  PROVE  Rest("checkin", a) = [f \in CountingFields \ {"enabled"} |-> a[f]]
<1> DEFINE D == AllFields \ ({"ranges", "clamped"} \cup (IF a.mode = "random" THEN {"amount"} ELSE {}))
<1>1. InForce("checkin", a) = [f \in D |-> a[f]]
  BY CheckinSettledIs DEF InForce
<1>2. D \ {"enabled", "amount"} = CountingFields \ {"enabled"}
  BY DEF AllFields, CountingFields, PlainFields
<1> HIDE DEF D
<1>3. Rest("checkin", a) = [f \in D \ {"enabled", "amount"} |-> a[f]]
  BY <1>1 DEF Rest
<1> QED
  BY <1>2, <1>3

\* A switch changes nothing else that is in force.
LEMMA SwitchKeeps ==
  ASSUME NEW m \in Modules, m # "media", NEW cur \in Settled(m), NEW on \in BOOLEAN,
         Update(m, cur, [enabled |-> on]).ok
  PROVE  LET n == Update(m, cur, [enabled |-> on]).next
         IN Rest(m, n) = Rest(m, cur) /\ (m = "checkin" => RewardsOf(n) = RewardsOf(cur))
<1> DEFINE n == Update(m, cur, [enabled |-> on]).next
           t == [cur EXCEPT !.enabled = on]
<1>1. CASE m = "checkin"
  <2>1. cur \in CheckinSettled /\ n \in CheckinSettled /\ RewardsOf(n) = RewardsOf(cur)
        /\ \A f \in CountingFields \ {"enabled"} : n[f] = cur[f]
    BY <1>1, SettledOf, UpdateIs, CheckinSwitched
  <2> HIDE DEF n
  <2>2. Rest(m, n) = Rest(m, cur)
    BY <1>1, <2>1, RestOfCheckin
  <2> QED
    BY <2>1, <2>2 DEF n
<1>2. CASE m # "checkin"
  <2>1. n \in {cur, t}
    <3>1. CASE m = "patrol"
      BY <3>1, SettledOf, UpdateIs, PatrolSwitched
    <3>2. CASE m = "notify"
      BY <3>2, SettledOf, UpdateIs, NotifySwitched
    <3>3. CASE m = "report"
      BY <3>3, SettledOf, UpdateIs, ReportSwitched
    <3>4. CASE m = "lottery"
      BY <3>4, SettledOf, UpdateIs, LotterySwitched
    <3>5. CASE m = "redistribution"
      BY <3>5, SettledOf, UpdateIs, RedistributionSwitched
    <3>6. CASE m = "tasks"
      BY <3>6, SettledOf, UpdateIs, TaskSwitched
    <3> QED
      BY <1>2, <3>1, <3>2, <3>3, <3>4, <3>5, <3>6, ModulesAre DEF Kept
  <2>2. Rest(m, t) = Rest(m, cur)
    <3>1. CASE m = "redistribution"
      <4>1. cur \in RedistributionSettled
        BY <3>1, SettledOf
      <4>2. DOMAIN InForce(m, t) = DOMAIN InForce(m, cur) /\ \A f \in DOMAIN InForce(m, cur) \ {"enabled"} : InForce(m, t)[f] = InForce(m, cur)[f]
        BY <3>1, <4>1 DEF InForce, RedistributionSettled
      <4> QED
        BY <4>2 DEF Rest
    <3>2. CASE m # "redistribution"
      <4>1. InForce(m, t) = t /\ InForce(m, cur) = cur
        BY <1>2, <3>2 DEF InForce
      <4>2. DOMAIN t = DOMAIN cur /\ \A f \in DOMAIN cur \ {"enabled"} : t[f] = cur[f]
        OBVIOUS
      <4> HIDE DEF t
      <4> QED
        BY <4>1, <4>2 DEF Rest
    <3> QED
      BY <3>1, <3>2
  <2> QED
    BY <1>2, <2>1, <2>2
<1> QED
  BY <1>1, <1>2

-----------------------------------------------------------------------------
(***************************************************************************)
(* The invariant, action by action.                                          *)
(***************************************************************************)
LEMMA EditorIs ==
  ASSUME NEW m, NEW r, EditorOK(m, r)
  PROVE  /\ r.at \in {"idle", "probe", "read", "write", "set", "apply", "log"}
         /\ r.at \in {"probe", "read"} => r = [f \in {"at", "kind", "in", "old", "to"} |-> r[f]] /\ AskOK(m, r)
         /\ r.at \in {"write", "set", "apply", "log"} =>
               r = [f \in {"at", "by", "next", "kv"} |-> r[f]] /\ Computed(m, r)
         /\ r.at = "apply" => m = "media"
         /\ r.at = "log" => m = "checkin"
BY DEF EditorOK, Resting

LEMMA RestingOK == ASSUME NEW m PROVE EditorOK(m, Resting) /\ Resting.at = "idle"
BY DEF EditorOK, Resting

LEMMA EditorBecomes ==
  ASSUME SettingsTyped, NEW e \in Editors, NEW r, editors' = [editors EXCEPT ![e] = r],
         EditorOK(module, r), module' = module
  PROVE  /\ editors' = [x \in Editors |-> editors'[x]]
         /\ \A x \in Editors : EditorOK(module', editors'[x])
         /\ editors'[e] = r /\ \A x \in Editors \ {e} : editors'[x] = editors[x]
<1>1. editors = [x \in Editors |-> editors[x]] /\ \A x \in Editors : EditorOK(module, editors[x])
  BY DEF SettingsTyped
<1>2. editors' = [x \in Editors |-> editors'[x]]
  BY <1>1
<1>3. editors'[e] = r /\ \A x \in Editors \ {e} : editors'[x] = editors[x]
  BY <1>1
<1> QED
  BY <1>1, <1>2, <1>3

\* A step of an editor that neither writes nor puts anything in force.
LEMMA Quiet ==
  ASSUME SettingsInv, NEW e \in Editors, NEW r, editors' = [editors EXCEPT ![e] = r], EditorOK(module, r),
         r.at \in {"idle", "probe", "read"}, editors[e].at # "set",
         UNCHANGED <<module, memory, stored, torn, misread>>, AuditOK'
  PROVE  SettingsInv'
<1>1. SettingsTyped /\ OneAtATime /\ RowsAgree
  BY DEF SettingsInv
<1>2. /\ editors' = [x \in Editors |-> editors'[x]]
      /\ \A x \in Editors : EditorOK(module', editors'[x])
      /\ editors'[e] = r /\ \A x \in Editors \ {e} : editors'[x] = editors[x]
  BY <1>1, EditorBecomes
<1>3. SettingsTyped'
  BY <1>1, <1>2 DEF SettingsTyped
<1>4. \A x \in Editors : editors'[x].at \in {"write", "set", "apply"} => editors'[x] = editors[x]
  BY <1>2
<1>5. OneAtATime'
  <2>1. Busy' \subseteq Busy
    BY <1>4 DEF Busy
  <2>2. \A x \in Editors : editors'[x].at \in {"write", "set"} => editors'[x] = editors[x]
    BY <1>4
  <2> QED
    BY <1>1, <2>1, <2>2 DEF OneAtATime
<1>6. RowsAgree'
  <2>1. \A x \in Editors : editors'[x].at = "set" => editors'[x] = editors[x]
    BY <1>4
  <2>2. (\A x \in Editors : editors'[x].at # "set") => \A x \in Editors : editors[x].at # "set"
    BY <1>2
  <2> QED
    BY <1>1, <2>1, <2>2 DEF RowsAgree
<1> QED
  BY <1>3, <1>5, <1>6 DEF SettingsInv

LEMMA AuditKept == ASSUME AuditOK, UNCHANGED <<module, audit>> PROVE AuditOK'
BY DEF AuditOK

\* What an editor that has just asked looks like.
LEMMA AskFits ==
  ASSUME NEW m, NEW kind, NEW in, NEW old, NEW to, NEW at \in {"probe", "read"},
         AskOK(m, [at |-> at, kind |-> kind, in |-> in, old |-> old, to |-> to])
  PROVE  EditorOK(m, [at |-> at, kind |-> kind, in |-> in, old |-> old, to |-> to])
<1> DEFINE r == [at |-> at, kind |-> kind, in |-> in, old |-> old, to |-> to]
<1>1. r.at = at /\ r = [f \in {"at", "kind", "in", "old", "to"} |-> r[f]]
  OBVIOUS
<1> HIDE DEF r
<1>2. AskOK(m, r)
  BY DEF r
<1>3. EditorOK(m, r)
  BY <1>1, <1>2 DEF EditorOK
<1> QED
  BY <1>3 DEF r

LEMMA AsksKeeps ==
  ASSUME SettingsInv, NEW e \in Editors, editors[e] = Resting, NEW kind, NEW in, NEW to, Asks(e, kind, in, to),
         kind \in {"edit", "switch", "rollback"}, WellTyped(in, FieldsOf(module)),
         kind = "switch" => module # "media" /\ \E on \in BOOLEAN : in = [enabled |-> on],
         kind = "rollback" => module = "checkin" /\ in = UpdateInputOf(to) /\ to \in CheckinPayloads,
         UNCHANGED <<module, memory, stored, backend, audit, torn, misread>>
  PROVE  SettingsInv'
<1> DEFINE at == IF module = "media" THEN "probe" ELSE "read"
           r == [at |-> at, kind |-> kind, in |-> in, old |-> memory, to |-> to]
<1>1. memory \in Settled(module) /\ AuditOK
  BY DEF SettingsInv, SettingsTyped
<1>2. editors' = [editors EXCEPT ![e] = r]
  BY DEF Asks, Becomes
<1>3. AskOK(module, r)
  <2>1. r.kind = kind /\ r.in = in /\ r.old = memory /\ r.to = to
    OBVIOUS
  <2> HIDE DEF r
  <2> QED
    BY <1>1, <2>1 DEF AskOK
<1>4. at \in {"probe", "read"} /\ r.at = at
  OBVIOUS
<1> HIDE DEF at
<1>5. EditorOK(module, r)
  BY <1>3, <1>4, AskFits
<1> HIDE DEF r
<1>6. AuditOK'
  BY <1>1, AuditKept
<1>7. editors[e].at = "idle"
  BY RestingOK
<1> QED
  BY <1>2, <1>4, <1>5, <1>6, <1>7, Quiet

LEMMA EditKeeps == ASSUME SettingsInv, NEW e \in Editors, Edit(e) PROVE SettingsInv'
<1>1. PICK in \in Offers[module] : Asks(e, "edit", in, memory)
  BY DEF Edit
<1>2. module \in Modules
  BY DEF SettingsInv, SettingsTyped
<1>3. WellTyped(in, FieldsOf(module))
  BY <1>2, OffersAssumption
<1>4. editors[e] = Resting /\ UNCHANGED <<module, memory, stored, backend, audit, torn, misread>>
  BY DEF Edit
<1> QED
  BY <1>1, <1>3, <1>4, AsksKeeps

\* Every module but the media has a switch.
LEMMA SwitchTyped ==
  ASSUME NEW m \in Modules, m # "media", NEW on \in BOOLEAN
  PROVE  WellTyped([enabled |-> on], FieldsOf(m))
<1>1. ASSUME NEW types, types["enabled"] = BOOLEAN PROVE WellTyped([enabled |-> on], types)
  BY <1>1 DEF WellTyped
<1>2. CASE m = "checkin"
  BY <1>1, <1>2, FieldsAre DEF CheckinFields
<1>3. CASE m = "patrol"
  BY <1>1, <1>3, FieldsAre DEF PatrolFields
<1>4. CASE m = "notify"
  BY <1>1, <1>4, FieldsAre DEF NotifyFields
<1>5. CASE m = "report"
  BY <1>1, <1>5, FieldsAre DEF ReportFields
<1>6. CASE m = "lottery"
  BY <1>1, <1>6, FieldsAre DEF LotteryFields
<1>7. CASE m = "redistribution"
  BY <1>1, <1>7, FieldsAre DEF RedistributionFields
<1>8. CASE m = "tasks"
  BY <1>1, <1>8, FieldsAre DEF TaskFields
<1> QED
  BY <1>2, <1>3, <1>4, <1>5, <1>6, <1>7, <1>8, ModulesAre DEF Kept

LEMMA SwitchStepKeeps == ASSUME SettingsInv, NEW e \in Editors, Switch(e) PROVE SettingsInv'
<1>1. PICK on \in BOOLEAN : Asks(e, "switch", [enabled |-> on], memory)
  BY DEF Switch
<1>2. module \in Modules
  BY DEF SettingsInv, SettingsTyped
<1>3. editors[e] = Resting /\ UNCHANGED <<module, memory, stored, backend, audit, torn, misread>> /\ module # "media"
  BY DEF Switch
<1>4. WellTyped([enabled |-> on], FieldsOf(module))
  BY <1>2, <1>3, SwitchTyped
<1>5. \E b \in BOOLEAN : [enabled |-> on] = [enabled |-> b]
  OBVIOUS
<1> QED
  BY <1>1, <1>3, <1>4, <1>5, AsksKeeps

LEMMA RollbackKeeps == ASSUME SettingsInv, NEW e \in Editors, Rollback(e) PROVE SettingsInv'
<1>1. PICK i \in DOMAIN audit : Asks(e, "rollback", UpdateInputOf(audit[i]), audit[i])
  BY DEF Rollback
<1>2. AuditOK
  BY DEF SettingsInv, SettingsTyped
<1>3. module = "checkin" /\ audit[i] \in CheckinPayloads
  BY <1>2 DEF AuditOK
<1>4. WellTyped(UpdateInputOf(audit[i]), FieldsOf(module))
  BY <1>3, RollbackNames, FieldsAre
<1>5. editors[e] = Resting /\ UNCHANGED <<module, memory, stored, backend, audit, torn, misread>>
  BY DEF Rollback
<1> QED
  BY <1>1, <1>3, <1>4, <1>5, AsksKeeps

LEMMA ProbeKeeps == ASSUME SettingsInv, NEW e \in Editors, Probe(e) PROVE SettingsInv'
<1>1. EditorOK(module, editors[e]) /\ AuditOK
  BY DEF SettingsInv, SettingsTyped
<1>2. editors[e].at = "probe" /\ UNCHANGED <<module, memory, stored, backend, audit, torn, misread>>
  BY DEF Probe
<1>3. AuditOK'
  BY <1>1, <1>2, AuditKept
<1>4. CASE Becomes(e, Resting)
  <2>1. editors' = [editors EXCEPT ![e] = Resting]
    BY <1>4 DEF Becomes
  <2> QED
    BY <1>2, <1>3, <2>1, RestingOK, Quiet
<1>5. CASE Becomes(e, [editors[e] EXCEPT !.at = "read"])
  <2> DEFINE r == [editors[e] EXCEPT !.at = "read"]
  <2>1. editors' = [editors EXCEPT ![e] = r]
    BY <1>5 DEF Becomes
  <2>2. editors[e] = [f \in {"at", "kind", "in", "old", "to"} |-> editors[e][f]] /\ AskOK(module, editors[e])
    BY <1>1, <1>2, EditorIs
  <2>3. r = [f \in {"at", "kind", "in", "old", "to"} |-> r[f]]
    BY <2>2
  <2>4. r.at = "read" /\ r.kind = editors[e].kind /\ r.in = editors[e].in /\ r.old = editors[e].old /\ r.to = editors[e].to
    BY <2>2
  <2> HIDE DEF r
  <2>5. AskOK(module, r)
    BY <2>2, <2>4 DEF AskOK
  <2>6. EditorOK(module, r)
    BY <2>3, <2>4, <2>5 DEF EditorOK
  <2> QED
    BY <1>2, <1>3, <2>1, <2>4, <2>6, Quiet
<1> QED
  BY <1>4, <1>5 DEF Probe

LEMMA WriteFailsKeeps == ASSUME SettingsInv, NEW e \in Editors, WriteFails(e) PROVE SettingsInv'
<1>1. AuditOK
  BY DEF SettingsInv, SettingsTyped
<1>2. editors[e].at = "write" /\ editors' = [editors EXCEPT ![e] = Resting]
      /\ UNCHANGED <<module, memory, stored, backend, audit, torn, misread>>
  BY DEF WriteFails, Becomes
<1>3. AuditOK'
  BY <1>1, <1>2, AuditKept
<1> QED
  BY <1>2, <1>3, RestingOK, Quiet

LEMMA ApplyMediaKeeps == ASSUME SettingsInv, NEW e \in Editors, ApplyMedia(e) PROVE SettingsInv'
<1>1. AuditOK
  BY DEF SettingsInv, SettingsTyped
<1>2. editors[e].at = "apply" /\ editors' = [editors EXCEPT ![e] = Resting]
      /\ UNCHANGED <<module, memory, stored, audit, torn, misread>>
  BY DEF ApplyMedia, Becomes
<1>3. AuditOK'
  BY <1>1, <1>2, AuditKept
<1> QED
  BY <1>2, <1>3, RestingOK, Quiet

LEMMA LogKeeps == ASSUME SettingsInv, NEW e \in Editors, Log(e) PROVE SettingsInv'
<1>1. AuditOK /\ EditorOK(module, editors[e])
  BY DEF SettingsInv, SettingsTyped
<1>2. editors[e].at = "log" /\ editors' = [editors EXCEPT ![e] = Resting]
      /\ UNCHANGED <<module, memory, stored, torn, misread>>
  BY DEF Log, Becomes
<1>3. AuditOK'
  <2>1. CASE UNCHANGED audit
    BY <1>1, <1>2, <2>1, AuditKept
  <2>2. CASE audit' = Append(audit, PayloadOf(editors[e].by.old))
    <3>1. module = "checkin" /\ Computed(module, editors[e])
      BY <1>1, <1>2, EditorIs
    <3>2. editors[e].by.old \in CheckinSettled
      BY <3>1, SettledOf DEF Computed, AskOK
    <3> DEFINE p == PayloadOf(editors[e].by.old)
    <3>3. p \in CheckinPayloads
      BY <3>2, PayloadKept
    <3> HIDE DEF p
    <3>4. audit \in Seq(CheckinPayloads)
      BY <1>1 DEF AuditOK
    <3>5. audit' = Append(audit, p)
      BY <2>2 DEF p
    <3>6. audit' \in Seq(CheckinPayloads)
      BY <3>3, <3>4, <3>5
    <3> QED
      BY <1>2, <3>1, <3>6 DEF AuditOK
  <2> QED
    BY <2>1, <2>2 DEF Log
<1> QED
  BY <1>2, <1>3, RestingOK, Quiet

-----------------------------------------------------------------------------
\* An update is computed from the settings in force, and only then written.
LEMMA ReadKeeps == ASSUME SettingsInv, NEW e \in Editors, Read(e) PROVE SettingsInv'
<1> DEFINE r == editors[e]
           u == Update(module, memory, r.in)
           w == [at |-> "write", by |-> r, next |-> u.next, kv |-> u.kv]
<1>1. /\ SettingsTyped /\ OneAtATime /\ RowsAgree /\ AuditOK
      /\ EditorOK(module, r) /\ module \in Modules /\ memory \in Settled(module)
  BY DEF SettingsInv, SettingsTyped
<1>2. /\ r.at = "read" /\ editors' = [editors EXCEPT ![e] = IF u.ok THEN w ELSE Resting]
      /\ torn' = (torn \/ Busy # {})
      /\ UNCHANGED <<module, memory, stored, backend, audit, misread>>
  BY DEF Read, Becomes
<1>3. AuditOK'
  BY <1>1, <1>2, AuditKept
<1>4. AskOK(module, r)
  BY <1>1, <1>2, EditorIs
<1>5. torn \in BOOLEAN /\ torn' \in BOOLEAN
  BY <1>1, <1>2 DEF SettingsTyped
<1>6. ASSUME NEW q, EditorOK(module, q), editors' = [editors EXCEPT ![e] = q]
      PROVE  /\ SettingsTyped'
             /\ editors'[e] = q /\ \A x \in Editors \ {e} : editors'[x] = editors[x]
  <2>1. /\ editors' = [x \in Editors |-> editors'[x]]
        /\ \A x \in Editors : EditorOK(module', editors'[x])
        /\ editors'[e] = q /\ \A x \in Editors \ {e} : editors'[x] = editors[x]
    BY <1>1, <1>2, <1>6, EditorBecomes
  <2> QED
    BY <1>1, <1>2, <1>3, <1>5, <2>1 DEF SettingsTyped
<1>7. ASSUME ~torn' PROVE ~torn /\ \A x \in Editors : editors[x].at \notin {"write", "set", "apply"}
  BY <1>2, <1>7 DEF Busy
<1>8. CASE ~u.ok
  <2>1. editors' = [editors EXCEPT ![e] = Resting] /\ EditorOK(module, Resting) /\ Resting.at = "idle"
    BY <1>2, <1>8, RestingOK
  <2>2. SettingsTyped' /\ editors'[e] = Resting /\ \A x \in Editors \ {e} : editors'[x] = editors[x]
    BY <1>6, <2>1
  <2>3. ASSUME ~torn' PROVE \A x \in Editors : editors'[x].at \notin {"write", "set", "apply"}
    BY <1>7, <2>1, <2>2, <2>3
  <2>4. OneAtATime'
    BY <2>3 DEF OneAtATime, Busy
  <2>5. RowsAgree'
    BY <1>1, <1>2, <1>7, <2>3 DEF RowsAgree
  <2> QED
    BY <2>2, <2>4, <2>5 DEF SettingsInv
<1>9. CASE u.ok
  <2>1. WellTyped(r.in, FieldsOf(module))
    BY <1>4 DEF AskOK
  <2>2. /\ u.next \in Settled(module)
        /\ module # "checkin" => u.kv = u.next
        /\ module = "redistribution" => RedistributionValid(u.next)
        /\ module = "checkin" =>
              /\ AmountKeys \subseteq DOMAIN u.kv /\ DOMAIN u.kv \subseteq DOMAIN CheckinFields
              /\ u.kv = [k \in DOMAIN u.kv |-> u.next[k]]
    BY <1>1, <1>9, <2>1, UpdateSettles
  <2>3. r.kind = "rollback" => \A f \in {"enabled", "mode", "min", "max", "cap", "budget"} : u.next[f] = r.to[f]
    <3> SUFFICES ASSUME r.kind = "rollback"
                 PROVE  \A f \in {"enabled", "mode", "min", "max", "cap", "budget"} : u.next[f] = r.to[f]
      OBVIOUS
    <3>1. module = "checkin" /\ r.in = UpdateInputOf(r.to) /\ r.to \in CheckinPayloads
      BY <1>4 DEF AskOK
    <3>2. memory \in CheckinSettled /\ u = CheckinUpdate(memory, UpdateInputOf(r.to))
      BY <1>1, <3>1, SettledOf, UpdateIs
    <3> QED
      <4>1. CheckinUpdate(memory, UpdateInputOf(r.to)).ok
        BY <1>9, <3>2
      <4>2. \A f \in {"enabled", "mode", "min", "max", "cap", "budget"} :
                CheckinUpdate(memory, UpdateInputOf(r.to)).next[f] = r.to[f]
        BY <3>1, <3>2, <4>1, CheckinRolledBack
      <4> QED
        BY <3>2, <4>2
  <2>4. /\ w.at = "write" /\ w.by = r /\ w.next = u.next /\ w.kv = u.kv
        /\ w = [f \in {"at", "by", "next", "kv"} |-> w[f]]
    OBVIOUS
  <2>5. editors' = [editors EXCEPT ![e] = w]
    BY <1>2, <1>9
  <2> HIDE DEF w, u, r
  <2>6. Computed(module, w)
    BY <1>4, <2>2, <2>3, <2>4 DEF Computed
  <2>7. EditorOK(module, w)
    BY <2>4, <2>6 DEF EditorOK
  <2>8. SettingsTyped' /\ editors'[e] = w /\ \A x \in Editors \ {e} : editors'[x] = editors[x]
    BY <1>6, <2>5, <2>7
  <2>9. ASSUME ~torn' PROVE \A x \in Editors : editors'[x].at \in {"write", "set", "apply"} => x = e
    BY <1>7, <2>8, <2>9
  <2>10. OneAtATime'
    <3> SUFFICES ASSUME ~torn' PROVE OneAtATime'
      BY DEF OneAtATime
    <3>1. \A x, y \in Busy' : x = y
      BY <2>9 DEF Busy
    <3>2. ASSUME NEW x \in Editors, editors'[x].at \in {"write", "set"}
          PROVE  LET v == Update(module', memory', editors'[x].by.in)
                 IN v.ok /\ editors'[x].next = v.next /\ editors'[x].kv = v.kv
      <4>1. x = e
        BY <2>9, <3>2
      <4>2. editors'[x] = w /\ module' = module /\ memory' = memory
        BY <1>2, <2>8, <4>1
      <4> QED
        BY <1>9, <2>4, <4>2 DEF u, r
    <3> QED
      BY <3>1, <3>2 DEF OneAtATime
  <2>11. RowsAgree'
    <3> SUFFICES ASSUME ~torn' PROVE RowsAgree'
      BY DEF RowsAgree
    <3>1. \A x \in Editors : editors'[x].at # "set"
      BY <2>4, <2>8, <2>9
    <3>2. \A x \in Editors : editors[x].at # "set"
      BY <1>7
    <3> QED
      BY <1>1, <1>2, <1>7, <3>1, <3>2 DEF RowsAgree
  <2> QED
    BY <2>8, <2>10, <2>11 DEF SettingsInv
<1> QED
  BY <1>8, <1>9

\* What an accepted update writes fits the rows.
LEMMA WrittenOK ==
  ASSUME NEW m \in Modules, NEW kv, RowsOK(m, kv), NEW r, Computed(m, r)
  PROVE  RowsOK(m, Written(kv, r.kv)) /\ (m # "checkin" => Written(kv, r.kv) = r.next)
<1>1. CASE m = "checkin"
  <2>1. NoRowsOr(kv)
    BY <1>1, NoRowsEmpty DEF RowsOK, NoRowsOr
  <2>2. /\ r.next \in CheckinSettled /\ AmountKeys \subseteq DOMAIN r.kv /\ DOMAIN r.kv \subseteq DOMAIN CheckinFields
        /\ r.kv = [k \in DOMAIN r.kv |-> r.next[k]]
    BY <1>1, SettledOf DEF Computed
  <2>3. CheckinRows(Written(kv, r.kv))
    BY <2>1, <2>2, WrittenAreRows
  <2> QED
    BY <1>1, <2>3 DEF RowsOK
<1>2. CASE m # "checkin"
  <2>1. r.next \in Settled(m) /\ r.kv = r.next /\ (m = "redistribution" => RedistributionValid(r.next))
    BY <1>2 DEF Computed
  <2>2. m \in Kept
    BY <1>2, ModulesAre
  <2>3. DOMAIN kv \subseteq DOMAIN r.next
    <3>1. CASE kv = NoRows
      BY <3>1, NoRowsEmpty
    <3>2. CASE kv \in Settled(m)
      BY <2>1, <2>2, <3>2, SettledIsRecord
    <3> QED
      BY <1>2, <3>1, <3>2 DEF RowsOK
  <2>4. r.next = [k \in DOMAIN r.next |-> r.next[k]]
    BY <2>1, <2>2, SettledIsRecord
  <2>5. Written(kv, r.kv) = r.next
    BY <2>1, <2>3, <2>4 DEF Written
  <2> QED
    BY <1>2, <2>1, <2>5 DEF RowsOK
<1> QED
  BY <1>1, <1>2

LEMMA AgreeSame ==
  ASSUME NEW kv, NoRowsOr(kv), NEW rt \in CheckinSettled
  PROVE  Agree("checkin", kv, rt) <=> Same(CheckinReload(kv), rt)
<1>1. CheckinReload(kv) \in CheckinSettled
  BY WrittenOnRows
<1> QED
  BY <1>1, ReloadIs, InForceSame DEF Agree

LEMMA WriteKeeps == ASSUME SettingsInv, NEW e \in Editors, Write(e) PROVE SettingsInv'
<1> DEFINE r == editors[e]
           s == [r EXCEPT !.at = "set"]
<1>1. /\ SettingsTyped /\ OneAtATime /\ RowsAgree /\ AuditOK
      /\ EditorOK(module, r) /\ module \in Modules /\ memory \in Settled(module) /\ RowsOK(module, stored)
  BY DEF SettingsInv, SettingsTyped
<1>2. /\ r.at = "write" /\ stored' = Written(stored, r.kv)
      /\ UNCHANGED <<module, memory, backend, audit, misread>>
  BY DEF Write, Written
<1>3. AuditOK'
  BY <1>1, <1>2, AuditKept
<1>4. r = [f \in {"at", "by", "next", "kv"} |-> r[f]] /\ Computed(module, r)
  BY <1>1, <1>2, EditorIs
<1>5. RowsOK(module', stored')
  BY <1>1, <1>2, <1>4, WrittenOK
<1>6. ASSUME NEW q, EditorOK(module, q), editors' = [editors EXCEPT ![e] = q], torn' \in BOOLEAN
      PROVE  /\ SettingsTyped'
             /\ editors'[e] = q /\ \A x \in Editors \ {e} : editors'[x] = editors[x]
  <2>1. /\ editors' = [x \in Editors |-> editors'[x]]
        /\ \A x \in Editors : EditorOK(module', editors'[x])
        /\ editors'[e] = q /\ \A x \in Editors \ {e} : editors'[x] = editors[x]
    BY <1>1, <1>2, <1>6, EditorBecomes
  <2> QED
    BY <1>1, <1>2, <1>3, <1>5, <1>6, <2>1 DEF SettingsTyped
<1>7. CASE Becomes(e, Resting) /\ torn' = TRUE
  <2>1. SettingsTyped'
    BY <1>6, <1>7, RestingOK DEF Becomes
  <2> QED
    BY <1>7, <2>1 DEF SettingsInv, OneAtATime, RowsAgree
<1>8. CASE Becomes(e, s) /\ UNCHANGED torn
  <2>1. s.at = "set" /\ s.by = r.by /\ s.next = r.next /\ s.kv = r.kv /\ s = [f \in {"at", "by", "next", "kv"} |-> s[f]]
    BY <1>4
  <2>2. editors' = [editors EXCEPT ![e] = s] /\ torn' \in BOOLEAN
    BY <1>1, <1>8 DEF Becomes, SettingsTyped
  <2> HIDE DEF s, r
  <2>3. Computed(module, s)
    BY <1>4, <2>1 DEF Computed
  <2>4. EditorOK(module, s)
    BY <2>1, <2>3 DEF EditorOK
  <2>5. SettingsTyped' /\ editors'[e] = s /\ \A x \in Editors \ {e} : editors'[x] = editors[x]
    BY <1>6, <2>2, <2>4
  <2>6. ASSUME ~torn'
        PROVE  /\ ~torn
               /\ \A x \in Editors : editors[x].at \in {"write", "set", "apply"} => x = e
               /\ \A x \in Editors : editors'[x].at \in {"write", "set", "apply"} => x = e
               /\ Update(module, memory, r.by.in).ok
               /\ r.next = Update(module, memory, r.by.in).next /\ r.kv = Update(module, memory, r.by.in).kv
    <3>1. ~torn
      BY <1>8, <2>6
    <3>2. e \in Busy
      BY <1>2 DEF Busy, r
    <3>3. \A x \in Editors : editors[x].at \in {"write", "set", "apply"} => x = e
      BY <1>1, <3>1, <3>2 DEF OneAtATime, Busy
    <3>4. \A x \in Editors : editors'[x].at \in {"write", "set", "apply"} => x = e
      BY <2>5, <3>3
    <3>5. /\ Update(module, memory, r.by.in).ok
          /\ r.next = Update(module, memory, r.by.in).next /\ r.kv = Update(module, memory, r.by.in).kv
      BY <1>1, <1>2, <3>1 DEF OneAtATime, r
    <3> QED
      BY <3>1, <3>3, <3>4, <3>5
  <2>7. OneAtATime'
    <3> SUFFICES ASSUME ~torn' PROVE OneAtATime'
      BY DEF OneAtATime
    <3>1. \A x, y \in Busy' : x = y
      BY <2>6 DEF Busy
    <3>2. ASSUME NEW x \in Editors, editors'[x].at \in {"write", "set"}
          PROVE  LET v == Update(module', memory', editors'[x].by.in)
                 IN v.ok /\ editors'[x].next = v.next /\ editors'[x].kv = v.kv
      <4>1. x = e
        BY <2>6, <3>2
      <4>2. editors'[x] = s /\ module' = module /\ memory' = memory
        BY <1>2, <2>5, <4>1
      <4> QED
        BY <2>1, <2>6, <4>2
    <3> QED
      BY <3>1, <3>2 DEF OneAtATime
  <2>8. RowsAgree'
    <3> SUFFICES ASSUME ~torn' PROVE RowsAgree'
      BY DEF RowsAgree
    <3>1. ~torn /\ \A x \in Editors : editors[x].at # "set"
      <4>1. \A x \in Editors : editors[x].at = "set" => x = e
        BY <2>6
      <4>2. editors[e].at # "set"
        BY <1>2 DEF r
      <4> QED
        BY <2>6, <4>1, <4>2
    <3>2. ~misread => Agree(module, stored, memory)
      BY <1>1, <3>1 DEF RowsAgree
    <3>3. (misread /\ module = "checkin") \/ Agree(module, stored', r.next)
      <4>1. CASE module = "checkin"
        <5> SUFFICES ASSUME ~misread PROVE Agree("checkin", stored', r.next)
          BY <4>1
        <5> DEFINE in == r.by.in
        <5>1. NoRowsOr(stored) /\ memory \in CheckinSettled /\ r.next \in CheckinSettled /\ WellTyped(in, CheckinFields)
          BY <1>1, <1>4, <4>1, NoRowsEmpty, SettledOf, FieldsAre DEF RowsOK, NoRowsOr, Computed, AskOK
        <5>2. Same(CheckinReload(stored), memory)
          BY <3>2, <4>1, <5>1, AgreeSame
        <5>3. Update(module, memory, in) = CheckinUpdate(memory, in)
          BY <4>1, UpdateIs
        <5>4. CheckinUpdate(memory, in).ok /\ r.next = CheckinUpdate(memory, in).next /\ r.kv = CheckinUpdate(memory, in).kv
          BY <2>6, <5>3
        <5> HIDE DEF in
        <5>5. CheckinRows(stored') /\ Same(CheckinReload(stored'), r.next)
          BY <1>2, <5>1, <5>2, <5>4, UpdateReadsBack DEF r
        <5>6. NoRowsOr(stored')
          BY <5>5 DEF NoRowsOr
        <5> QED
          BY <5>1, <5>5, <5>6, AgreeSame
      <4>2. CASE module # "checkin"
        <5>1. stored' = r.next
          BY <1>1, <1>2, <1>4, <4>2, WrittenOK DEF r
        <5>2. r.next \in Settled(module) /\ (module = "redistribution" => RedistributionValid(r.next))
          BY <1>4 DEF Computed
        <5> QED
          BY <1>1, <4>2, <5>1, <5>2, ReadsBack, ModulesAre DEF Agree
      <4> QED
        BY <4>1, <4>2
    <3>4. editors'[e].at = "set" /\ editors'[e].next = r.next /\ \A x \in Editors : editors'[x].at = "set" => x = e
      BY <2>1, <2>5, <2>6
    <3> QED
      BY <1>2, <3>3, <3>4 DEF RowsAgree
  <2> QED
    BY <2>5, <2>7, <2>8 DEF SettingsInv
<1> QED
  BY <1>7, <1>8 DEF Write

-----------------------------------------------------------------------------
\* What was written is put in force.
LEMMA SetKeeps == ASSUME SettingsInv, NEW e \in Editors, Set(e) PROVE SettingsInv'
<1> DEFINE r == editors[e]
<1>1. /\ SettingsTyped /\ OneAtATime /\ RowsAgree /\ AuditOK
      /\ EditorOK(module, r) /\ module \in Modules /\ RowsOK(module, stored)
      /\ torn \in BOOLEAN /\ misread \in BOOLEAN
  BY DEF SettingsInv, SettingsTyped
<1>2. /\ r.at = "set" /\ memory' = r.next /\ misread' = (misread /\ module = "checkin")
      /\ UNCHANGED <<module, stored, backend, audit, torn>>
  BY DEF Set
<1>3. AuditOK'
  BY <1>1, <1>2, AuditKept
<1>4. r = [f \in {"at", "by", "next", "kv"} |-> r[f]] /\ Computed(module, r)
  BY <1>1, <1>2, EditorIs
<1>5. r.next \in Settled(module)
  BY <1>4 DEF Computed
<1>6. PICK q : /\ editors' = [editors EXCEPT ![e] = q] /\ EditorOK(module, q)
               /\ q.at \in {"idle", "apply", "log"}
  <2>1. CASE module = "media"
    <3> DEFINE s == [r EXCEPT !.at = "apply"]
    <3>1. Becomes(e, s)
      BY <2>1 DEF Set
    <3>2. s.at = "apply" /\ s.by = r.by /\ s.next = r.next /\ s.kv = r.kv /\ s = [f \in {"at", "by", "next", "kv"} |-> s[f]]
      BY <1>4
    <3> HIDE DEF s, r
    <3>3. Computed(module, s)
      BY <1>4, <3>2 DEF Computed
    <3>4. EditorOK(module, s)
      BY <2>1, <3>2, <3>3 DEF EditorOK
    <3> QED
      BY <3>1, <3>2, <3>4 DEF Becomes
  <2>2. CASE module = "checkin" /\ r.by.kind # "switch"
    <3> DEFINE s == [r EXCEPT !.at = "log"]
    <3>1. Becomes(e, s)
      BY <2>2 DEF Set
    <3>2. s.at = "log" /\ s.by = r.by /\ s.next = r.next /\ s.kv = r.kv /\ s = [f \in {"at", "by", "next", "kv"} |-> s[f]]
      BY <1>4
    <3> HIDE DEF s, r
    <3>3. Computed(module, s)
      BY <1>4, <3>2 DEF Computed
    <3>4. EditorOK(module, s)
      BY <2>2, <3>2, <3>3 DEF EditorOK
    <3> QED
      BY <3>1, <3>2, <3>4 DEF Becomes
  <2>3. CASE module # "media" /\ ~(module = "checkin" /\ r.by.kind # "switch")
    <3>1. Becomes(e, Resting)
      BY <2>3 DEF Set
    <3> QED
      BY <3>1, RestingOK DEF Becomes
  <2> QED
    BY <2>1, <2>2, <2>3
<1>7. /\ editors' = [x \in Editors |-> editors'[x]]
      /\ \A x \in Editors : EditorOK(module', editors'[x])
      /\ editors'[e] = q /\ \A x \in Editors \ {e} : editors'[x] = editors[x]
  BY <1>1, <1>2, <1>6, EditorBecomes
<1>8. misread' \in BOOLEAN
  BY <1>1, <1>2
<1>9. SettingsTyped'
  BY <1>1, <1>2, <1>3, <1>5, <1>7, <1>8 DEF SettingsTyped
<1>10. ASSUME ~torn'
       PROVE  /\ ~torn
              /\ \A x \in Editors : editors'[x].at \in {"write", "set", "apply"} => x = e
              /\ \A x \in Editors : editors'[x].at \notin {"write", "set"}
  <2>1. ~torn
    BY <1>2, <1>10
  <2>2. e \in Busy
    BY <1>2 DEF Busy
  <2>3. \A x \in Editors : editors[x].at \in {"write", "set", "apply"} => x = e
    BY <1>1, <2>1, <2>2 DEF OneAtATime, Busy
  <2>4. \A x \in Editors : editors'[x].at \in {"write", "set", "apply"} => x = e
    BY <1>7, <2>3
  <2>5. \A x \in Editors : editors'[x].at \notin {"write", "set"}
    BY <1>6, <1>7, <2>4
  <2> QED
    BY <2>1, <2>4, <2>5
<1>11. OneAtATime'
  <2> SUFFICES ASSUME ~torn' PROVE OneAtATime'
    BY DEF OneAtATime
  <2> QED
    BY <1>10 DEF OneAtATime, Busy
<1>12. RowsAgree'
  <2> SUFFICES ASSUME ~torn' PROVE RowsAgree'
    BY DEF RowsAgree
  <2>1. (misread /\ module = "checkin") \/ Agree(module, stored, r.next)
    BY <1>1, <1>2, <1>10 DEF RowsAgree
  <2>2. ~misread' => Agree(module', stored', memory')
    BY <1>2, <2>1
  <2> QED
    BY <1>10, <2>2 DEF RowsAgree
<1> QED
  BY <1>9, <1>11, <1>12 DEF SettingsInv

\* What a start puts in force and stores of settings it has read is settled, and
\* if it could read all rows the two agree.
LEMMA StartKeeps ==
  ASSUME NEW m \in Modules, NEW kv, RowsOK(m, kv), NEW rt \in Settled(m)
  PROVE  LET now == MemoryAtStart(m, rt)
             w == RowsAtStart(m, rt, kv)
         IN now \in Settled(m) /\ RowsOK(m, w) /\ (rt = Reload(m, kv) => Agree(m, w, now))
<1> DEFINE now == MemoryAtStart(m, rt)
           w == RowsAtStart(m, rt, kv)
<1>1. CASE m # "checkin"
  <2>1. now = rt /\ w = kv
    BY <1>1 DEF MemoryAtStart, RowsAtStart
  <2> QED
    BY <2>1 DEF Agree
<1>2. CASE m = "checkin"
  <2>1. now = [rt EXCEPT !.clamped = FALSE] /\ w = PersistClamped(rt, kv) /\ rt \in CheckinSettled
        /\ NoRowsOr(kv)
    BY <1>2, SettledOf, NoRowsEmpty DEF RowsOK, NoRowsOr, MemoryAtStart, RowsAtStart
  <2> HIDE DEF now, w
  <2>2. now \in CheckinSettled /\ Same(now, rt)
    BY <2>1, ClampedForgotten
  <2>3. w = kv \/ CheckinRows(w)
    BY <2>1, ClampedAreRows
  <2>4. NoRowsOr(w) /\ RowsOK(m, w)
    BY <1>2, <2>1, <2>3 DEF NoRowsOr, RowsOK
  <2>5. ASSUME rt = Reload(m, kv) PROVE Agree("checkin", w, now)
    <3>1. rt = CheckinReload(kv)
      BY <1>2, <2>5, ReloadIs
    <3>2. Same(CheckinReload(w), rt)
      BY <2>1, <3>1, ClampedReadsBack
    <3>3. Same(CheckinReload(w), now)
      BY <2>2, <3>2 DEF Same
    <3> QED
      BY <2>2, <2>4, <3>3, AgreeSame
  <2> QED
    BY <1>2, <2>2, <2>4, <2>5, SettledOf DEF now, w
<1> QED
  BY <1>1, <1>2

\* After a start memory says what could be read.
LEMMA ServerRestartKeeps == ASSUME SettingsInv, ServerRestarts PROVE SettingsInv'
<1>1. /\ SettingsTyped /\ AuditOK /\ module \in Modules /\ RowsOK(module, stored)
  BY DEF SettingsInv, SettingsTyped
<1> DEFINE Left(lost) == [k \in DOMAIN stored \ lost |-> stored[k]]
<1>2. PICK lost \in Unreadable :
        LET rt == Reload(module, Left(lost))
        IN /\ memory' = MemoryAtStart(module, rt) /\ stored' = RowsAtStart(module, rt, stored)
           /\ misread' = (lost # {})
  BY DEF ServerRestarts
<1>3. torn' = FALSE /\ editors' = [x \in Editors |-> Resting] /\ UNCHANGED <<module, audit>>
  BY DEF ServerRestarts
<1> DEFINE rt == Reload(module, Left(lost))
<1>4. lost = {} \/ (module \in ReadsAllOrNone => lost = DOMAIN stored)
  BY DEF Unreadable
<1>5. rt \in Settled(module)
  BY <1>1, <1>4, ReloadSettles
<1>6. stored = Left({})
  BY <1>1, RowsAreRecord
<1>7. AuditOK'
  BY <1>1, <1>3, AuditKept
<1>8. lost = {} => Left(lost) = stored
  BY <1>6
<1>9. /\ memory' = MemoryAtStart(module, rt) /\ stored' = RowsAtStart(module, rt, stored)
      /\ misread' = (lost # {})
  BY <1>2
<1>10. lost = {} => rt = Reload(module, stored)
  BY <1>8
<1> HIDE DEF rt
<1>11. /\ memory' \in Settled(module) /\ RowsOK(module, stored')
       /\ lost = {} => Agree(module, stored', memory')
  BY <1>1, <1>5, <1>9, <1>10, StartKeeps
<1>12. \A x \in Editors : editors'[x] = Resting /\ editors'[x].at = "idle"
  BY <1>3, RestingOK
<1>13. SettingsTyped'
  BY <1>1, <1>3, <1>7, <1>9, <1>11, <1>12, RestingOK DEF SettingsTyped
<1>14. OneAtATime'
  BY <1>12 DEF OneAtATime, Busy
<1>15. RowsAgree'
  BY <1>3, <1>9, <1>11, <1>12 DEF RowsAgree
<1> QED
  BY <1>13, <1>14, <1>15 DEF SettingsInv

\* The first start finds no rows.
LEMMA InitKeeps == ASSUME SettingsInit PROVE SettingsInv
<1> DEFINE rt == Reload(module, NoRows)
<1>1. /\ module \in Modules /\ memory = MemoryAtStart(module, rt) /\ stored = RowsAtStart(module, rt, NoRows)
      /\ editors = [x \in Editors |-> Resting] /\ audit = <<>> /\ torn = FALSE /\ misread = FALSE
  BY DEF SettingsInit
<1>2. RowsOK(module, NoRows) /\ rt \in Settled(module)
  BY <1>1, ReloadWhole DEF RowsOK
<1>3. memory \in Settled(module) /\ RowsOK(module, stored) /\ Agree(module, stored, memory)
  BY <1>1, <1>2, StartKeeps
<1>4. \A x \in Editors : editors[x] = Resting /\ editors[x].at = "idle"
  BY <1>1, RestingOK
<1>5. AuditOK
  BY <1>1 DEF AuditOK
<1>6. SettingsTyped
  BY <1>1, <1>3, <1>4, <1>5, RestingOK DEF SettingsTyped
<1>7. OneAtATime
  BY <1>4 DEF OneAtATime, Busy
<1>8. RowsAgree
  BY <1>3, <1>4 DEF RowsAgree
<1> QED
  BY <1>6, <1>7, <1>8 DEF SettingsInv

LEMMA SettingsStutter == ASSUME SettingsInv, UNCHANGED settingsVars PROVE SettingsInv'
BY DEF SettingsInv, SettingsTyped, OneAtATime, RowsAgree, Busy, AuditOK, settingsVars

LEMMA SettingsInvKept == SettingsSpec => []SettingsInv
<1>1. SettingsInit => SettingsInv
  BY InitKeeps
<1>2. SettingsInv /\ [SettingsNext]_settingsVars => SettingsInv'
  <2> SUFFICES ASSUME SettingsInv, [SettingsNext]_settingsVars PROVE SettingsInv'
    OBVIOUS
  <2>1. CASE ServerRestarts
    BY <2>1, ServerRestartKeeps
  <2>2. ASSUME NEW e \in Editors, Edit(e) PROVE SettingsInv'
    BY <2>2, EditKeeps
  <2>3. ASSUME NEW e \in Editors, Switch(e) PROVE SettingsInv'
    BY <2>3, SwitchStepKeeps
  <2>4. ASSUME NEW e \in Editors, Rollback(e) PROVE SettingsInv'
    BY <2>4, RollbackKeeps
  <2>5. ASSUME NEW e \in Editors, Probe(e) PROVE SettingsInv'
    BY <2>5, ProbeKeeps
  <2>6. ASSUME NEW e \in Editors, Read(e) PROVE SettingsInv'
    BY <2>6, ReadKeeps
  <2>7. ASSUME NEW e \in Editors, Write(e) PROVE SettingsInv'
    BY <2>7, WriteKeeps
  <2>8. ASSUME NEW e \in Editors, WriteFails(e) PROVE SettingsInv'
    BY <2>8, WriteFailsKeeps
  <2>9. ASSUME NEW e \in Editors, Set(e) PROVE SettingsInv'
    BY <2>9, SetKeeps
  <2>10. ASSUME NEW e \in Editors, ApplyMedia(e) PROVE SettingsInv'
    BY <2>10, ApplyMediaKeeps
  <2>11. ASSUME NEW e \in Editors, Log(e) PROVE SettingsInv'
    BY <2>11, LogKeeps
  <2>12. CASE UNCHANGED settingsVars
    BY <2>12, SettingsStutter
  <2> QED
    BY <2>1, <2>2, <2>3, <2>4, <2>5, <2>6, <2>7, <2>8, <2>9, <2>10, <2>11, <2>12 DEF SettingsNext, EditorStep
<1> QED
  BY <1>1, <1>2, PTL DEF SettingsSpec

-----------------------------------------------------------------------------
\* A restart brings back what is in force: after any sequence of updates, switches,
\* rollbacks, failed writes and restarts, of any number of editors and any offers,
\* the rows a start reads say the same as memory, unless edits overlapped, one was
\* cut in half, or the last start could not read its keys.  This is Reload and
\* Update of every module's settings, with the transaction of SetSettings.
THEOREM RestartAlwaysRestores == SettingsSpec => []RestartRestores
<1>1. SettingsInv => RestartRestores
  <2> SUFFICES ASSUME SettingsInv, ~torn, ~misread, Busy = {}
               PROVE  InForce(module, Reload(module, stored)) = InForce(module, memory)
    BY DEF RestartRestores
  <2>1. \A e \in Editors : editors[e].at # "set"
    BY DEF Busy
  <2> QED
    BY <2>1 DEF SettingsInv, RowsAgree, Agree
<1> QED
  BY <1>1, SettingsInvKept, PTL

\* Switching a module on or off, by an administrator or by a spent budget, changes
\* nothing else that is in force: an update that names one field is computed over
\* the settings in force, and normalising or clamping those again changes nothing
\* (Update, reached from setModuleEnabled and from a spent budget).
THEOREM SwitchesKeepTheRest == SettingsSpec => SwitchKeepsRest
<1> DEFINE A == \A e \in Editors :
                  SetFor(e, "switch") /\ ~torn =>
                      /\ Rest(module, memory') = Rest(module, memory)
                      /\ module = "checkin" => RewardsOf(memory') = RewardsOf(memory)
<1>1. SettingsInv /\ [SettingsNext]_settingsVars => [A]_settingsVars
  <2> SUFFICES ASSUME SettingsInv, NEW e \in Editors, SetFor(e, "switch"), ~torn
               PROVE  /\ Rest(module, memory') = Rest(module, memory)
                      /\ module = "checkin" => RewardsOf(memory') = RewardsOf(memory)
    OBVIOUS
  <2> DEFINE r == editors[e]
  <2>1. r.at = "set" /\ memory' = r.next /\ r.by.kind = "switch"
    BY DEF SetFor, Set
  <2>2. /\ OneAtATime /\ EditorOK(module, r) /\ module \in Modules /\ memory \in Settled(module)
    BY DEF SettingsInv, SettingsTyped
  <2>3. Computed(module, r)
    BY <2>1, <2>2, EditorIs
  <2>4. module # "media" /\ \E on \in BOOLEAN : r.by.in = [enabled |-> on]
    BY <2>1, <2>3 DEF Computed, AskOK
  <2>5. Update(module, memory, r.by.in).ok /\ r.next = Update(module, memory, r.by.in).next
    BY <2>1, <2>2 DEF OneAtATime
  <2> HIDE DEF r
  <2>6. PICK on \in BOOLEAN : r.by.in = [enabled |-> on]
    BY <2>4
  <2> QED
    BY <2>1, <2>2, <2>4, <2>5, <2>6, SwitchKeeps
<1> QED
  BY <1>1, SettingsInvKept, PTL DEF SettingsSpec, SwitchKeepsRest

\* A rollback brings back the switch, the mode, the amounts, the cap and the budget
\* of the check-in exactly as the audit kept them, whatever is in force when it is
\* computed; and unless edits overlapped the rewards it leads to are those of the
\* settings kept, with the ranges now in force in the place of ranges that were
\* missing or are not valid any more (AdminRollbackSettings, ApplyMapToUpdateInput
\* and Update).
THEOREM RollbacksRestore == SettingsSpec => RollbackRestores
<1> DEFINE A == \A e \in Editors :
                  SetFor(e, "rollback") =>
                      LET then == editors[e].by.to
                          ranges == IF NamesRanges(then) THEN then.ranges ELSE Ranges(memory.ranges, then.cap)
                      IN /\ \A f \in {"enabled", "mode", "min", "max", "cap", "budget"} : memory'[f] = then[f]
                         /\ ~torn => RewardsOf(memory') = RewardsOf([then EXCEPT !.ranges = ranges])
<1>1. SettingsInv /\ [SettingsNext]_settingsVars => [A]_settingsVars
  <2> SUFFICES ASSUME SettingsInv, NEW e \in Editors, SetFor(e, "rollback")
               PROVE  LET then == editors[e].by.to
                      IN /\ \A f \in {"enabled", "mode", "min", "max", "cap", "budget"} : memory'[f] = then[f]
                         /\ ~torn => RewardsOf(memory') = RewardsOf([then EXCEPT !.ranges = RangesBack(memory, then)])
    BY DEF RangesBack
  <2> DEFINE r == editors[e]
  <2>1. r.at = "set" /\ memory' = r.next /\ r.by.kind = "rollback"
    BY DEF SetFor, Set
  <2>2. /\ OneAtATime /\ EditorOK(module, r) /\ module \in Modules /\ memory \in Settled(module)
    BY DEF SettingsInv, SettingsTyped
  <2>3. Computed(module, r)
    BY <2>1, <2>2, EditorIs
  <2>4. \A f \in {"enabled", "mode", "min", "max", "cap", "budget"} : memory'[f] = r.by.to[f]
    BY <2>1, <2>3 DEF Computed
  <2>5. module = "checkin" /\ r.by.in = UpdateInputOf(r.by.to) /\ r.by.to \in CheckinPayloads
    BY <2>1, <2>3 DEF Computed, AskOK
  <2>6. memory \in CheckinSettled
    BY <2>2, <2>5, SettledOf
  <2>7. ASSUME ~torn
        PROVE  RewardsOf(memory') = RewardsOf([r.by.to EXCEPT !.ranges = RangesBack(memory, r.by.to)])
    <3>1. Update(module, memory, r.by.in).ok /\ r.next = Update(module, memory, r.by.in).next
      BY <2>1, <2>2, <2>7 DEF OneAtATime
    <3> HIDE DEF r
    <3>2. CheckinUpdate(memory, UpdateInputOf(r.by.to)).ok
          /\ memory' = CheckinUpdate(memory, UpdateInputOf(r.by.to)).next
      BY <2>1, <2>2, <2>5, <3>1, UpdateIs
    <3> QED
      BY <2>5, <2>6, <3>2, CheckinRolledBack
  <2> QED
    BY <2>4, <2>7
<1> QED
  BY <1>1, SettingsInvKept, PTL DEF SettingsSpec, RollbackRestores

-----------------------------------------------------------------------------
(***************************************************************************)
(* The check-in.                                                           *)
(***************************************************************************)

P == INSTANCE Payout_proofs WITH
    Keys <- Users, UpKeys <- Users, UpKeyOf <- [u \in Users |-> u],
    Requests <- [key : Users, delta : Amounts], Mistakable <- Lookalikes,
    final <- Credit!FinalRows, sent <- net, calls <- [w \in Workers |-> Credit!Seen(calls[w])]

\* A request that got as far as an amount never has a zero one.
Priced(q) == q.at \in {"insert", "credit", "undo", "success"} => q.amount # 0

ReqOK(q) == q = Free \/ \E at \in Steps, u \in Users : \E a : q = Request(at, u, a)

DayInv ==
    /\ reqs = [w \in Workers |-> reqs[w]]
    /\ records = [u \in Users |-> records[u]]
    /\ \A w \in Workers : ReqOK(reqs[w]) /\ Priced(reqs[w])
    /\ DayIsHeldOnce

(***************************************************************************)
(* Nobody holds a day before the first request.                             *)
(***************************************************************************)
LEMMA DayInit == Init => DayInv
  BY DEF Init, DayInv, ReqOK, Priced, Free, DayIsHeldOnce, Holds

(***************************************************************************)
(* Moving a worker's request on changes its step and nothing else.          *)
(***************************************************************************)
LEMMA RequestMoves ==
  ASSUME NEW w \in Workers, NEW at, NEW b, NEW u, NEW a,
         reqs[w] = Request(b, u, a), Goto(w, at)
  PROVE  reqs' = [reqs EXCEPT ![w] = Request(at, u, a)]
<1>1. [reqs[w] EXCEPT !.at = at] = Request(at, u, a)
  BY DEF Request
<1>2. reqs' = [reqs EXCEPT ![w] = [reqs[w] EXCEPT !.at = at]]
  BY DEF Goto
<1>3. QED
  BY <1>1, <1>2

(***************************************************************************)
(* A step that changes the request of one worker only, and no record, keeps *)
(* the invariant if the request stays as it should be and the worker holds  *)
(* only what it held before.                                                *)
(***************************************************************************)
LEMMA QuietStep ==
  ASSUME DayInv, NEW w \in Workers, NEW q,
         reqs' = [reqs EXCEPT ![w] = q],
         records' = records,
         ReqOK(q), Priced(q),
         q.at \in {"credit", "undo", "success"} =>
            /\ reqs[w].at \in {"credit", "undo", "success"}
            /\ q.user = reqs[w].user
            /\ q.amount = reqs[w].amount
  PROVE  DayInv'
<1>1. \A v \in Workers : reqs'[v] = IF v = w THEN q ELSE reqs[v]
  BY DEF DayInv
<1>2. reqs' = [v \in Workers |-> reqs'[v]] /\ records' = [u \in Users |-> records'[u]]
  BY DEF DayInv
<1>3. \A v \in Workers : ReqOK(reqs'[v]) /\ Priced(reqs'[v])
  BY <1>1 DEF DayInv
<1>4. ASSUME NEW v \in Workers, NEW u \in Users, Holds(v, u)'
      PROVE  Holds(v, u) /\ reqs'[v].amount = reqs[v].amount
  BY <1>1, <1>4 DEF Holds, UserOf
<1>5. DayIsHeldOnce'
  BY <1>4 DEF DayInv, DayIsHeldOnce
<1>6. QED
  BY <1>2, <1>3, <1>5 DEF DayInv, ReqOK, Priced

(***************************************************************************)
(* Moving on to another step keeps user and amount of the request.          *)
(***************************************************************************)
LEMMA GotoStep ==
  ASSUME DayInv, NEW w \in Workers, NEW at \in Steps,
         reqs[w].at \in Steps,
         Goto(w, at),
         records' = records,
         at \in {"insert", "credit", "undo", "success"} =>
             reqs[w].at \in {"insert", "credit", "undo", "success"},
         at \in {"credit", "undo", "success"} => reqs[w].at \in {"credit", "undo", "success"}
  PROVE  DayInv'
<1>1. PICK b \in Steps, u \in Users : \E a : reqs[w] = Request(b, u, a)
  BY DEF DayInv, ReqOK, Free, Steps
<1>2. PICK a : reqs[w] = Request(b, u, a)
  BY <1>1
<1>3. reqs' = [reqs EXCEPT ![w] = Request(at, u, a)]
  BY <1>2, RequestMoves
<1>4. ReqOK(Request(at, u, a))
  BY DEF ReqOK
<1>5. Priced(Request(at, u, a))
  BY <1>2 DEF DayInv, Priced, Request
<1>6. /\ Request(at, u, a).at = at
      /\ Request(at, u, a).user = reqs[w].user
      /\ Request(at, u, a).amount = reqs[w].amount
  BY <1>2 DEF Request
<1>7. QED
  BY <1>3, <1>4, <1>5, <1>6, QuietStep

(***************************************************************************)
(* The answer to a request gives nothing to hold.                           *)
(***************************************************************************)
LEMMA ReplyStep ==
  ASSUME DayInv, NEW w \in Workers, Reply(w), records' = records
  PROVE  DayInv'
<1>1. ReqOK(Free) /\ Priced(Free) /\ Free.at \notin {"credit", "undo", "success"}
  BY DEF ReqOK, Priced, Free
<1>2. QED
  BY <1>1, QuietStep DEF Reply

(***************************************************************************)
(* Every step of the check-in keeps the invariant.  The two that matter are *)
(* the insert, which finds the day free, and the undo, which frees it.      *)
(***************************************************************************)
LEMMA DayStep == DayInv /\ [Next]_vars => DayInv'
<1> SUFFICES ASSUME DayInv, [Next]_vars PROVE DayInv'
  OBVIOUS
<1>0. \A w \in Workers : reqs[w].at # "free" => reqs[w].at \in Steps
  BY DEF DayInv, ReqOK, Request, Free, Steps
<1>1. ASSUME NEW w \in Workers, NEW u \in Users, Begin(w, u) PROVE DayInv'
  <2>1. ReqOK(Request("lookup", u, 0)) /\ Priced(Request("lookup", u, 0))
    BY DEF ReqOK, Priced, Request, Steps
  <2>2. reqs' = [reqs EXCEPT ![w] = Request("lookup", u, 0)] /\ records' = records
    BY <1>1 DEF Begin, Request
  <2>3. QED
    BY <2>1, <2>2, QuietStep DEF Request
<1>2. ASSUME NEW w \in Workers, LookupRecord(w) PROVE DayInv'
  <2>1. CASE Reply(w)
    BY <1>2, <2>1, ReplyStep DEF LookupRecord
  <2>2. CASE Goto(w, "budget")
    BY <1>2, <2>2, GotoStep DEF LookupRecord, Steps
  <2>3. QED
    BY <1>2, <2>1, <2>2 DEF LookupRecord
<1>3. ASSUME NEW w \in Workers, ReadSpent(w) PROVE DayInv'
  <2>1. CASE Reply(w)
    BY <1>3, <2>1, ReplyStep DEF ReadSpent
  <2>2. CASE Goto(w, "close")
    BY <1>3, <2>2, GotoStep DEF ReadSpent, Steps
  <2>3. ASSUME NEW amount, amount # 0,
               reqs' = [reqs EXCEPT ![w] = Request("insert", UserOf(w), amount)]
        PROVE  DayInv'
    <3>1. PICK b \in Steps, u \in Users : \E a : reqs[w] = Request(b, u, a)
      BY <1>3 DEF DayInv, ReqOK, Free, Steps, ReadSpent
    <3>2. UserOf(w) = u
      BY <3>1 DEF UserOf, Request
    <3>3. ReqOK(Request("insert", u, amount)) /\ Priced(Request("insert", u, amount))
      BY <2>3 DEF ReqOK, Priced, Request, Steps
    <3>4. records' = records
      BY <1>3 DEF ReadSpent
    <3>5. QED
      BY <2>3, <3>2, <3>3, <3>4, QuietStep DEF Request
  <2>4. QED
    BY <1>3, <2>1, <2>2, <2>3 DEF ReadSpent
<1>4. ASSUME NEW w \in Workers, CloseCheckin(w) PROVE DayInv'
  BY <1>4, ReplyStep DEF CloseCheckin
<1>5. ASSUME NEW w \in Workers, InsertRecord(w) PROVE DayInv'
  <2>0. reqs[w].at = "insert"
    BY <1>5 DEF InsertRecord
  <2>1. PICK b \in Steps, u \in Users : \E a : reqs[w] = Request(b, u, a)
    BY <2>0 DEF DayInv, ReqOK, Free
  <2>2. PICK a : reqs[w] = Request("insert", u, a)
    <3>1. PICK a : reqs[w] = Request(b, u, a)
      BY <2>1
    <3>2. b = "insert"
      BY <2>0, <3>1 DEF Request
    <3>3. QED
      BY <3>1, <3>2
  <2>3. reqs' = [reqs EXCEPT ![w] = Request("credit", u, a)]
    <3>1. Goto(w, "credit")
      BY <1>5 DEF InsertRecord
    <3>2. QED
      BY <2>2, <3>1, RequestMoves
  <2>4. records[u] = 0 /\ records' = [records EXCEPT ![u] = a]
    BY <1>5, <2>2 DEF InsertRecord, UserOf, Request
  <2>5. a # 0
    BY <2>2 DEF DayInv, Priced, Request
  <2>6. \A v \in Workers : reqs'[v] = IF v = w THEN Request("credit", u, a) ELSE reqs[v]
    BY <2>3 DEF DayInv
  <2>7. \A x \in Users : records'[x] = IF x = u THEN a ELSE records[x]
    BY <2>4 DEF DayInv
  <2>8. \A v \in Workers : ReqOK(reqs'[v]) /\ Priced(reqs'[v])
    <3>1. ReqOK(Request("credit", u, a)) /\ Priced(Request("credit", u, a))
      BY <2>5 DEF ReqOK, Priced, Request, Steps
    <3>2. QED
      BY <2>6, <3>1 DEF DayInv
  <2>9. \A v \in Workers : ~Holds(v, u)
    <3>1. SUFFICES ASSUME NEW v \in Workers, Holds(v, u) PROVE FALSE
      OBVIOUS
    <3>2. records[u] = reqs[v].amount /\ reqs[v].amount # 0
      BY <3>1 DEF DayInv, DayIsHeldOnce, Priced, Holds
    <3>3. QED
      BY <2>4, <3>2
  <2>10. DayIsHeldOnce'
    <3>1. ASSUME NEW v \in Workers, NEW x \in Users, Holds(v, x)'
          PROVE  /\ records'[x] = reqs'[v].amount
                 /\ v = w <=> x = u
                 /\ v # w => Holds(v, x)
      BY <2>6, <2>7, <2>9, <3>1 DEF Holds, UserOf, Request, DayInv, DayIsHeldOnce
    <3>2. QED
      BY <3>1 DEF DayInv, DayIsHeldOnce
  <2>11. reqs' = [v \in Workers |-> reqs'[v]] /\ records' = [x \in Users |-> records'[x]]
    BY <2>3, <2>4 DEF DayInv
  <2>12. QED
    BY <2>8, <2>10, <2>11 DEF DayInv, ReqOK, Priced
<1>6. ASSUME NEW w \in Workers, InsertRefused(w) \/ StatementFails(w) \/ ReplySuccess(w)
      PROVE  DayInv'
  BY <1>6, ReplyStep DEF InsertRefused, StatementFails, ReplySuccess
<1>7. ASSUME UNCHANGED <<records, reqs>> PROVE DayInv'
  BY <1>7 DEF DayInv, DayIsHeldOnce, Holds, UserOf, ReqOK, Priced
<1>8. ASSUME NEW w \in Workers, Credited(w) \/ CreditFailed(w) PROVE DayInv'
  <2>1. reqs[w].at = "credit" /\ records' = records
    BY <1>8 DEF Credited, CreditFailed
  <2>2. CASE Goto(w, "success")
    BY <2>1, <2>2, GotoStep DEF Steps
  <2>3. CASE Goto(w, "undo")
    BY <2>1, <2>3, GotoStep DEF Steps
  <2>4. QED
    BY <1>8, <2>2, <2>3 DEF Credited, CreditFailed
<1>9. ASSUME NEW w \in Workers, Undo(w) PROVE DayInv'
  <2>1. PICK b \in Steps, u \in Users : \E a : reqs[w] = Request(b, u, a)
    BY <1>9 DEF DayInv, ReqOK, Free, Steps, Undo
  <2>2. Holds(w, u) /\ UserOf(w) = u
    BY <1>9, <2>1 DEF Undo, Holds, UserOf, Request
  <2>3. \A v \in Workers : reqs'[v] = IF v = w THEN Free ELSE reqs[v]
    BY <1>9 DEF Undo, Reply, DayInv
  <2>4. \A x \in Users : x # u => records'[x] = records[x]
    BY <1>9, <2>2 DEF Undo, DayInv
  <2>5. ASSUME NEW v \in Workers, NEW x \in Users, Holds(v, x)'
        PROVE  v # w /\ x # u /\ Holds(v, x) /\ reqs'[v].amount = reqs[v].amount
    <3>1. v # w /\ Holds(v, x) /\ reqs'[v].amount = reqs[v].amount
      BY <2>3, <2>5 DEF Holds, UserOf, Free
    <3>2. x # u
      BY <2>2, <3>1 DEF DayInv, DayIsHeldOnce
    <3>3. QED
      BY <3>1, <3>2
  <2>6. DayIsHeldOnce'
    BY <2>4, <2>5 DEF DayInv, DayIsHeldOnce
  <2>7. \A v \in Workers : ReqOK(reqs'[v]) /\ Priced(reqs'[v])
    <3>1. ReqOK(Free) /\ Priced(Free)
      BY DEF ReqOK, Priced, Free
    <3>2. QED
      BY <2>3, <3>1 DEF DayInv
  <2>8. reqs' = [v \in Workers |-> reqs'[v]] /\ records' = [x \in Users |-> records'[x]]
    BY <1>9 DEF Undo, Reply, DayInv
  <2>9. QED
    BY <2>6, <2>7, <2>8 DEF DayInv, ReqOK, Priced
<1>10. ASSUME Restart PROVE DayInv'
  <2>1. reqs' = [w \in Workers |-> Free] /\ records' = records
    BY <1>10 DEF Restart
  <2>2. \A w \in Workers : ReqOK(reqs'[w]) /\ Priced(reqs'[w])
    BY <2>1 DEF ReqOK, Priced, Free
  <2>3. DayIsHeldOnce'
    BY <2>1 DEF DayIsHeldOnce, Holds, Free
  <2>4. QED
    BY <2>1, <2>2, <2>3 DEF DayInv, ReqOK, Priced
<1>11. CASE Upstream \/ Reopen \/ UNCHANGED vars
  BY <1>7, <1>11 DEF Upstream, Reopen, vars
<1>12. ASSUME NEW w \in Workers, CreditStep(w) PROVE DayInv'
  BY <1>7, <1>12 DEF CreditStep
<1>13. QED
  BY <1>1, <1>2, <1>3, <1>4, <1>5, <1>6, <1>8, <1>9, <1>10, <1>11, <1>12 DEF Next, Step

(***************************************************************************)
(* However the requests of a user overlap, at most one of them is past its  *)
(* insert, and the record keeps its amount until that request deletes it.   *)
(***************************************************************************)
THEOREM OneHolderOfTheDay == Spec => []DayIsHeldOnce
<1>1. DayInv => DayIsHeldOnce
  BY DEF DayInv
<1>2. QED
  BY <1>1, DayInit, DayStep, PTL DEF Spec

-----------------------------------------------------------------------------
(***************************************************************************)
(* The payout behind the record.  Only the request that holds the day calls *)
(* the payout service under the day's key, for the amount of the record; so *)
(* a record that nobody holds, of a user without a failure, shows what      *)
(* upstream has moved for good, and the final row is the record's.          *)
(***************************************************************************)
\* A frame of the payout a request waits for.  It is never asked for nothing,
\* and never finds the day's key used: "zero" and "skipped" cannot happen.
Places == (Credit!Running \cup Credit!Returned) \ {"zero", "skipped"}

Frame(pc, r, t, hit) == [pc |-> pc, req |-> r, try |-> t, hit |-> hit]

FrameOK(f) ==
    \/ f = Credit!Idle
    \/ \E pc \in Places, hit \in BOOLEAN : \E r, t :
          f = Frame(pc, r, t, hit)

\* Money has moved for the user, or Grant may have read so in an error.
Moved(u) == applied[u] # 0 \/ u \in Lookalikes

\* The call has been told so, by an answer or by what it took for one.
Knows(f) == f.pc \in {"lookup", "record", "ok"} \/ (f.pc # "idle" /\ f.hit)

Knowing(f) == Knows(f) => Moved(f.req.key)

CallFor(q, f) ==
    /\ q.at = "credit" <=> f # Credit!Idle
    /\ f # Credit!Idle => f.req = [key |-> q.user, delta |-> q.amount]

CallsOK ==
    /\ calls = [w \in Workers |-> calls[w]]
    /\ \A w \in Workers : FrameOK(calls[w]) /\ Knowing(calls[w]) /\ CallFor(reqs[w], calls[w])

\* Every final row is the success row of the record that is there.
LedgerOK ==
    \A e \in ledger : e.status # "failed" =>
        e.key \in Users /\ records[e.key] # 0 /\ e = Backfilled(e.key)

Calm(u) == applied[u] # 0 \/ \A m \in net : m.up # u
Asked(u, a) == applied[u] \in {0, a} /\ \A m \in net : m.up = u => m.delta = a

\* The record shows what has moved, or what was booked unpaid and may move yet.
AtRest(u) ==
    \/ Calm(u) /\ records[u] = applied[u]
    \/ u \in Lookalikes /\ records[u] # 0 /\ Asked(u, records[u])

\* The payout has ended well.
Booked(w) == reqs[w].at = "success" \/ (reqs[w].at = "credit" /\ calls[w].pc = "ok")

HolderOK(w, u) ==
    /\ ~Booked(w) => ~Credit!Final(u)
    /\ Booked(w) => Backfilled(u) \in ledger
    /\ u \notin warned => Asked(u, records[u])
    /\ u \notin warned /\ reqs[w].at = "success" => Moved(u)

UserOK(u) ==
    /\ ~Held(u) /\ u \notin warned => AtRest(u)
    /\ \A w \in Workers : Holds(w, u) => HolderOK(w, u)

PaidInv ==
    /\ DayInv
    /\ CallsOK
    /\ LedgerOK
    /\ applied = [u \in Users |-> applied[u]]
    /\ \A u \in Users : UserOK(u)

LEMMA PaidInit == Init => PaidInv
<1> SUFFICES ASSUME Init PROVE PaidInv
  OBVIOUS
<1>1. \A w \in Workers : \A u \in Users : ~Holds(w, u)
  BY DEF Init, Holds, Free
<1>2. CallsOK
  BY DEF Init, Credit!Init, CallsOK, FrameOK, Knowing, Knows, CallFor, Free, Credit!Idle
<1>3. \A u \in Users : UserOK(u)
  BY <1>1 DEF Init, Credit!Init, UserOK, Held, AtRest, Calm
<1>4. QED
  BY <1>2, <1>3, DayInit DEF PaidInv, Init, Credit!Init, LedgerOK

(***************************************************************************)
(* Who runs a call holds the day that it pays.                              *)
(***************************************************************************)
LEMMA CallerHolds ==
  ASSUME PaidInv, NEW w \in Workers, calls[w] # Credit!Idle
  PROVE  \E u \in Users : /\ Holds(w, u) /\ HolderOK(w, u) /\ reqs[w].at = "credit"
                          /\ records[u] = reqs[w].amount /\ records[u] # 0
                          /\ calls[w].req = [key |-> u, delta |-> records[u]]
                          /\ \A v \in Workers : Holds(v, u) => v = w
<1>1. /\ CallFor(reqs[w], calls[w]) /\ ReqOK(reqs[w]) /\ Priced(reqs[w]) /\ DayIsHeldOnce
      /\ \A u \in Users : UserOK(u)
  BY DEF PaidInv, CallsOK, DayInv
<1>2. reqs[w].at = "credit" /\ calls[w].req = [key |-> reqs[w].user, delta |-> reqs[w].amount]
  BY <1>1 DEF CallFor
<1>3. PICK u \in Users : u = reqs[w].user
  <2>1. PICK b \in Steps, x \in Users : \E a : reqs[w] = Request(b, x, a)
    BY <1>1, <1>2 DEF ReqOK, Free
  <2>2. QED
    BY <2>1 DEF Request
<1>4. Holds(w, u)
  BY <1>2, <1>3 DEF Holds, UserOf
<1>5. records[u] = reqs[w].amount /\ \A v \in Workers : Holds(v, u) => v = w
  BY <1>1, <1>4 DEF DayIsHeldOnce
<1>6. HolderOK(w, u) /\ records[u] # 0
  BY <1>1, <1>2, <1>4, <1>5 DEF UserOK, Priced
<1>7. QED
  BY <1>2, <1>3, <1>4, <1>5, <1>6

(***************************************************************************)
(* What a step of the payout service does for the user whose day w holds.   *)
(***************************************************************************)
Pays(w, u, f) ==
    /\ calls' = [calls EXCEPT ![w] = f]
    /\ FrameOK(f) /\ f # Credit!Idle /\ f.req = calls[w].req
    /\ Knows(f) => Moved(u)
    /\ applied' = applied
    /\ \A m \in net' : m \in net \/ m = [up |-> u, delta |-> records[u]]
    /\ ~Booked(w)
    /\ \/ f.pc # "ok" /\ ledger \subseteq ledger' /\ \A e \in ledger' \ ledger : e.status = "failed"
       \/ f.pc = "ok" /\ ledger' = ledger \cup {Backfilled(u)}

(***************************************************************************)
(* Frames after an attempt: one more try, or the end of trying.             *)
(***************************************************************************)
Again(f, n, hit) == [f EXCEPT !.pc = "send", !.try = n, !.hit = hit]
Ending(f, pc, hit) == [f EXCEPT !.pc = pc, !.hit = hit]

LEMMA FrameChanges ==
  ASSUME NEW f, NEW p, NEW r, NEW t, NEW h, NEW n, NEW hit, f = Frame(p, r, t, h)
  PROVE  /\ Again(f, n, hit) = Frame("send", r, n, hit)
         /\ \A pc : Ending(f, pc, hit) = Frame(pc, r, t, hit)
<1>1. ASSUME NEW pc
      PROVE  Ending(f, pc, hit) = Frame(pc, r, t, hit)
  <2>1. PICK g : g = [f EXCEPT !.pc = pc]
    OBVIOUS
  <2>2. g = Frame(pc, r, t, h)
    BY <2>1 DEF Frame
  <2>3. Ending(f, pc, hit) = [g EXCEPT !.hit = hit]
    BY <2>1 DEF Ending
  <2>4. QED
    BY <2>2, <2>3 DEF Frame
<1>2. Again(f, n, hit) = Frame("send", r, n, hit)
  <2>1. PICK g : g = [f EXCEPT !.pc = "send"]
    OBVIOUS
  <2>2. PICK e : e = [g EXCEPT !.try = n]
    OBVIOUS
  <2>3. g = Frame("send", r, t, h)
    BY <2>1 DEF Frame
  <2>4. e = Frame("send", r, n, h)
    BY <2>2, <2>3 DEF Frame
  <2>5. Again(f, n, hit) = [e EXCEPT !.hit = hit]
    BY <2>1, <2>2 DEF Again
  <2>6. QED
    BY <2>4, <2>5 DEF Frame
<1>3. QED
  BY <1>1, <1>2

(***************************************************************************)
(* What an unsuccessful attempt makes of a frame.                           *)
(***************************************************************************)
LEMMA AfterErrorFrame ==
  ASSUME NEW f, NEW p, NEW r, NEW t, NEW h, NEW hit, f = Frame(p, r, t, h)
  PROVE  \E pc \in {"send", "lookup", "fail"} : \E n :
            /\ Credit!AfterError(f, hit) = Frame(pc, r, n, hit)
            /\ pc = "lookup" => hit
<1>1. PICK n : n = f.try + 1
  OBVIOUS
<1>2. \/ Credit!AfterError(f, hit) = Again(f, n, hit)
      \/ Credit!AfterError(f, hit) = Ending(f, "lookup", hit) /\ hit
      \/ Credit!AfterError(f, hit) = Ending(f, "fail", hit)
  BY <1>1 DEF Credit!AfterError, Again, Ending
<1>3. /\ Again(f, n, hit) = Frame("send", r, n, hit)
      /\ \A pc : Ending(f, pc, hit) = Frame(pc, r, t, hit)
  BY FrameChanges
<1>4. QED
  BY <1>2, <1>3

(***************************************************************************)
(* Every step of the payout service is a step of the request that holds the *)
(* day, under the day's key and with the record's amount.                   *)
(***************************************************************************)
LEMMA PayoutMoves ==
  ASSUME PaidInv, NEW w \in Workers, Credit!WorkerStep(w)
  PROVE  \E u \in Users : \E f : Holds(w, u) /\ reqs[w].at = "credit" /\ Pays(w, u, f)
<1>1. calls[w] # Credit!Idle /\ calls[w].pc # "ok"
  <2>1. calls[w].pc \in {"check", "zero", "record", "fail", "send", "wait", "lookup"}
    BY DEF Credit!WorkerStep, Credit!CheckLedger, Credit!InsertSkipped, Credit!InsertSuccess,
     Credit!InsertFailed, Credit!StatementFails, Credit!SendRequest, Credit!ReplyOk,
     Credit!ReplyError, Credit!ReplyMisread, Credit!ReplyDuplicate, Credit!LookupUser
  <2>2. QED
    BY <2>1 DEF Credit!Idle
<1>2. PICK u \in Users :
          /\ Holds(w, u) /\ HolderOK(w, u) /\ reqs[w].at = "credit"
          /\ records[u] # 0 /\ calls[w].req = [key |-> u, delta |-> records[u]]
  BY <1>1, CallerHolds
<1>3. PICK a : a = records[u] /\ a # 0
  BY <1>2
<1>4. FrameOK(calls[w]) /\ Knowing(calls[w])
  BY DEF PaidInv, CallsOK
<1>5. PICK p \in Places, h \in BOOLEAN :
          \E t : calls[w] = Frame(p, [key |-> u, delta |-> a], t, h)
  <2>1. PICK p \in Places, h \in BOOLEAN : \E r, t :
            calls[w] = Frame(p, r, t, h)
    BY <1>1, <1>4 DEF FrameOK
  <2>2. PICK r, t : calls[w] = Frame(p, r, t, h)
    BY <2>1
  <2>3. r = [key |-> u, delta |-> a]
    BY <1>2, <1>3, <2>2 DEF Frame
  <2>4. QED
    BY <2>2, <2>3
<1>5a. PICK t : calls[w] = Frame(p, [key |-> u, delta |-> a], t, h)
  BY <1>5
<1>6. calls[w] = [pc |-> p, req |-> [key |-> u, delta |-> a], try |-> t, hit |-> h]
  BY <1>5a DEF Frame
<1> DEFINE frame(pc, n, hit) == [pc |-> pc, req |-> [key |-> u, delta |-> a], try |-> n, hit |-> hit]
<1>7. ~Booked(w) /\ ~Credit!Final(u) /\ Credit!Up(calls[w]) = u
  <2>1. ~Booked(w)
    BY <1>1, <1>2 DEF Booked
  <2>2. Credit!Up(calls[w]) = u
    BY <1>2 DEF Credit!Up
  <2>3. QED
    BY <1>2, <2>1, <2>2 DEF HolderOK
<1>8. Knows(calls[w]) => Moved(u)
  BY <1>4, <1>6 DEF Knowing
<1>9. \A pc : Credit!Goto(w, pc) => calls' = [calls EXCEPT ![w] = frame(pc, t, h)]
  <2>1. ASSUME NEW pc
        PROVE  [calls[w] EXCEPT !.pc = pc] = frame(pc, t, h)
    BY <1>6
  <2>2. QED
    BY <2>1 DEF Credit!Goto
<1>10. \A pc \in Places, hit \in BOOLEAN : \A n : FrameOK(frame(pc, n, hit))
                                               /\ frame(pc, n, hit) # Credit!Idle
  <2>1. ASSUME NEW pc \in Places, NEW hit \in BOOLEAN, NEW n
        PROVE  FrameOK(frame(pc, n, hit)) /\ frame(pc, n, hit) # Credit!Idle
    BY DEF FrameOK, Frame, Credit!Idle
  <2>2. QED
    BY <2>1
<1>11. ASSUME NEW pc \in Places, NEW n, NEW hit \in BOOLEAN,
              calls' = [calls EXCEPT ![w] = frame(pc, n, hit)],
              pc \in {"lookup", "record", "ok"} \/ hit => Moved(u),
              applied' = applied,
              \A m \in net' : m \in net \/ m = [up |-> u, delta |-> records[u]],
              \/ pc # "ok" /\ ledger \subseteq ledger' /\ \A e \in ledger' \ ledger : e.status = "failed"
              \/ pc = "ok" /\ ledger' = ledger \cup {Backfilled(u)}
       PROVE  \E f : Pays(w, u, f)
  <2>1. PICK f : f = frame(pc, n, hit)
    OBVIOUS
  <2>2. /\ f.pc = pc /\ f.hit = hit /\ f.req = calls[w].req
        /\ FrameOK(f) /\ f # Credit!Idle
    BY <1>6, <1>10, <2>1
  <2>3. Knows(f) => Moved(u)
    BY <1>11, <2>2 DEF Knows
  <2>4. QED
    BY <1>7, <1>11, <2>1, <2>2, <2>3 DEF Pays
<1> DEFINE Still == ledger' = ledger /\ applied' = applied /\ net' = net
<1>12. ASSUME NEW pc \in Places \ {"ok"}, Credit!Goto(w, pc), Still,
              pc \in {"lookup", "record"} => Moved(u)
       PROVE  \E f : Pays(w, u, f)
  <2>1. h => Moved(u)
    <3>1. CASE p = "idle"
      BY <1>6, <3>1 DEF Places, Credit!Running, Credit!Returned
    <3>2. CASE p # "idle"
      BY <1>6, <1>8, <3>2 DEF Knows
    <3>3. QED
      BY <3>1, <3>2
  <2>2. QED
    BY <1>9, <1>11, <1>12, <2>1
<1>13. h => Moved(u)
  <2>1. p # "idle"
    BY <1>6 DEF Places, Credit!Running, Credit!Returned
  <2>2. QED
    BY <1>6, <1>8, <2>1 DEF Knows
<1>14. {"send", "record", "fail", "error", "wait", "lookup", "ok"} \subseteq Places
  BY DEF Places, Credit!Running, Credit!Returned
<1>15. CASE Credit!CheckLedger(w)
  <2>1. Credit!Goto(w, "send") /\ Still
    BY <1>3, <1>6, <1>7, <1>15 DEF Credit!CheckLedger
  <2>2. QED
    BY <1>2, <1>12, <1>14, <2>1
<1>16. CASE Credit!InsertSkipped(w)
  BY <1>6, <1>16 DEF Credit!InsertSkipped, Places
<1>17. CASE Credit!InsertSuccess(w)
  <2>1. /\ calls' = [calls EXCEPT ![w] = frame("ok", t, h)]
        /\ ledger' = ledger \cup {Backfilled(u)}
        /\ applied' = applied /\ net' = net /\ p = "record"
    BY <1>3, <1>6, <1>9, <1>17 DEF Credit!InsertSuccess, Backfilled
  <2>2. Moved(u)
    BY <1>6, <1>8, <2>1 DEF Knows
  <2>3. QED
    BY <1>2, <1>11, <1>14, <2>1, <2>2
<1>18. CASE Credit!InsertFailed(w)
  <2>1. /\ calls' = [calls EXCEPT ![w] = frame("error", t, h)]
        /\ ledger' = ledger \cup {[key |-> u, delta |-> a, status |-> "failed"]}
        /\ applied' = applied /\ net' = net
    BY <1>6, <1>9, <1>18 DEF Credit!InsertFailed
  <2>2. ledger \subseteq ledger' /\ \A e \in ledger' \ ledger : e.status = "failed"
    BY <2>1
  <2>3. QED
    BY <1>2, <1>11, <1>13, <1>14, <2>1, <2>2
<1>19. CASE Credit!StatementFails(w)
  BY <1>2, <1>12, <1>14, <1>19 DEF Credit!StatementFails
<1>20. CASE Credit!SendRequest(w)
  <2>1. /\ calls' = [calls EXCEPT ![w] = frame("wait", t, h)]
        /\ net' = net \cup {[up |-> u, delta |-> a]}
        /\ applied' = applied /\ ledger' = ledger
    BY <1>6, <1>7, <1>9, <1>20 DEF Credit!SendRequest
  <2>2. \A m \in net' : m \in net \/ m = [up |-> u, delta |-> records[u]]
    BY <1>3, <2>1
  <2>3. QED
    BY <1>2, <1>11, <1>13, <1>14, <2>1, <2>2
<1>21. CASE Credit!ReplyOk(w)
  BY <1>2, <1>7, <1>12, <1>14, <1>21 DEF Credit!ReplyOk, Moved
<1>22. CASE Credit!LookupUser(w)
  <2>1. Moved(u)
    BY <1>6, <1>8, <1>22 DEF Credit!LookupUser, Knows
  <2>2. QED
    BY <1>2, <1>12, <1>14, <1>22, <2>1 DEF Credit!LookupUser
<1>23. CASE Credit!ReplyError(w) \/ Credit!ReplyMisread(w) \/ Credit!ReplyDuplicate(w)
  <2>1. PICK hit \in BOOLEAN : /\ calls' = [calls EXCEPT ![w] = Credit!AfterError(calls[w], hit)]
                               /\ hit => Moved(u)
                               /\ Still
    <3>1. CASE Credit!ReplyError(w)
      <4>1. calls' = [calls EXCEPT ![w] = Credit!AfterError(calls[w], h)] /\ Still
        BY <1>6, <3>1 DEF Credit!ReplyError
      <4>2. QED
        BY <1>13, <4>1
    <3>2. CASE Credit!ReplyDuplicate(w)
      <4>1. /\ calls' = [calls EXCEPT ![w] = Credit!AfterError(calls[w], TRUE)] /\ Still
            /\ Moved(u)
        BY <1>7, <3>2 DEF Credit!ReplyDuplicate, Moved
      <4>2. QED
        BY <4>1
    <3>3. CASE Credit!ReplyMisread(w)
      <4>1. /\ calls' = [calls EXCEPT ![w] = Credit!AfterError(calls[w], TRUE)] /\ Still
            /\ Moved(u)
        BY <1>7, <3>3 DEF Credit!ReplyMisread, Moved
      <4>2. QED
        BY <4>1
    <3>4. QED
      BY <1>23, <3>1, <3>2, <3>3
  <2>2. PICK r : r = [key |-> u, delta |-> a]
    OBVIOUS
  <2>3. PICK pc \in {"send", "lookup", "fail"} : \E n :
            /\ Credit!AfterError(calls[w], hit) = Frame(pc, r, n, hit)
            /\ pc = "lookup" => hit
    BY <1>5a, <2>2, AfterErrorFrame
  <2>4. PICK n : /\ Credit!AfterError(calls[w], hit) = frame(pc, n, hit)
                 /\ pc = "lookup" => hit
    BY <2>2, <2>3 DEF Frame
  <2>5. QED
    BY <1>2, <1>11, <1>14, <2>1, <2>4
<1>24. QED
  BY <1>2, <1>15, <1>16, <1>17, <1>18, <1>19, <1>20, <1>21, <1>22, <1>23 DEF Credit!WorkerStep

(***************************************************************************)
(* A step that leaves u's record, money, rows and holder alone.             *)
(***************************************************************************)
LEMMA UserKept ==
  ASSUME PaidInv, NEW u \in Users,
         records'[u] = records[u],
         u \in warned => u \in warned',
         \A v \in Workers : Holds(v, u) \/ Holds(v, u)' =>
             reqs'[v] = reqs[v] /\ calls'[v] = calls[v],
         ledger \subseteq ledger',
         \A e \in ledger' : e.key = u /\ e.status # "failed" => e \in ledger,
         applied'[u] = applied[u],
         \A m \in net' : m.up = u => m \in net
  PROVE  UserOK(u)'
<1>1. UserOK(u) /\ \A v \in Workers : Holds(v, u)' = Holds(v, u)
  BY DEF PaidInv, Holds, UserOf
<1>2. Held(u)' = Held(u) /\ Backfilled(u)' = Backfilled(u)
  BY <1>1 DEF Held, Backfilled
<1>3. ~Held(u)' /\ u \notin warned' => AtRest(u)'
  BY <1>1, <1>2 DEF UserOK, AtRest, Calm, Asked
<1>4. ASSUME NEW w \in Workers, Holds(w, u)'
      PROVE  HolderOK(w, u)'
  <2>1. HolderOK(w, u) /\ reqs'[w] = reqs[w] /\ calls'[w] = calls[w]
    BY <1>1, <1>4 DEF UserOK
  <2>2. Booked(w)' = Booked(w)
    BY <2>1 DEF Booked
  <2>3. Credit!Final(u)' => Credit!Final(u)
    BY DEF Credit!Final
  <2>4. u \notin warned' => Asked(u, records[u])'
    BY <2>1 DEF HolderOK, Asked
  <2>5. QED
    BY <1>2, <2>1, <2>2, <2>3, <2>4 DEF HolderOK, Asked, Moved
<1>5. QED
  BY <1>3, <1>4 DEF UserOK

(***************************************************************************)
(* The payout service runs for the request that holds the day.              *)
(***************************************************************************)
LEMMA PayoutKeeps ==
  ASSUME PaidInv, DayInv', NEW w \in Workers, CreditStep(w)
  PROVE  PaidInv'
<1>1. /\ records' = records /\ reqs' = reqs /\ warned' = warned /\ Credit!WorkerStep(w)
      /\ \A v \in Workers : \A x \in Users : Holds(v, x)' = Holds(v, x)
  BY DEF CreditStep, Holds, UserOf
<1>a. PICK u \in Users : \E f : Holds(w, u) /\ reqs[w].at = "credit" /\ Pays(w, u, f)
  BY <1>1, PayoutMoves
<1>2. PICK f : Holds(w, u) /\ reqs[w].at = "credit" /\ Pays(w, u, f)
  BY <1>a
<1>3. /\ calls = [v \in Workers |-> calls[v]] /\ calls' = [calls EXCEPT ![w] = f]
      /\ calls'[w] = f /\ \A v \in Workers \ {w} : calls'[v] = calls[v]
  BY <1>2 DEF PaidInv, CallsOK, Pays
<1>4. /\ records[u] = reqs[w].amount /\ records[u] # 0 /\ HolderOK(w, u)
      /\ calls[w].req = [key |-> u, delta |-> records[u]]
      /\ \A v \in Workers : Holds(v, u) => v = w
  <2>1. calls[w] # Credit!Idle
    BY <1>2 DEF PaidInv, CallsOK, CallFor
  <2>2. PICK x \in Users : /\ Holds(w, x) /\ HolderOK(w, x) /\ records[x] # 0
                           /\ records[x] = reqs[w].amount
                           /\ calls[w].req = [key |-> x, delta |-> records[x]]
                           /\ \A v \in Workers : Holds(v, x) => v = w
    BY <2>1, CallerHolds
  <2>3. x = u
    BY <1>2, <2>2 DEF Holds
  <2>4. QED
    BY <2>2, <2>3
<1>5. applied' = applied /\ \A x \in Users : Backfilled(x)' = Backfilled(x)
  BY <1>1, <1>2 DEF Pays, Backfilled
<1>6. \A e \in ledger' : e \in ledger \/ e.status = "failed" \/ (e = Backfilled(u) /\ f.pc = "ok")
  BY <1>2 DEF Pays
<1>7. CallsOK'
  <2>1. ASSUME NEW v \in Workers, NEW c, c = calls'[v]
        PROVE  FrameOK(c) /\ Knowing(c)' /\ CallFor(reqs[v], c)
    <3>1. FrameOK(calls[v]) /\ Knowing(calls[v]) /\ CallFor(reqs[v], calls[v])
      BY DEF PaidInv, CallsOK
    <3>2. CASE v = w
      <4>1. c = f
        BY <1>3, <2>1, <3>2
      <4>2. f.req.key = u
        BY <1>2, <1>4 DEF Pays
      <4>3. CallFor(reqs[v], f)
        BY <1>2, <3>1, <3>2 DEF Pays, CallFor
      <4>4. QED
        BY <1>2, <1>5, <4>1, <4>2, <4>3 DEF Pays, Knowing, Moved
    <3>3. CASE v # w
      <4>1. c = calls[v]
        BY <1>3, <2>1, <3>3
      <4>2. QED
        BY <1>5, <3>1, <4>1 DEF Knowing, Moved
    <3>4. QED
      BY <3>2, <3>3
  <2>2. QED
    BY <1>1, <1>3, <2>1 DEF CallsOK, Knowing, FrameOK, CallFor, Moved
<1>8. LedgerOK'
  <2>1. ASSUME NEW e \in ledger', e.status # "failed"
        PROVE  e.key \in Users /\ records[e.key] # 0 /\ e = Backfilled(e.key)
    <3>1. CASE e \in ledger
      BY <2>1, <3>1 DEF PaidInv, LedgerOK
    <3>2. CASE e = Backfilled(u)
      BY <1>4, <3>2 DEF Backfilled
    <3>3. QED
      BY <1>6, <2>1, <3>1, <3>2
  <2>2. QED
    BY <1>1, <2>1 DEF LedgerOK, Backfilled
<1>9. UserOK(u)'
  <2>1. Held(u)'
    BY <1>1, <1>2 DEF Held
  <2>2. Booked(w)' <=> f.pc = "ok"
    BY <1>1, <1>2, <1>3 DEF Booked
  <2>3. f.pc # "ok" => ~Credit!Final(u)'
    BY <1>2, <1>4, <1>6 DEF Pays, HolderOK, Credit!Final
  <2>4. f.pc = "ok" => Backfilled(u) \in ledger'
    BY <1>2 DEF Pays
  <2>5. u \notin warned => Asked(u, records[u])'
    BY <1>1, <1>2, <1>4 DEF Pays, HolderOK, Asked
  <2>6. HolderOK(w, u)'
    BY <1>1, <1>2, <1>5, <2>2, <2>3, <2>4, <2>5 DEF HolderOK, Asked, Moved
  <2>7. QED
    BY <1>1, <1>4, <2>1, <2>6 DEF UserOK
<1>10. ASSUME NEW x \in Users, x # u
       PROVE  UserOK(x)'
  <2>1. \A v \in Workers : Holds(v, x) => v # w
    BY <1>2, <1>10 DEF Holds
  <2>2. \A e \in ledger' : e.key = x /\ e.status # "failed" => e \in ledger
    BY <1>6, <1>10 DEF Backfilled
  <2>3. (\A m \in net' : m.up = x => m \in net) /\ ledger \subseteq ledger'
    BY <1>2, <1>10 DEF Pays
  <2>4. \A v \in Workers : Holds(v, x) \/ Holds(v, x)' => reqs'[v] = reqs[v] /\ calls'[v] = calls[v]
    BY <1>1, <1>3, <2>1
  <2>5. QED
    BY <1>1, <1>5, <2>2, <2>3, <2>4, UserKept
<1>11. QED
  BY <1>5, <1>7, <1>8, <1>9, <1>10 DEF PaidInv

(***************************************************************************)
(* Upstream serves or loses a request.                                      *)
(***************************************************************************)
LEMMA UpstreamKeeps ==
  ASSUME PaidInv, DayInv', Upstream
  PROVE  PaidInv'
<1>1. /\ records' = records /\ reqs' = reqs /\ warned' = warned /\ calls' = calls /\ ledger' = ledger
      /\ Credit!Upstream
  BY DEF Upstream, Credit!Upstream, Credit!Apply, Credit!Lose
<1>2. PICK m \in net : /\ net' = net \ {m}
                       /\ \/ applied' = applied
                          \/ applied[m.up] = 0 /\ applied' = [applied EXCEPT ![m.up] = m.delta]
  BY <1>1 DEF Credit!Upstream, Credit!Apply, Credit!Lose
<1>3. applied' = [u \in Users |-> applied'[u]]
  BY <1>2 DEF PaidInv
<1>4. ASSUME NEW u \in Users
      PROVE  applied'[u] = applied[u] \/ (applied[u] = 0 /\ m.up = u /\ applied'[u] = m.delta)
  BY <1>2 DEF PaidInv
<1>5. CallsOK'
  <2>1. ASSUME NEW v \in Workers, NEW c, c = calls[v]
        PROVE  Knowing(c)'
    <3>1. CASE c = Credit!Idle
      BY <3>1 DEF Knowing, Knows, Credit!Idle
    <3>2. CASE c # Credit!Idle
      <4>1. c.req.key \in Users /\ Knowing(c)
        <5>1. PICK u \in Users : calls[v].req = [key |-> u, delta |-> records[u]]
          BY <2>1, <3>2, CallerHolds
        <5>2. QED
          BY <2>1, <5>1 DEF PaidInv, CallsOK
      <4>2. QED
        BY <1>4, <4>1 DEF Knowing, Moved
    <3>3. QED
      BY <3>1, <3>2
  <2>2. QED
    BY <1>1, <2>1 DEF PaidInv, CallsOK, Knowing, Moved
<1>6. ASSUME NEW u \in Users
      PROVE  UserOK(u)'
  <2>1. UserOK(u) /\ Held(u)' = Held(u) /\ \A v \in Workers : Holds(v, u)' = Holds(v, u)
    BY <1>1 DEF PaidInv, Held, Holds, UserOf
  <2>2. ~Held(u) /\ u \notin warned => AtRest(u)'
    <3>1. Calm(u) => Calm(u)' /\ applied'[u] = applied[u]
      BY <1>2, <1>4 DEF Calm
    <3>2. Asked(u, records[u]) => Asked(u, records[u])'
      BY <1>1, <1>2, <1>4 DEF Asked
    <3>3. QED
      BY <1>1, <2>1, <3>1, <3>2 DEF UserOK, AtRest, Asked
  <2>3. ASSUME NEW w \in Workers, Holds(w, u)
        PROVE  HolderOK(w, u)'
    <3>1. HolderOK(w, u)
      BY <2>1, <2>3 DEF UserOK
    <3>2. u \notin warned => Asked(u, records[u])'
      BY <1>1, <1>2, <1>4, <3>1 DEF HolderOK, Asked
    <3>3. Booked(w)' = Booked(w) /\ Credit!Final(u)' = Credit!Final(u) /\ Backfilled(u)' = Backfilled(u)
      BY <1>1 DEF Booked, Credit!Final, Backfilled
    <3>4. Moved(u) => Moved(u)'
      <4>1. applied[u] # 0 => applied'[u] # 0
        BY <1>4
      <4>2. QED
        BY <4>1 DEF Moved
    <3>5. QED
      BY <1>1, <3>1, <3>2, <3>3, <3>4 DEF HolderOK, Asked
  <2>4. QED
    BY <1>1, <2>1, <2>2, <2>3 DEF UserOK
<1>7. LedgerOK'
  BY <1>1 DEF PaidInv, LedgerOK, Backfilled
<1>8. QED
  BY <1>3, <1>5, <1>6, <1>7 DEF PaidInv

(***************************************************************************)
(* A step of w's handler, by which w's request becomes q and its call c.    *)
(***************************************************************************)
LEMMA HandlerKeeps ==
  ASSUME PaidInv, DayInv', NEW w \in Workers, NEW q, NEW c,
         reqs' = [reqs EXCEPT ![w] = q], calls' = [calls EXCEPT ![w] = c],
         FrameOK(c), Knows(c) => Moved(c.req.key), CallFor(q, c),
         UNCHANGED <<ledger, applied, net>>,
         LedgerOK',
         warned \subseteq warned',
         NEW u \in Users,
         reqs[w] # Free => UserOf(w) = u,
         q # Free => q.user = u,
         \A x \in Users \ {u} : records'[x] = records[x],
         UserOK(u)'
  PROVE  PaidInv'
<1>1. /\ reqs'[w] = q /\ calls'[w] = c
      /\ \A v \in Workers \ {w} : reqs'[v] = reqs[v] /\ calls'[v] = calls[v]
      /\ calls' = [v \in Workers |-> calls'[v]]
  BY DEF PaidInv, DayInv, CallsOK
<1>2. CallsOK'
  <2>1. ASSUME NEW v \in Workers, NEW d, d = calls'[v], NEW p, p = reqs'[v]
        PROVE  FrameOK(d) /\ Knowing(d)' /\ CallFor(p, d)
    BY <1>1, <2>1 DEF PaidInv, CallsOK, Knowing, Moved
  <2>2. QED
    BY <1>1, <2>1 DEF CallsOK, Knowing, FrameOK, CallFor, Moved
<1>3. ASSUME NEW x \in Users, x # u
      PROVE  UserOK(x)'
  <2>1. ~Holds(w, x) /\ ~Holds(w, x)'
    BY <1>1, <1>3 DEF Holds, UserOf, Free
  <2>2. \A v \in Workers : Holds(v, x) \/ Holds(v, x)' => reqs'[v] = reqs[v] /\ calls'[v] = calls[v]
    BY <1>1, <2>1
  <2>3. QED
    BY <1>3, <2>2, UserKept
<1>4. QED
  BY <1>2, <1>3 DEF PaidInv

(***************************************************************************)
(* The request of a worker, and the day it may hold.                        *)
(***************************************************************************)
LEMMA RequestFacts ==
  ASSUME PaidInv, NEW w \in Workers, reqs[w].at # "free"
  PROVE  \E u \in Users : \E a :
            /\ reqs[w] = Request(reqs[w].at, u, a) /\ reqs[w].at \in Steps /\ UserOf(w) = u
            /\ reqs[w].at \in {"credit", "undo", "success"} =>
                  /\ Holds(w, u) /\ HolderOK(w, u) /\ records[u] = a /\ a # 0
                  /\ \A v \in Workers : Holds(v, u) => v = w
<1>1. ReqOK(reqs[w]) /\ Priced(reqs[w]) /\ DayIsHeldOnce /\ \A u \in Users : UserOK(u)
  BY DEF PaidInv, DayInv
<1>2. PICK b \in Steps, u \in Users : \E a : reqs[w] = Request(b, u, a)
  BY <1>1 DEF ReqOK, Free
<1>3. PICK a : reqs[w] = Request(b, u, a)
  BY <1>2
<1>4. reqs[w].at = b /\ UserOf(w) = u /\ reqs[w].amount = a
  BY <1>3 DEF Request, UserOf
<1>5. b \in {"credit", "undo", "success"} =>
          /\ Holds(w, u) /\ HolderOK(w, u) /\ records[u] = a /\ a # 0
          /\ \A v \in Workers : Holds(v, u) => v = w
  BY <1>1, <1>4 DEF Holds, DayIsHeldOnce, UserOK, Priced
<1>6. QED
  BY <1>3, <1>4, <1>5

(***************************************************************************)
(* Steps of a handler that hold no day before and none after, and the       *)
(* answer to a request that was paid.                                       *)
(***************************************************************************)
LEMMA QuietKeeps ==
  ASSUME PaidInv, DayInv', NEW w \in Workers, NEW q, NEW u \in Users,
         reqs' = [reqs EXCEPT ![w] = q], UNCHANGED <<creditVars, records, warned>>,
         q = Free \/ (q.user = u /\ q.at \notin {"credit", "undo", "success"}),
         reqs[w] # Free => UserOf(w) = u,
         reqs[w].at \notin {"credit", "undo"}
  PROVE  PaidInv'
<1>1. q.at \notin {"credit", "undo", "success"} /\ (q # Free => q.user = u)
  BY DEF Free
<1>2. calls[w] = Credit!Idle
  BY DEF PaidInv, CallsOK, CallFor
<1>3. calls' = [calls EXCEPT ![w] = Credit!Idle]
  BY <1>2 DEF PaidInv, CallsOK, creditVars
<1>4. FrameOK(Credit!Idle) /\ ~Knows(Credit!Idle) /\ CallFor(q, Credit!Idle)
  BY <1>1 DEF FrameOK, Knows, Credit!Idle, CallFor
<1>5. LedgerOK'
  BY DEF PaidInv, LedgerOK, Backfilled, creditVars
<1>6. UserOK(u)'
  <2>1. reqs'[w] = q /\ \A v \in Workers \ {w} : reqs'[v] = reqs[v] /\ calls'[v] = calls[v]
    BY DEF PaidInv, DayInv, creditVars
  <2>2. ~Holds(w, u)'
    BY <1>1, <2>1 DEF Holds
  <2>3. CASE ~Holds(w, u)
    <3>1. \A v \in Workers : Holds(v, u) \/ Holds(v, u)' => reqs'[v] = reqs[v] /\ calls'[v] = calls[v]
      BY <2>1, <2>2, <2>3
    <3>2. QED
      BY <3>1, UserKept DEF creditVars
  <2>4. CASE Holds(w, u)
    <3>1. reqs[w].at = "success" /\ HolderOK(w, u) /\ \A v \in Workers : Holds(v, u) => v = w
      BY <2>4 DEF Holds, PaidInv, UserOK, DayInv, DayIsHeldOnce
    <3>2. u \notin warned => AtRest(u)
      <4>1. records[u] # 0
        BY <2>4, <3>1 DEF PaidInv, DayInv, DayIsHeldOnce, Priced
      <4>2. QED
        BY <3>1, <4>1 DEF HolderOK, AtRest, Asked, Calm, Moved
    <3>3. \A v \in Workers : ~Holds(v, u)'
      BY <2>1, <2>2, <3>1 DEF Holds, UserOf
    <3>4. QED
      BY <3>2, <3>3 DEF UserOK, AtRest, Asked, Calm, creditVars
  <2>5. QED
    BY <2>3, <2>4
<1>7. QED
  BY <1>1, <1>3, <1>4, <1>5, <1>6, HandlerKeeps DEF creditVars

LEMMA QuietSteps ==
  ASSUME PaidInv, DayInv', NEW w \in Workers,
         \/ \E u \in Users : Begin(w, u)
         \/ LookupRecord(w)
         \/ ReadSpent(w)
         \/ CloseCheckin(w)
         \/ InsertRefused(w)
         \/ StatementFails(w)
         \/ ReplySuccess(w)
  PROVE  PaidInv'
<1>1. ASSUME NEW u \in Users, Begin(w, u)
      PROVE  PaidInv'
  <2>1. PICK q : q = Request("lookup", u, 0)
    OBVIOUS
  <2>2. q.user = u /\ q.at \notin {"credit", "undo", "success"}
    BY <2>1 DEF Request
  <2>3. reqs' = [reqs EXCEPT ![w] = q] /\ UNCHANGED <<creditVars, records, warned>>
    BY <1>1, <2>1 DEF Begin
  <2>4. reqs[w] = Free /\ Free.at = "free"
    BY <1>1 DEF Begin, Free
  <2>5. QED
    BY <2>2, <2>3, <2>4, QuietKeeps
<1>2. CASE ~\E u \in Users : Begin(w, u)
  <2>1. /\ UNCHANGED <<creditVars, records, warned>>
        /\ reqs[w].at \in {"lookup", "budget", "close", "insert", "success"}
    BY <1>2 DEF LookupRecord, ReadSpent, CloseCheckin, InsertRefused, StatementFails, ReplySuccess
  <2>2. PICK u \in Users : \E a : reqs[w] = Request(reqs[w].at, u, a) /\ UserOf(w) = u
    BY <2>1, RequestFacts
  <2>3. PICK a : reqs[w] = Request(reqs[w].at, u, a) /\ UserOf(w) = u
    BY <2>2
  <2>4. CASE Reply(w)
    BY <2>1, <2>3, <2>4, QuietKeeps DEF Reply
  <2>5. ASSUME NEW at \in {"budget", "close"}, Goto(w, at)
        PROVE  PaidInv'
    <3>1. reqs' = [reqs EXCEPT ![w] = Request(at, u, a)]
      <4>1. PICK b : b = reqs[w].at
        OBVIOUS
      <4>2. reqs[w] = Request(b, u, a)
        BY <2>3, <4>1
      <4>3. QED
        BY <2>5, <4>2, RequestMoves
    <3>2. Request(at, u, a).user = u /\ Request(at, u, a).at = at
      BY DEF Request
    <3>3. QED
      BY <2>1, <2>3, <3>1, <3>2, QuietKeeps
  <2>6. ASSUME NEW b, reqs' = [reqs EXCEPT ![w] = Request("insert", UserOf(w), b)]
        PROVE  PaidInv'
    <3>1. Request("insert", u, b).user = u /\ Request("insert", u, b).at = "insert"
      BY DEF Request
    <3>2. QED
      BY <2>1, <2>3, <2>6, <3>1, QuietKeeps
  <2>7. QED
    BY <1>2, <2>4, <2>5, <2>6
    DEF LookupRecord, ReadSpent, CloseCheckin, InsertRefused, StatementFails, ReplySuccess
<1>3. QED
  BY <1>1, <1>2

(***************************************************************************)
(* The insert claims the day and begins the payout.                         *)
(***************************************************************************)
LEMMA InsertKeeps ==
  ASSUME PaidInv, DayInv', NEW w \in Workers, InsertRecord(w)
  PROVE  PaidInv'
<1>1. reqs[w].at = "insert"
  BY DEF InsertRecord
<1>2. PICK u \in Users : \E a : reqs[w] = Request("insert", u, a) /\ UserOf(w) = u
  BY <1>1, RequestFacts
<1>3. PICK a : reqs[w] = Request("insert", u, a) /\ UserOf(w) = u
  BY <1>2
<1>4. a # 0 /\ reqs[w].amount = a
  BY <1>3 DEF PaidInv, DayInv, Priced, Request
<1>5. PICK q : q = Request("credit", u, a)
  OBVIOUS
<1>6. q.at = "credit" /\ q.user = u /\ q.amount = a
  BY <1>5 DEF Request
<1>7. reqs' = [reqs EXCEPT ![w] = q]
  <2>1. Goto(w, "credit")
    BY DEF InsertRecord
  <2>2. QED
    BY <1>3, <1>5, <2>1, RequestMoves
<1>8. PICK r : r = [key |-> u, delta |-> a]
  OBVIOUS
<1>9. PICK c : c = Frame("check", r, 1, FALSE)
  OBVIOUS
<1>10. calls' = [calls EXCEPT ![w] = c]
  BY <1>3, <1>4, <1>8, <1>9 DEF InsertRecord, Credit!Call, Frame
<1>11. /\ FrameOK(c) /\ ~Knows(c) /\ CallFor(q, c) /\ c # Credit!Idle
       /\ c.pc = "check"
  <2>1. "check" \in Places
    BY DEF Places, Credit!Running, Credit!Returned
  <2>2. FrameOK(c)
    BY <1>9, <2>1 DEF FrameOK
  <2>3. c.pc = "check" /\ c.hit = FALSE /\ c.req = r
    BY <1>9 DEF Frame
  <2>4. c # Credit!Idle
    BY <2>3 DEF Credit!Idle
  <2>5. QED
    BY <1>6, <1>8, <2>2, <2>3, <2>4 DEF Knows, CallFor
<1>12. /\ records[u] = 0 /\ records' = [records EXCEPT ![u] = a]
       /\ records = [x \in Users |-> records[x]]
  BY <1>3, <1>4 DEF InsertRecord, PaidInv, DayInv
<1>13. records'[u] = a /\ \A x \in Users \ {u} : records'[x] = records[x]
  BY <1>12
<1>14. UNCHANGED <<ledger, applied, net, warned>>
  BY DEF InsertRecord
<1>15. \A e \in ledger : e.status # "failed" => e.key # u
  BY <1>12 DEF PaidInv, LedgerOK
<1>16. LedgerOK'
  BY <1>13, <1>14, <1>15 DEF PaidInv, LedgerOK, Backfilled
<1>17. \A v \in Workers : ~Holds(v, u)
  <2>1. ASSUME NEW v \in Workers, Holds(v, u)
        PROVE  FALSE
    BY <1>12, <2>1 DEF PaidInv, DayInv, DayIsHeldOnce, Priced, Holds
  <2>2. QED
    BY <2>1
<1>18. UserOK(u)'
  <2>1. reqs'[w] = q /\ calls'[w] = c /\ \A v \in Workers \ {w} : reqs'[v] = reqs[v]
    BY <1>7, <1>10 DEF PaidInv, DayInv, CallsOK
  <2>2. Holds(w, u)' /\ \A v \in Workers \ {w} : ~Holds(v, u)'
    BY <1>6, <1>17, <2>1 DEF Holds, UserOf
  <2>3. ~Booked(w)'
    BY <1>6, <1>11, <2>1 DEF Booked
  <2>4. ~Credit!Final(u)'
    BY <1>14, <1>15 DEF Credit!Final
  <2>5. u \notin warned => applied[u] = 0 /\ \A m \in net : m.up # u
    BY <1>12, <1>17 DEF PaidInv, UserOK, Held, AtRest, Calm
  <2>6. HolderOK(w, u)'
    BY <1>6, <1>13, <1>14, <2>1, <2>3, <2>4, <2>5 DEF HolderOK, Asked
  <2>7. QED
    BY <2>2, <2>6 DEF UserOK, Held
<1>19. QED
  BY <1>3, <1>6, <1>7, <1>10, <1>11, <1>13, <1>14, <1>16, <1>18, HandlerKeeps

(***************************************************************************)
(* The payout has ended, and the failed one is undone.                      *)
(***************************************************************************)
LEMMA ReturnKeeps ==
  ASSUME PaidInv, DayInv', NEW w \in Workers, Credited(w) \/ CreditFailed(w)
  PROVE  PaidInv'
<1>1. /\ reqs[w].at = "credit" /\ Credit!Return(w)
      /\ UNCHANGED <<ledger, applied, net, records, warned>>
      /\ \/ calls[w].pc \in {"ok", "skipped"} /\ Goto(w, "success")
         \/ calls[w].pc = "error" /\ Goto(w, "undo")
  BY DEF Credited, CreditFailed
<1>2. PICK u \in Users : \E a :
          /\ reqs[w] = Request("credit", u, a) /\ UserOf(w) = u
          /\ Holds(w, u) /\ HolderOK(w, u) /\ records[u] = a
          /\ \A v \in Workers : Holds(v, u) => v = w
  BY <1>1, RequestFacts
<1>3. PICK a : /\ reqs[w] = Request("credit", u, a) /\ UserOf(w) = u
               /\ Holds(w, u) /\ HolderOK(w, u) /\ records[u] = a
               /\ \A v \in Workers : Holds(v, u) => v = w
  BY <1>2
<1>4. calls[w].pc # "skipped"
  BY DEF PaidInv, CallsOK, FrameOK, Frame, Places, Credit!Idle
<1>5. PICK at : /\ Goto(w, at)
                /\ \/ calls[w].pc = "ok" /\ at = "success"
                   \/ calls[w].pc = "error" /\ at = "undo"
  BY <1>1, <1>4
<1>6. PICK q : q = Request(at, u, a)
  OBVIOUS
<1>7. q.at = at /\ q.user = u
  BY <1>6 DEF Request
<1>8. reqs' = [reqs EXCEPT ![w] = q] /\ calls' = [calls EXCEPT ![w] = Credit!Idle]
  BY <1>1, <1>3, <1>5, <1>6, RequestMoves DEF Credit!Return
<1>9. /\ FrameOK(Credit!Idle) /\ ~Knows(Credit!Idle)
      /\ CallFor(q, Credit!Idle)
  BY <1>5, <1>7 DEF FrameOK, Knows, Credit!Idle, CallFor
<1>10. LedgerOK'
  BY <1>1 DEF PaidInv, LedgerOK, Backfilled
<1>11. UserOK(u)'
  <2>1. reqs'[w] = q /\ \A v \in Workers \ {w} : reqs'[v] = reqs[v]
    BY <1>8 DEF PaidInv, DayInv
  <2>2. Holds(w, u)' /\ \A v \in Workers : Holds(v, u)' => v = w
    BY <1>3, <1>5, <1>7, <2>1 DEF Holds, UserOf
  <2>3. (Booked(w)' <=> at = "success") /\ (Booked(w) <=> at = "success")
    BY <1>1, <1>5, <1>7, <2>1 DEF Booked
  <2>4. at = "success" => Moved(u)
    <3>1. PICK x \in Users : Holds(w, x) /\ calls[w].req = [key |-> x, delta |-> records[x]]
      BY <1>1, CallerHolds DEF PaidInv, CallsOK, CallFor
    <3>2. x = u
      BY <1>3, <3>1 DEF Holds
    <3>3. Knowing(calls[w])
      BY DEF PaidInv, CallsOK
    <3>4. QED
      BY <1>5, <3>1, <3>2, <3>3 DEF Knowing, Knows
  <2>5. /\ Credit!Final(u)' = Credit!Final(u) /\ Backfilled(u)' = Backfilled(u)
        /\ Asked(u, records[u])' = Asked(u, records[u])
    BY <1>1 DEF Credit!Final, Backfilled, Asked
  <2>6. HolderOK(w, u)'
    <3>1. /\ records' = records /\ warned' = warned /\ ledger' = ledger /\ Moved(u)' = Moved(u)
          /\ reqs'[w] = q
      BY <1>1, <2>1 DEF Moved
    <3>2. (~Booked(w) => ~Credit!Final(u)) /\ (Booked(w) => Backfilled(u) \in ledger)
          /\ (u \notin warned => Asked(u, records[u]))
      BY <1>3 DEF HolderOK
    <3>3. (~Booked(w)' => ~Credit!Final(u)') /\ (Booked(w)' => Backfilled(u)' \in ledger')
      BY <2>3, <2>5, <3>1, <3>2
    <3>4. u \notin warned' => Asked(u, records[u])'
      BY <2>5, <3>1, <3>2
    <3>5. u \notin warned' /\ reqs'[w].at = "success" => Moved(u)'
      BY <1>7, <2>4, <3>1
    <3>6. QED
      BY <3>3, <3>4, <3>5 DEF HolderOK
  <2>7. QED
    BY <2>2, <2>6 DEF UserOK, Held
<1>12. QED
  BY <1>1, <1>3, <1>7, <1>8, <1>9, <1>10, <1>11, HandlerKeeps

LEMMA UndoKeeps ==
  ASSUME PaidInv, DayInv', NEW w \in Workers, Undo(w)
  PROVE  PaidInv'
<1>1. reqs[w].at = "undo"
  BY DEF Undo
<1>2. PICK u \in Users : /\ UserOf(w) = u /\ Holds(w, u) /\ HolderOK(w, u)
                         /\ \A v \in Workers : Holds(v, u) => v = w
  BY <1>1, RequestFacts
<1>3. /\ reqs' = [reqs EXCEPT ![w] = Free] /\ UNCHANGED creditVars
      /\ warned' = warned \cup {u}
      /\ records' = [records EXCEPT ![u] = 0] \/ records' = records
  BY <1>2 DEF Undo, Reply
<1>4. calls[w] = Credit!Idle /\ calls = [v \in Workers |-> calls[v]]
  BY <1>1 DEF PaidInv, CallsOK, CallFor
<1>5. calls' = [calls EXCEPT ![w] = Credit!Idle]
  BY <1>3, <1>4 DEF creditVars
<1>6. /\ FrameOK(Credit!Idle) /\ ~Knows(Credit!Idle)
      /\ CallFor(Free, Credit!Idle)
  BY DEF FrameOK, Knows, Credit!Idle, CallFor, Free
<1>7. \A x \in Users \ {u} : records'[x] = records[x]
  BY <1>3 DEF PaidInv, DayInv
<1>8. ~Credit!Final(u)
  BY <1>1, <1>2 DEF HolderOK, Booked
<1>9. LedgerOK'
  <2>1. ASSUME NEW e \in ledger, e.status # "failed"
        PROVE  e.key \in Users \ {u} /\ records[e.key] # 0 /\ e = Backfilled(e.key)
    <3>1. e.key \in Users /\ records[e.key] # 0 /\ e = Backfilled(e.key)
      BY <2>1 DEF PaidInv, LedgerOK
    <3>2. e.status = "success"
      BY <3>1 DEF Backfilled
    <3>3. QED
      BY <1>8, <3>1, <3>2 DEF Credit!Final
  <2>2. QED
    BY <1>3, <1>7, <2>1 DEF LedgerOK, Backfilled, creditVars
<1>10. UserOK(u)'
  <2>1. \A v \in Workers : ~Holds(v, u)'
    BY <1>2, <1>3 DEF Holds, UserOf, Free, PaidInv, DayInv
  <2>2. QED
    BY <1>3, <2>1 DEF UserOK
<1>11. warned \subseteq warned' /\ UNCHANGED <<ledger, applied, net>>
  BY <1>3 DEF creditVars
<1>12. QED
  BY <1>2, <1>3, <1>5, <1>6, <1>7, <1>9, <1>10, <1>11, HandlerKeeps

(***************************************************************************)
(* The process dies; Backfill books records of its own amount.              *)
(***************************************************************************)
LEMMA RestartKeeps ==
  ASSUME PaidInv, DayInv', Restart
  PROVE  PaidInv'
<1>1. /\ reqs' = [w \in Workers |-> Free]
      /\ calls' = [w \in Workers |-> Credit!Idle]
      /\ warned' = warned \cup Interrupted
      /\ UNCHANGED <<applied, net, records>>
  BY DEF Restart
<1>2. PICK done \in SUBSET Unbooked : ledger' = ledger \cup {Backfilled(u) : u \in done}
  BY DEF Restart
<1>3. CallsOK'
  BY <1>1 DEF CallsOK, FrameOK, Knowing, CallFor, Knows, Credit!Idle, Free
<1>4. LedgerOK'
  <2>1. ASSUME NEW e \in ledger', e.status # "failed"
        PROVE  e.key \in Users /\ records[e.key] # 0 /\ e = Backfilled(e.key)
    <3>1. CASE e \in ledger
      BY <2>1, <3>1 DEF PaidInv, LedgerOK
    <3>2. CASE e \notin ledger
      <4>1. PICK u \in done : e = Backfilled(u)
        BY <1>2, <3>2
      <4>2. u \in Users /\ records[u] # 0 /\ e.key = u
        BY <4>1 DEF Unbooked, Backfilled
      <4>3. QED
        BY <4>1, <4>2
    <3>3. QED
      BY <3>1, <3>2
  <2>2. QED
    BY <1>1, <2>1 DEF LedgerOK, Backfilled
<1>5. ASSUME NEW u \in Users
      PROVE  UserOK(u)'
  <2>1. \A w \in Workers : ~Holds(w, u)'
    BY <1>1 DEF Holds, Free
  <2>2. ASSUME u \notin warned'
        PROVE  AtRest(u)'
    <3>1. u \notin warned /\ u \notin Interrupted
      BY <1>1, <2>2
    <3>2. CASE Held(u)
      <4>1. PICK w \in Workers : Holds(w, u)
        BY <3>2 DEF Held
      <4>2. reqs[w].at = "success"
        BY <3>1, <4>1 DEF Interrupted, Holds
      <4>3. HolderOK(w, u)
        BY <4>1 DEF PaidInv, UserOK
      <4>4. records[u] # 0
        BY <4>1, <4>2 DEF PaidInv, DayInv, DayIsHeldOnce, Priced
      <4>5. QED
        BY <1>1, <3>1, <4>2, <4>3, <4>4 DEF HolderOK, AtRest, Asked, Calm, Moved
    <3>3. CASE ~Held(u)
      BY <1>1, <3>1, <3>3 DEF PaidInv, UserOK, AtRest, Asked, Calm
    <3>4. QED
      BY <3>2, <3>3
  <2>3. QED
    BY <2>1, <2>2 DEF UserOK
<1>6. QED
  BY <1>1, <1>3, <1>4, <1>5 DEF PaidInv

(***************************************************************************)
(* Every step keeps records, ledger and money in line.                      *)
(***************************************************************************)
LEMMA PaidNext == ASSUME PaidInv, [Next]_vars PROVE PaidInv'
<1>1. DayInv'
  BY DayStep DEF PaidInv
<1>2. ASSUME UNCHANGED <<creditVars, records, reqs, warned>>
      PROVE  PaidInv'
  <2>1. /\ ledger' = ledger /\ applied' = applied /\ net' = net /\ calls' = calls
        /\ records' = records /\ reqs' = reqs /\ warned' = warned
    BY <1>2 DEF creditVars
  <2>2. ASSUME NEW u \in Users
        PROVE  UserOK(u)'
    BY <2>1, UserKept
  <2>3. LedgerOK' /\ CallsOK'
    BY <2>1 DEF PaidInv, LedgerOK, Backfilled, CallsOK, Knowing, Moved
  <2>4. QED
    BY <1>1, <2>1, <2>2, <2>3 DEF PaidInv
<1>3. CASE UNCHANGED vars \/ Reopen
  BY <1>2, <1>3 DEF vars, Reopen, creditVars
<1>4. QED
  BY <1>1, <1>3, QuietSteps, InsertKeeps, ReturnKeeps, UndoKeeps, PayoutKeeps, UpstreamKeeps,
     RestartKeeps DEF Next, Step

LEMMA PaidStays == Spec => []PaidInv
<1>1. PaidInv /\ [Next]_vars => PaidInv'
  BY PaidNext
<1>2. QED
  BY <1>1, PaidInit, PTL DEF Spec

(***************************************************************************)
(* Who is told of success has been paid the amount shown, for any number of *)
(* workers and users, any rewards and any budget, through lost replies,     *)
(* retries, deleted records and restarts; a user whose number reads like an *)
(* idempotency hit may have been paid nothing.                              *)
(***************************************************************************)
THEOREM SuccessesArePaid == Spec => []SuccessIsPaid
<1>1. PaidInv => SuccessIsPaid
  <2> SUFFICES ASSUME PaidInv, NEW w \in Workers, reqs[w].at = "success"
               PROVE  /\ [key |-> UserOf(w), delta |-> reqs[w].amount, status |-> "success"] \in ledger
                      /\ PaidTo(UserOf(w), reqs[w].amount) \/ UserOf(w) \in warned
    BY DEF SuccessIsPaid
  <2>1. PICK u \in Users : \E a : /\ reqs[w] = Request("success", u, a) /\ UserOf(w) = u
                                  /\ HolderOK(w, u) /\ records[u] = a
    BY RequestFacts
  <2>2. PICK a : /\ reqs[w] = Request("success", u, a) /\ UserOf(w) = u
                 /\ HolderOK(w, u) /\ records[u] = a
    BY <2>1
  <2>3. reqs[w].amount = a
    BY <2>2 DEF Request
  <2>4. QED
    BY <2>2, <2>3 DEF HolderOK, Booked, Backfilled, Asked, Moved, PaidTo
<1>2. QED
  BY <1>1, PaidStays, PTL

(***************************************************************************)
(* A record that nobody is working on, of a user who never saw a failure,   *)
(* is paid in full, or not at all if the user's number reads like an        *)
(* idempotency hit, and there is no money without a record.                 *)
(***************************************************************************)
THEOREM RecordsMatchMoney == Spec => []RecordsArePaid
<1>1. PaidInv => RecordsArePaid
  BY DEF PaidInv, UserOK, RecordsArePaid, PaidTo, AtRest, Asked
<1>2. QED
  BY <1>1, PaidStays, PTL

-----------------------------------------------------------------------------
(***************************************************************************)
(* The budget of the day.  What was read and is still to be inserted counts *)
(* as well: when a worker reads, its own amount fits, and each of the       *)
(* others has at most one that did not know of it; an insert only moves an  *)
(* amount from the one to the other.                                        *)
(***************************************************************************)
LEMMA FiniteAgrees == \A S : IsFiniteSet(S) <=> P!IsFiniteSet(S)
  BY DEF IsFiniteSet, P!IsFiniteSet

LEMMA SumAgrees == \A f, S : SumFunctionOnSet(f, S) = P!SumFunctionOnSet(f, S)
  BY DEF SumFunctionOnSet, FoldFunctionOnSet, MapThenFoldSet,
     P!SumFunctionOnSet, P!FoldFunctionOnSet, P!MapThenFoldSet

LEMMA CardinalityAgrees == \A S : Cardinality(S) = P!Cardinality(S)
  BY DEF Cardinality, P!Cardinality

LEMMA SumOfInts ==
  ASSUME NEW f, NEW S, IsFiniteSet(S), \A x \in S : f[x] \in Int
  PROVE  SumFunctionOnSet(f, S) \in Int
  BY FiniteAgrees, SumAgrees, P!SumInt

LEMMA SumOfZeros ==
  ASSUME NEW f, NEW S, IsFiniteSet(S), \A x \in S : f[x] = 0
  PROVE  SumFunctionOnSet(f, S) = 0
  BY FiniteAgrees, SumAgrees, P!SumOfNothing

LEMMA SumChanges ==
  ASSUME NEW f, NEW g, NEW S, IsFiniteSet(S), NEW y \in S,
         \A x \in S : f[x] \in Int /\ g[x] \in Int,
         \A x \in S \ {y} : f[x] = g[x]
  PROVE  SumFunctionOnSet(g, S) = SumFunctionOnSet(f, S) - f[y] + g[y]
  BY FiniteAgrees, SumAgrees, P!SumUpdate

LEMMA SumBeside ==
  ASSUME NEW f, NEW S, IsFiniteSet(S), NEW y \in S, NEW m \in Int,
         \A x \in S : f[x] \in Int /\ f[x] <= m
  PROVE  SumFunctionOnSet(f, S) <= f[y] + (Cardinality(S) - 1) * m
<1>1. IsFiniteSet(S \ {y}) /\ Cardinality(S \ {y}) = Cardinality(S) - 1
  BY FS_RemoveElement
<1>2. SumFunctionOnSet(f, S) = f[y] + SumFunctionOnSet(f, S \ {y})
  BY FiniteAgrees, SumAgrees, P!SumAny
<1>3. SumFunctionOnSet(f, S \ {y}) <= Cardinality(S \ {y}) * m
  BY <1>1, FiniteAgrees, SumAgrees, CardinalityAgrees, P!SumLimit
<1>4. SumFunctionOnSet(f, S \ {y}) \in Int
  BY <1>1, SumOfInts
<1>5. Cardinality(S) - 1 \in Int
  BY FS_CardinalityType
<1>6. PICK t : t = (Cardinality(S) - 1) * m /\ t \in Int
  BY <1>5
<1>7. QED
  BY <1>1, <1>2, <1>3, <1>4, <1>6

(***************************************************************************)
(* There is a largest payment, and with a budget it is at most the budget.  *)
(***************************************************************************)
LEMMA Largest ==
  ASSUME NEW n \in Nat, NEW S \in SUBSET (0..n), S # {}
  PROVE  Max(S) \in S /\ \A y \in S : y <= Max(S)
<1> DEFINE good == {m \in Nat : \A T \in SUBSET (0..m) : T # {} => \E x \in T : \A y \in T : x >= y}
<1>1. 0 \in good
  <2>1. ASSUME NEW T \in SUBSET (0..0), T # {}
        PROVE  \E x \in T : \A y \in T : x >= y
    <3>1. PICK x : x \in T
      BY <2>1
    <3>2. \A y \in T : y = 0
      OBVIOUS
    <3>3. QED
      BY <3>1, <3>2
  <2>2. QED
    BY <2>1
<1>2. ASSUME NEW m \in Nat, m \in good
      PROVE  m + 1 \in good
  <2> SUFFICES ASSUME NEW T \in SUBSET (0..(m + 1)), T # {}
               PROVE  \E x \in T : \A y \in T : x >= y
    OBVIOUS
  <2>1. CASE m + 1 \in T
    BY <2>1
  <2>2. CASE m + 1 \notin T
    <3>1. T \in SUBSET (0..m)
      BY <2>2
    <3>2. QED
      BY <1>2, <3>1
  <2>3. QED
    BY <2>1, <2>2
<1>3. n \in good
  <2> HIDE DEF good
  <2>1. good \subseteq Nat
    BY DEF good
  <2>2. QED
    BY <1>1, <1>2, <2>1, P!InductionOverNat
<1>4. \E x \in S : \A y \in S : x >= y
  BY <1>3
<1>5. Max(S) \in S /\ \A y \in S : Max(S) >= y
  BY <1>4 DEF Max
<1>6. QED
  BY <1>5

LEMMA ClipFits ==
  ASSUME DailyBudget > 0, NEW r \in Rewards, NEW s \in Int, s >= 0
  PROVE  Clip(r, s) \in 0..DailyBudget /\ (Clip(r, s) # 0 => s + Clip(r, s) <= DailyBudget)
<1>1. r \in Nat /\ r > 0 /\ HardCap \in Nat /\ DailyBudget \in Nat
  BY CheckinAssumption
<1>2. Capped(r) \in Nat
  BY <1>1 DEF Capped
<1>3. QED
  BY <1>1, <1>2 DEF Clip

LEMMA LargestAmount ==
  ASSUME DailyBudget > 0
  PROVE  Max(Amounts) \in 1..DailyBudget /\ \A a \in Amounts : a <= Max(Amounts)
<1>1. DailyBudget \in Nat
  BY CheckinAssumption
<1>2. Amounts \in SUBSET (0..DailyBudget) /\ 0 \notin Amounts
  BY <1>1, ClipFits DEF Amounts
<1>3. Amounts # {}
  <2>1. PICK r \in Rewards : r \in Nat /\ r > 0
    <3>1. PICK r : r \in Rewards
      BY CheckinAssumption
    <3>2. r \in Nat /\ r # 0
      BY <3>1, CheckinAssumption
    <3>3. QED
      BY <3>1, <3>2
  <2>2. Clip(r, 0) # 0
    BY <1>1, <2>1, CheckinAssumption DEF Clip, Capped
  <2>3. 0 \in 0..DailyBudget
    BY <1>1
  <2>4. Clip(r, 0) \in Amounts
    BY <2>2, <2>3 DEF Amounts
  <2>5. QED
    BY <2>4
<1>4. Max(Amounts) \in Amounts /\ \A y \in Amounts : y <= Max(Amounts)
  BY <1>1, <1>2, <1>3, Largest
<1>5. PICK m : m = Max(Amounts)
  OBVIOUS
<1>6. m \in 0..DailyBudget /\ m # 0
  BY <1>2, <1>4, <1>5
<1>7. m \in 1..DailyBudget
  BY <1>1, <1>6
<1>8. QED
  BY <1>4, <1>5, <1>7

\* What a request is about to insert.
Weight(q) == IF q.at = "insert" THEN q.amount ELSE 0
Weights == [w \in Workers |-> Weight(reqs[w])]
Spent == SumFunctionOnSet(records, Users)
Underway == SumFunctionOnSet(Weights, Workers)
Slack == (Cardinality(Workers) - 1) * Max(Amounts)

BudgetInv ==
    /\ DayInv
    /\ \A u \in Users : records[u] \in Nat
    /\ \A w \in Workers : Weight(reqs[w]) \in 0..Max(Amounts)
    /\ Spent + Underway <= DailyBudget + Slack

LEMMA BudgetTypes ==
  ASSUME BudgetInv, DailyBudget > 0
  PROVE  /\ DailyBudget \in Nat /\ Max(Amounts) \in Nat /\ Slack \in Int
         /\ Spent \in Int /\ Underway \in Int
         /\ \A w \in Workers : Weight(reqs[w]) \in Int /\ Weight(reqs[w]) <= Max(Amounts)
<1>1. DailyBudget \in Nat /\ IsFiniteSet(Workers) /\ IsFiniteSet(Users)
  BY CheckinAssumption
<1>2. PICK m : m = Max(Amounts) /\ m \in Nat
  BY <1>1, LargestAmount
<1>3. PICK n \in Int : n = Cardinality(Workers) - 1
  BY <1>1, FS_CardinalityType
<1>4. Slack \in Int
  BY <1>2, <1>3 DEF Slack
<1>5. \A w \in Workers : Weight(reqs[w]) \in Int /\ Weight(reqs[w]) <= m
  BY <1>2 DEF BudgetInv
<1>6. Spent \in Int
  BY <1>1, SumOfInts DEF BudgetInv, Spent
<1>7. \A w \in Workers : Weights[w] \in Int
  BY <1>5 DEF Weights
<1>8. Underway \in Int
  BY <1>1, <1>7, SumOfInts DEF Underway
<1>9. QED
  BY <1>1, <1>2, <1>4, <1>5, <1>6, <1>8

LEMMA BudgetInit == ASSUME Init, DailyBudget > 0 PROVE BudgetInv
<1>1. DailyBudget \in Nat /\ IsFiniteSet(Workers) /\ IsFiniteSet(Users)
  BY CheckinAssumption
<1>2. PICK m : m = Max(Amounts) /\ m \in 1..DailyBudget
  BY LargestAmount
<1>3. \A w \in Workers : reqs[w] = Free /\ Weight(reqs[w]) = 0 /\ Weights[w] = 0
  BY DEF Init, Weight, Weights, Free
<1>4. \A u \in Users : records[u] = 0
  BY DEF Init
<1>5. Spent = 0 /\ Underway = 0
  BY <1>1, <1>3, <1>4, SumOfZeros DEF Spent, Underway
<1>6. PICK n : n = Cardinality(Workers) /\ n \in Nat
  BY <1>1, FS_CardinalityType
<1>7. 0 <= DailyBudget + (n - 1) * m
  <2>1. CASE n = 0
    BY <1>1, <1>2, <2>1
  <2>2. CASE n > 0
    <3>1. PICK k \in Nat : k = n - 1
      BY <1>6, <2>2
    <3>2. k * m \in Nat
      BY <1>1, <1>2, <3>1
    <3>3. QED
      BY <1>1, <3>1, <3>2
  <2>3. QED
    BY <1>6, <2>1, <2>2
<1>8. Spent + Underway <= DailyBudget + Slack
  BY <1>2, <1>5, <1>6, <1>7 DEF Slack
<1>9. QED
  BY <1>1, <1>2, <1>3, <1>4, <1>8, DayInit DEF BudgetInv

(***************************************************************************)
(* A step of one request keeps within the limit if what it adds to the      *)
(* records it takes from what it was about to insert.                       *)
(***************************************************************************)
LEMMA BudgetMoves ==
  ASSUME BudgetInv, DailyBudget > 0, DayInv', NEW w \in Workers, NEW q,
         reqs' = [reqs EXCEPT ![w] = q],
         \A u \in Users : records'[u] \in Nat,
         Weight(q) \in 0..Max(Amounts),
         Spent' + Weight(q) <= Spent + Weight(reqs[w])
  PROVE  BudgetInv'
<1>1. \A v \in Workers : reqs'[v] = IF v = w THEN q ELSE reqs[v]
  BY DEF BudgetInv, DayInv
<1>2. IsFiniteSet(Workers) /\ IsFiniteSet(Users)
  BY CheckinAssumption
<1>3. PICK ws : ws = Weights'
  OBVIOUS
<1>4. ws = [v \in Workers |-> Weight(reqs'[v])]
  BY <1>3 DEF Weights, Weight
<1>5. /\ ws[w] = Weight(q) /\ Weights[w] = Weight(reqs[w])
      /\ \A v \in Workers \ {w} : ws[v] = Weights[v]
  BY <1>1, <1>4 DEF Weights
<1>6. \A v \in Workers : Weights[v] \in Int /\ ws[v] \in Int
  <2>1. Weight(q) \in Int
    BY LargestAmount, CheckinAssumption
  <2>2. \A v \in Workers : Weights[v] \in Int
    BY BudgetTypes DEF Weights
  <2>3. QED
    BY <1>5, <2>1, <2>2
<1>7. Underway' = Underway - Weight(reqs[w]) + Weight(q)
  <2>1. SumFunctionOnSet(ws, Workers) = SumFunctionOnSet(Weights, Workers) - Weights[w] + ws[w]
    BY <1>2, <1>5, <1>6, SumChanges
  <2>2. QED
    BY <1>3, <1>5, <2>1 DEF Underway
<1>8. Spent' \in Int
  <2>1. PICK rs : rs = records'
    OBVIOUS
  <2>2. SumFunctionOnSet(rs, Users) \in Int
    BY <1>2, <2>1, SumOfInts
  <2>3. QED
    BY <2>1, <2>2 DEF Spent
<1>9. Spent' + Underway' <= DailyBudget + Slack
  <2>1. /\ DailyBudget \in Int /\ Slack \in Int /\ Spent \in Int /\ Underway \in Int
        /\ Weight(reqs[w]) \in Int /\ Weight(q) \in Int
    BY <1>5, <1>6, BudgetTypes
  <2>2. Spent + Underway <= DailyBudget + Slack
    BY DEF BudgetInv
  <2>3. QED
    BY <1>7, <1>8, <2>1, <2>2
<1>10. \A v \in Workers : Weight(reqs'[v]) \in 0..Max(Amounts)
  BY <1>1 DEF BudgetInv
<1>11. QED
  BY <1>9, <1>10 DEF BudgetInv, Slack, Weight

LEMMA BudgetQuiet ==
  ASSUME BudgetInv, DailyBudget > 0, DayInv', NEW w \in Workers, NEW q,
         reqs' = [reqs EXCEPT ![w] = q], records' = records, q.at # "insert"
  PROVE  BudgetInv'
<1>1. Weight(q) = 0
  BY DEF Weight
<1>2. Spent' = Spent
  BY DEF Spent
<1>3. PICK m : m = Max(Amounts) /\ m \in Nat
  BY LargestAmount, CheckinAssumption
<1>4. PICK k : k = Weight(reqs[w]) /\ k \in 0..m
  BY <1>3 DEF BudgetInv
<1>5. Spent \in Int
  BY BudgetTypes
<1>6. Spent' + Weight(q) <= Spent + Weight(reqs[w])
  BY <1>1, <1>2, <1>3, <1>4, <1>5
<1>7. Weight(q) \in 0..Max(Amounts) /\ \A u \in Users : records'[u] \in Nat
  BY <1>1, <1>3 DEF BudgetInv
<1>8. QED
  BY <1>6, <1>7, BudgetMoves

\* The row of one user changes: so much the sum changes.
LEMMA SpentChanges ==
  ASSUME \A u \in Users : records[u] \in Nat, DayInv, NEW u \in Users, NEW a \in Nat,
         records' = [records EXCEPT ![u] = a]
  PROVE  /\ Spent' = Spent - records[u] + a
         /\ \A x \in Users : records'[x] \in Nat
<1>1. PICK rs : rs = records' /\ rs = [records EXCEPT ![u] = a]
  OBVIOUS
<1>2. rs[u] = a /\ \A x \in Users \ {u} : rs[x] = records[x]
  BY <1>1 DEF DayInv
<1>3. SumFunctionOnSet(rs, Users) = SumFunctionOnSet(records, Users) - records[u] + rs[u]
  <2>1. \A x \in Users : records[x] \in Int /\ rs[x] \in Int
    BY <1>2
  <2>2. QED
    BY <1>2, <2>1, SumChanges, CheckinAssumption
<1>4. QED
  BY <1>1, <1>2, <1>3 DEF Spent

LEMMA BudgetInsert ==
  ASSUME BudgetInv, DailyBudget > 0, DayInv', NEW w \in Workers, InsertRecord(w)
  PROVE  BudgetInv'
<1>1. reqs[w].at = "insert" /\ reqs[w] # Free
  BY DEF InsertRecord, Free
<1>2. PICK b \in Steps, u \in Users : \E a : reqs[w] = Request(b, u, a)
  BY <1>1 DEF BudgetInv, DayInv, ReqOK
<1>3. PICK a : reqs[w] = Request(b, u, a)
  BY <1>2
<1>4. UserOf(w) = u /\ reqs[w].amount = a /\ Weight(reqs[w]) = a
  BY <1>1, <1>3 DEF Request, UserOf, Weight
<1>5. PICK m : m = Max(Amounts) /\ m \in Nat
  BY LargestAmount, CheckinAssumption
<1>6. a \in Nat
  BY <1>4, <1>5 DEF BudgetInv
<1>7. PICK q : q = Request("credit", u, a)
  OBVIOUS
<1>8. reqs' = [reqs EXCEPT ![w] = q]
  <2>1. Goto(w, "credit")
    BY DEF InsertRecord
  <2>2. QED
    BY <1>3, <1>7, <2>1, RequestMoves
<1>9. Weight(q) = 0
  BY <1>7 DEF Weight, Request
<1>10. records[u] = 0 /\ records' = [records EXCEPT ![u] = a]
  BY <1>4 DEF InsertRecord
<1>11. Spent' = Spent - records[u] + a /\ \A x \in Users : records'[x] \in Nat
  BY <1>6, <1>10, SpentChanges DEF BudgetInv
<1>12. Spent' + Weight(q) <= Spent + Weight(reqs[w])
  <2>1. Spent \in Int
    BY BudgetTypes
  <2>2. QED
    BY <1>4, <1>6, <1>9, <1>10, <1>11, <2>1
<1>13. QED
  <2>1. Weight(q) \in 0..Max(Amounts)
    BY <1>5, <1>9
  <2>2. QED
    BY <1>8, <1>11, <1>12, <2>1, BudgetMoves

LEMMA BudgetUndo ==
  ASSUME BudgetInv, DailyBudget > 0, DayInv', NEW w \in Workers, Undo(w)
  PROVE  BudgetInv'
<1>1. reqs' = [reqs EXCEPT ![w] = Free] /\ Free.at # "insert" /\ Weight(Free) = 0
  BY DEF Undo, Reply, Free, Weight
<1>2. CASE records' = records
  BY <1>1, <1>2, BudgetQuiet
<1>3. CASE records' # records
  <2>1. reqs[w].at = "undo" /\ reqs[w] # Free /\ records' = [records EXCEPT ![UserOf(w)] = 0]
    BY <1>3 DEF Undo, Free
  <2>2. PICK b \in Steps, u \in Users : \E a : reqs[w] = Request(b, u, a)
    BY <2>1 DEF BudgetInv, DayInv, ReqOK
  <2>3. UserOf(w) = u /\ Weight(reqs[w]) = 0
    BY <2>1, <2>2 DEF Request, UserOf, Weight
  <2>4. records' = [records EXCEPT ![u] = 0]
    BY <2>1, <2>3
  <2>5. Spent' = Spent - records[u] + 0 /\ \A x \in Users : records'[x] \in Nat
    BY <2>4, SpentChanges DEF BudgetInv
  <2>6. Spent' + Weight(Free) <= Spent + Weight(reqs[w])
    <3>1. Spent \in Int /\ records[u] \in Nat
      BY BudgetTypes DEF BudgetInv
    <3>2. QED
      BY <1>1, <2>3, <2>5, <3>1
  <2>7. Weight(Free) \in 0..Max(Amounts)
    BY <1>1, LargestAmount, CheckinAssumption
  <2>8. QED
    BY <1>1, <2>5, <2>6, <2>7, BudgetMoves
<1>4. QED
  BY <1>2, <1>3

(***************************************************************************)
(* The sum is read: what is about to be inserted fits, and each of the      *)
(* other requests is about to insert one payment at most.                   *)
(***************************************************************************)
LEMMA BudgetRead ==
  ASSUME BudgetInv, DailyBudget > 0, DayInv', NEW w \in Workers, NEW u, NEW r \in Rewards,
         NEW a, a = Clip(r, Spent), a # 0,
         reqs' = [reqs EXCEPT ![w] = Request("insert", u, a)], records' = records
  PROVE  BudgetInv'
<1>1. PICK q : q = Request("insert", u, a)
  OBVIOUS
<1>2. Weight(q) = a
  BY <1>1 DEF Weight, Request
<1>3. \A v \in Workers : reqs'[v] = IF v = w THEN q ELSE reqs[v]
  BY <1>1 DEF BudgetInv, DayInv
<1>4. IsFiniteSet(Workers) /\ IsFiniteSet(Users) /\ DailyBudget \in Nat
  BY CheckinAssumption
<1>5. Spent \in Int /\ Spent' = Spent /\ Spent >= 0
  <2>1. SumFunctionOnSet(records, Users) \in Nat
    BY <1>4, FiniteAgrees, SumAgrees, P!SumNat DEF BudgetInv
  <2>2. QED
    BY <2>1 DEF Spent
<1>6. a \in 0..DailyBudget /\ Spent + a <= DailyBudget
  BY <1>5, ClipFits
<1>7. PICK m : m = Max(Amounts) /\ m \in Nat
  BY LargestAmount, CheckinAssumption
<1>8. a <= m
  <2>1. Spent \in 0..DailyBudget
    BY <1>4, <1>5, <1>6
  <2>2. a \in Amounts
    BY <2>1 DEF Amounts
  <2>3. QED
    BY <1>7, <2>2, LargestAmount
<1>9. PICK ws : ws = Weights'
  OBVIOUS
<1>10. ws = [v \in Workers |-> Weight(reqs'[v])]
  BY <1>9 DEF Weights, Weight
<1>11. ws[w] = a /\ \A v \in Workers : ws[v] \in Int /\ ws[v] <= m
  <2>1. a \in Int
    BY <1>6
  <2>2. QED
    BY <1>2, <1>3, <1>7, <1>8, <1>10, <2>1, BudgetTypes
<1>12. Underway' <= a + Slack
  <2>1. SumFunctionOnSet(ws, Workers) <= ws[w] + (Cardinality(Workers) - 1) * m
    BY <1>4, <1>7, <1>11, SumBeside
  <2>2. QED
    BY <1>7, <1>9, <1>11, <2>1 DEF Underway, Slack
<1>13. Spent' + Underway' <= DailyBudget + Slack
  <2>1. Underway' \in Int
    <3>1. SumFunctionOnSet(ws, Workers) \in Int
      BY <1>4, <1>11, SumOfInts
    <3>2. QED
      BY <1>9, <3>1 DEF Underway
  <2>2. Slack \in Int
    BY BudgetTypes
  <2>3. PICK x, y, z : x = Spent' /\ y = Underway' /\ z = Slack
    OBVIOUS
  <2>4. x \in Int /\ y \in Int /\ z \in Int /\ a \in Int /\ x + a <= DailyBudget /\ y <= a + z
    BY <1>4, <1>5, <1>6, <1>12, <2>1, <2>2, <2>3
  <2>5. x + y <= DailyBudget + z
    BY <1>4, <2>4
  <2>6. QED
    BY <2>3, <2>5
<1>14. \A v \in Workers : Weight(reqs'[v]) \in 0..Max(Amounts)
  BY <1>2, <1>3, <1>6, <1>7, <1>8 DEF BudgetInv
<1>15. QED
  BY <1>13, <1>14 DEF BudgetInv, Slack, Weight

LEMMA UnderwayCounts ==
  ASSUME BudgetInv, DailyBudget > 0
  PROVE  0 <= Underway
<1>1. PICK m : m = Max(Amounts) /\ m \in Nat
  BY LargestAmount, CheckinAssumption
<1>2. \A w \in Workers : Weights[w] \in Nat
  BY <1>1 DEF BudgetInv, Weights
<1>3. SumFunctionOnSet(Weights, Workers) \in Nat
  BY <1>2, FiniteAgrees, SumAgrees, P!SumNat, CheckinAssumption
<1>4. QED
  BY <1>3 DEF Underway

LEMMA BudgetRestart ==
  ASSUME BudgetInv, DailyBudget > 0, DayInv', Restart
  PROVE  BudgetInv'
<1>1. reqs' = [w \in Workers |-> Free] /\ records' = records
  BY DEF Restart
<1>2. PICK ws : ws = Weights'
  OBVIOUS
<1>3. ws = [w \in Workers |-> Weight(reqs'[w])]
  BY <1>2 DEF Weights, Weight
<1>4. \A w \in Workers : ws[w] = 0 /\ Weight(reqs'[w]) = 0
  BY <1>1, <1>3 DEF Weight, Free
<1>5. Underway' = 0 /\ Spent' = Spent
  BY <1>1, <1>2, <1>4, SumOfZeros, CheckinAssumption DEF Underway, Spent
<1>6. 0 <= Underway
  BY UnderwayCounts
<1>7. Spent' + Underway' <= DailyBudget + Slack
  BY <1>5, <1>6, BudgetTypes DEF BudgetInv
<1>8. \A w \in Workers : Weight(reqs'[w]) \in 0..Max(Amounts)
  BY <1>4, LargestAmount, CheckinAssumption
<1>9. QED
  BY <1>1, <1>7, <1>8 DEF BudgetInv, Slack, Weight

LEMMA BudgetStep ==
  ASSUME BudgetInv, DailyBudget > 0, [Next]_vars
  PROVE  BudgetInv'
<1>0. DayInv'
  BY DayStep DEF BudgetInv
<1>1. ASSUME UNCHANGED <<reqs, records>> PROVE BudgetInv'
  BY <1>0, <1>1 DEF BudgetInv, Spent, Underway, Weights, Slack, Weight
<1>2. ASSUME NEW w \in Workers, Reply(w), records' = records PROVE BudgetInv'
  <2>1. PICK q : q = Free
    OBVIOUS
  <2>2. q.at # "insert"
    BY <2>1 DEF Free
  <2>3. reqs' = [reqs EXCEPT ![w] = q]
    BY <1>2, <2>1 DEF Reply
  <2>4. QED
    BY <1>0, <1>2, <2>2, <2>3, BudgetQuiet
<1>3. ASSUME NEW w \in Workers, NEW p \in Steps \ {"insert"}, Goto(w, p), records' = records,
             reqs[w].at \in Steps
      PROVE  BudgetInv'
  <2>1. PICK b \in Steps, u \in Users : \E a : reqs[w] = Request(b, u, a)
    BY <1>3 DEF BudgetInv, DayInv, ReqOK, Free, Steps
  <2>2. PICK a : reqs[w] = Request(b, u, a)
    BY <2>1
  <2>3. PICK q : q = Request(p, u, a)
    OBVIOUS
  <2>4. [reqs[w] EXCEPT !.at = p] = q
    BY <2>2, <2>3 DEF Request
  <2>5. reqs' = [reqs EXCEPT ![w] = q]
    BY <1>3, <2>4 DEF Goto
  <2>6. q.at # "insert"
    BY <1>3, <2>3 DEF Request
  <2>7. QED
    BY <1>0, <1>3, <2>5, <2>6, BudgetQuiet
<1>4. ASSUME NEW w \in Workers, NEW u \in Users, Begin(w, u) PROVE BudgetInv'
  <2>1. PICK q : q = Request("lookup", u, 0)
    OBVIOUS
  <2>2. q.at # "insert"
    BY <2>1 DEF Request
  <2>3. reqs' = [reqs EXCEPT ![w] = q] /\ records' = records
    BY <1>4, <2>1 DEF Begin
  <2>4. QED
    BY <1>0, <2>2, <2>3, BudgetQuiet
<1>5. ASSUME NEW w \in Workers, LookupRecord(w) PROVE BudgetInv'
  BY <1>2, <1>3, <1>5 DEF LookupRecord, Steps
<1>6. ASSUME NEW w \in Workers, ReadSpent(w) PROVE BudgetInv'
  <2>1. SumFunction(records) = Spent
    <3>1. DOMAIN records = Users
      BY DEF BudgetInv, DayInv
    <3>2. QED
      BY <3>1 DEF SumFunction, Spent
  <2>2. PICK r \in Rewards :
           \/ /\ Clip(r, Spent) # 0
              /\ reqs' = [reqs EXCEPT ![w] = Request("insert", UserOf(w), Clip(r, Spent))]
           \/ Goto(w, "close")
           \/ Reply(w)
    BY <1>6, <2>1 DEF ReadSpent
  <2>3. records' = records /\ reqs[w].at \in Steps
    BY <1>6 DEF ReadSpent, Steps
  <2>4. CASE Goto(w, "close") \/ Reply(w)
    BY <1>2, <1>3, <2>3, <2>4 DEF Steps
  <2>5. CASE /\ Clip(r, Spent) # 0
             /\ reqs' = [reqs EXCEPT ![w] = Request("insert", UserOf(w), Clip(r, Spent))]
    <3>1. PICK a : a = Clip(r, Spent)
      OBVIOUS
    <3>2. PICK u : u = UserOf(w)
      OBVIOUS
    <3>3. QED
      BY <1>0, <2>3, <2>5, <3>1, <3>2, BudgetRead
  <2>6. QED
    BY <2>2, <2>4, <2>5
<1>7. ASSUME NEW w \in Workers, CloseCheckin(w) \/ InsertRefused(w) \/ StatementFails(w) \/ ReplySuccess(w)
      PROVE  BudgetInv'
  BY <1>2, <1>7 DEF CloseCheckin, InsertRefused, StatementFails, ReplySuccess
<1>8. ASSUME NEW w \in Workers, Credited(w) \/ CreditFailed(w) PROVE BudgetInv'
  <2>1. reqs[w].at \in Steps /\ records' = records /\ \E at \in Steps \ {"insert"} : Goto(w, at)
    BY <1>8 DEF Credited, CreditFailed, Steps
  <2>2. QED
    BY <1>3, <2>1
<1>9. CASE Upstream \/ Reopen \/ UNCHANGED vars \/ \E w \in Workers : CreditStep(w)
  BY <1>1, <1>9 DEF Upstream, Reopen, vars, CreditStep
<1>10. QED
  BY <1>0, <1>4, <1>5, <1>6, <1>7, <1>8, <1>9, BudgetInsert, BudgetUndo, BudgetRestart DEF Next, Step

LEMMA BudgetBounds ==
  ASSUME BudgetInv, DailyBudget > 0
  PROVE  OvershootIsBounded
<1>1. 0 <= Underway
  BY UnderwayCounts
<1>2. Spent <= DailyBudget + Slack
  BY <1>1, BudgetTypes DEF BudgetInv
<1>3. DOMAIN records = Users
  BY DEF BudgetInv, DayInv
<1>4. QED
  BY <1>2, <1>3 DEF OvershootIsBounded, SumFunction, Spent, Slack

(***************************************************************************)
(* However many requests read the day's sum at once, what is recorded       *)
(* exceeds the budget by at most one payment for each other worker, for any *)
(* number of workers and users, any rewards, cap and budget.                *)
(***************************************************************************)
THEOREM OvershootStaysBounded == Spec => []OvershootIsBounded
<1>1. CASE DailyBudget > 0
  <2>1. Init => BudgetInv
    BY <1>1, BudgetInit
  <2>2. BudgetInv /\ [Next]_vars => BudgetInv'
    BY <1>1, BudgetStep
  <2>3. BudgetInv => OvershootIsBounded
    BY <1>1, BudgetBounds
  <2>4. QED
    BY <2>1, <2>2, <2>3, PTL DEF Spec
<1>2. CASE ~(DailyBudget > 0)
  <2>1. OvershootIsBounded
    BY <1>2 DEF OvershootIsBounded
  <2>2. QED
    BY <2>1, PTL
<1>3. QED
  BY <1>1, <1>2
====
