--------------------------- MODULE ModuleSettings ---------------------------
(***************************************************************************)
(* What the settings of the modules are: per module the defaults, the       *)
(* normalisation, what is accepted, what an update makes of the settings in  *)
(* force, and what a start reads back.  Spaces and letter case are left out: *)
(* a text that trims to nothing is the empty one.                            *)
(***************************************************************************)
EXTENDS Integers, Sequences, FiniteSets

CONSTANTS
    Unit,           \* one unit of money rounding, in the amounts of the model
    MaxAmount,      \* MaxPrizeAmount of the lottery
    Texts           \* what a field that holds a text can say

ASSUME SettingsAssumption ==
    Unit \in Nat \ {0} /\ MaxAmount \in Nat /\ MaxAmount % Unit = 0 /\ 5 * Unit <= MaxAmount

\* The texts the code itself compares with or writes.
ASSUME TextsAssumption ==
    {"", "6h", "hi", "none", "disable", "delete", "block", "fixed", "random",
     "webhook", "wecom", "telegram", "env", "patrol", "budget", "settings", "info", "warn", "error",
     "09:00", "23:30", "Shanghai", "UTC", "yesterday", "today", "checkin", "ledger",
     "monthly", "no_active_days", "no_usage_days", "active_within_days", "used_within_days",
     "auto", "claim", "percent", "excess", "active_share", "equal", "usage", "mixed",
     "daily_checkin", "daily_lottery", "streak", "weekly_checkin", "weekly_lottery",
     "daily", "weekly", "once", "d", "s", "local", "webdav"} \subseteq Texts

AtMost(x, limit) == IF x > limit THEN limit ELSE x
AtLeast(x, limit) == IF x < limit THEN limit ELSE x
Fallback(x, ok, default) == IF ok THEN x ELSE default

\* Half up, to whole units.
Money(x) == Unit * ((2 * x + Unit) \div (2 * Unit))

\* The fields an input names replace those in force.
Overlay(cur, in) == [f \in DOMAIN cur |-> IF f \in DOMAIN in THEN in[f] ELSE cur[f]]

\* A start puts what it can read over its defaults; an empty text counts as none,
\* except in the fields that may be emptied.
Reloaded(d, kv, texts) ==
    Overlay(d, [f \in {g \in DOMAIN kv : g \in texts => kv[g] # ""} |-> kv[f]])

\* What a request names has the types of the handlers' structures.
WellTyped(in, types) == \A f \in DOMAIN in \cap DOMAIN types : in[f] \in types[f]

Accepted(s) == [ok |-> TRUE, next |-> s, kv |-> s]
Refused(cur) == [ok |-> FALSE, next |-> cur, kv |-> cur]

-----------------------------------------------------------------------------
(* Account patrol.                                                         *)
PatrolDefaults ==
    [enabled |-> FALSE, cron |-> "6h", model |-> "", concurrency |-> 8, timeout |-> 45,
     action |-> "disable", prompt |-> "hi", keep |-> 50, threshold |-> 1]

PatrolFields ==
    [enabled |-> BOOLEAN, cron |-> Texts, model |-> Texts, concurrency |-> Int, timeout |-> Int,
     action |-> Texts, prompt |-> Texts, keep |-> Int, threshold |-> Int]

PatrolActions == {"none", "disable", "delete"}

PatrolNormal(s) ==
    [s EXCEPT
        !.cron = Fallback(@, @ # "", "6h"),
        !.concurrency = Fallback(AtMost(@, 50), @ > 0, 8),
        !.timeout = Fallback(@, @ >= 1, 45),
        !.action = Fallback(@, @ \in PatrolActions, "disable"),
        !.prompt = Fallback(@, @ # "", "hi"),
        !.keep = Fallback(@, @ > 0, 50),
        !.threshold = Fallback(AtMost(@, 10), @ > 0, 1)]

PatrolValid(s) ==
    /\ s.cron # "bad"
    /\ s.action \in PatrolActions
    /\ s.concurrency \in 1..50
    /\ s.timeout >= 1
    /\ s.threshold \in 1..10

PatrolUpdate(cur, in) ==
    LET next == PatrolNormal(Overlay(cur, in))
    IN IF PatrolValid(next) THEN Accepted(next) ELSE Refused(cur)

PatrolReload(kv) == PatrolNormal(Reloaded(PatrolDefaults, kv, {"cron", "action", "prompt"}))

-----------------------------------------------------------------------------
(* Notification centre.                                                    *)
NotifyDefaults ==
    [enabled |-> FALSE, channel |-> "webhook", target |-> "", extra |-> "",
     secret |-> "env", events |-> {"patrol", "budget"}, level |-> "warn"]

NotifyFields ==
    [enabled |-> BOOLEAN, channel |-> Texts, target |-> Texts, extra |-> Texts, secret |-> Texts,
     events |-> SUBSET Texts, level |-> Texts]

Events == {"patrol", "budget", "settings"}

NotifyNormal(s) ==
    [s EXCEPT
        !.channel = Fallback(@, @ \in {"webhook", "wecom", "telegram"}, "webhook"),
        !.level = Fallback(@, @ \in {"info", "warn", "error"}, "warn"),
        !.events = Fallback(@ \cap Events, @ \cap Events # {}, Events)]

\* Only when it is on: a configuration may be staged before.
NotifyValid(s) ==
    s.enabled => s.target # "" /\ (s.channel = "telegram" => s.extra # "")

\* An empty secret is none; to clear it takes a field of its own.
SecretOf(cur, in) ==
    IF "clear" \in DOMAIN in THEN ""
    ELSE IF "secret" \in DOMAIN in /\ in.secret # "" THEN in.secret ELSE cur.secret

NotifyUpdate(cur, in) ==
    LET next == NotifyNormal([Overlay(cur, in) EXCEPT !.secret = SecretOf(cur, in)])
    IN IF NotifyValid(next) THEN Accepted(next) ELSE Refused(cur)

NotifyReload(kv) == NotifyNormal(Reloaded(NotifyDefaults, kv, {"channel", "level"}))

-----------------------------------------------------------------------------
(* Daily report.                                                           *)
ReportDefaults ==
    [enabled |-> FALSE, sendAt |-> "09:00", zone |-> "Shanghai", cover |-> "yesterday",
     sections |-> {"checkin", "ledger"}]

ReportFields ==
    [enabled |-> BOOLEAN, sendAt |-> Texts, zone |-> Texts, cover |-> Texts, sections |-> SUBSET Texts]

Sections == {"checkin", "ledger", "patrol"}
Times == {"09:00", "23:30"}         \* ParseSendAt accepts these
Zones == {"Shanghai", "UTC"}        \* and LoadLocation these
Covers == {"yesterday", "today"}

ReportValid(s) ==
    /\ s.sendAt \in Times
    /\ s.zone \in Zones \cup {""}
    /\ s.cover \in Covers \cup {""}
    /\ s.sections \cap Sections # {}

ReportNormal(s) ==
    [s EXCEPT
        !.sendAt = Fallback(@, @ \in Times, "09:00"),
        !.zone = Fallback(@, @ \in Zones, "Shanghai"),
        !.cover = Fallback(@, @ \in Covers, "yesterday"),
        !.sections = Fallback(@ \cap Sections, @ \cap Sections # {}, Sections)]

ReportUpdate(cur, in) ==
    LET next == Overlay(cur, in)
    IN IF ReportValid(next) THEN Accepted(ReportNormal(next)) ELSE Refused(cur)

ReportReload(kv) == ReportNormal(Reloaded(ReportDefaults, kv, {"sendAt", "zone", "cover"}))

-----------------------------------------------------------------------------
(* Lottery.  A pool without weight is replaced, so none is ever refused.   *)
DefaultPrizes == <<[amount |-> 2 * Unit, weight |-> 50], [amount |-> 5 * Unit, weight |-> 20]>>

LotteryDefaults ==
    [enabled |-> FALSE, requireCheckin |-> TRUE, prizes |-> DefaultPrizes, budget |-> 0, cap |-> 0]

LotteryFields ==
    [enabled |-> BOOLEAN, requireCheckin |-> BOOLEAN, prizes |-> Seq([amount : Int, weight : Int]),
     budget |-> Int, cap |-> Int]

MaxPrizes == 12
MaxWeight == 1000000

PrizeNormal(p) ==
    [amount |-> Money(AtMost(AtLeast(p.amount, 0), MaxAmount)),
     weight |-> AtMost(AtLeast(p.weight, 0), MaxWeight)]

Drawable(prizes) == \E i \in DOMAIN prizes : prizes[i].weight > 0

LotteryNormal(s) ==
    LET kept == SubSeq(s.prizes, 1, AtMost(Len(s.prizes), MaxPrizes))
        clamped == [i \in DOMAIN kept |-> PrizeNormal(kept[i])]
    IN [s EXCEPT
           !.prizes = Fallback(clamped, Drawable(clamped), DefaultPrizes),
           !.budget = Money(AtLeast(@, 0)),
           !.cap = Money(AtLeast(@, 0))]

LotteryValid(s) ==
    /\ Len(s.prizes) \in 1..MaxPrizes
    /\ Drawable(s.prizes)
    /\ \A i \in DOMAIN s.prizes : s.prizes[i].weight >= 0 /\ s.prizes[i].amount \in 0..MaxAmount
    /\ s.cap >= 0
    /\ s.budget >= 0

LotteryUpdate(cur, in) ==
    LET next == LotteryNormal(Overlay(cur, in))
    IN IF LotteryValid(next) THEN Accepted(next) ELSE Refused(cur)

LotteryReload(kv) ==
    LotteryNormal(Overlay(LotteryDefaults,
        [f \in {g \in DOMAIN kv : g = "prizes" => kv[g] # <<>>} |-> kv[f]]))

-----------------------------------------------------------------------------
(* Redistribution: one key holds the whole of it as JSON.                  *)
InactiveRules == <<[type |-> "no_active_days", on |-> TRUE, days |-> 60],
                   [type |-> "no_usage_days", on |-> TRUE, days |-> 60]>>
ActiveRules == <<[type |-> "active_within_days", on |-> TRUE, days |-> 30],
                 [type |-> "used_within_days", on |-> TRUE, days |-> 30]>>

RedistributionDefaults ==
    [enabled |-> FALSE, auto |-> FALSE, cron |-> "monthly", zone |-> "Shanghai",
     inactive |-> InactiveRules, active |-> ActiveRules, protected |-> 30, excluded |-> {},
     reclaim |-> [mode |-> "fixed", value |-> 5, reserve |-> 5, min |-> 1, max |-> 10],
     claim |-> "auto", poolDays |-> 7,
     draw |-> [mode |-> "active_share", fixed |-> 1, min |-> 1, max |-> 5],
     allocation |-> [mode |-> "mixed", fixed |-> 0, equal |-> 50, limit |-> 100],
     failPercent |-> 10, keep |-> 50]

Rule == [type : Texts, on : BOOLEAN, days : Int]

RedistributionFields ==
    [enabled |-> BOOLEAN, auto |-> BOOLEAN, cron |-> Texts, zone |-> Texts,
     inactive |-> Seq(Rule), active |-> Seq(Rule), protected |-> Int, excluded |-> SUBSET Int,
     reclaim |-> [mode : Texts, value : Int, reserve : Int, min : Int, max : Int],
     claim |-> Texts, poolDays |-> Int,
     draw |-> [mode : Texts, fixed : Int, min : Int, max : Int],
     allocation |-> [mode : Texts, fixed : Int, equal : Int, limit : Int],
     failPercent |-> Int, keep |-> Int]

Known(rules) == {rules[i].type : i \in DOMAIN rules}

\* The elements of s at the places in K, in their order.
Picked(s, K) == [n \in 1..Cardinality(K) |-> s[CHOOSE i \in K : Cardinality({j \in K : j <= i}) = n]]

RulesNormal(rules, default) ==
    LET known == Picked(rules, {i \in DOMAIN rules : rules[i].type \in Known(default)})
        clamped == [i \in DOMAIN known |-> [known[i] EXCEPT !.days = AtLeast(@, 0)]]
    IN Fallback(clamped, known # <<>>, default)

ReclaimNormal(r) ==
    [mode |-> Fallback(r.mode, r.mode \in {"fixed", "percent", "excess"}, "fixed"),
     value |-> AtLeast(r.value, 0), reserve |-> AtLeast(r.reserve, 0),
     min |-> AtLeast(r.min, 0), max |-> AtLeast(r.max, 0)]

DrawNormal(r) ==
    [mode |-> Fallback(r.mode, r.mode \in {"fixed", "random", "active_share"}, "active_share"),
     fixed |-> AtLeast(r.fixed, 0), min |-> AtLeast(r.min, 0), max |-> AtLeast(r.max, 0)]

AllocationNormal(r) ==
    [mode |-> Fallback(r.mode, r.mode \in {"equal", "fixed", "usage", "mixed"}, "mixed"),
     fixed |-> AtLeast(r.fixed, 0), equal |-> AtMost(AtLeast(r.equal, 0), 100),
     limit |-> Fallback(AtMost(r.limit, 5000), r.limit > 0, 100)]

RedistributionNormal(s) ==
    [enabled |-> s.enabled, auto |-> s.auto,
     cron |-> Fallback(s.cron, s.cron # "", "monthly"), zone |-> Fallback(s.zone, s.zone # "", "Shanghai"),
     inactive |-> RulesNormal(s.inactive, InactiveRules), active |-> RulesNormal(s.active, ActiveRules),
     protected |-> AtLeast(s.protected, 0), excluded |-> {u \in s.excluded : u > 0},
     reclaim |-> ReclaimNormal(s.reclaim), claim |-> Fallback(s.claim, s.claim \in {"auto", "claim"}, "auto"),
     poolDays |-> Fallback(s.poolDays, s.poolDays > 0, 7),
     draw |-> DrawNormal(s.draw), allocation |-> AllocationNormal(s.allocation),
     failPercent |-> AtMost(AtLeast(s.failPercent, 0), 100),
     keep |-> Fallback(AtMost(s.keep, 500), s.keep > 0, 50)]

Enabled(rules) == {rules[i] : i \in {j \in DOMAIN rules : rules[j].on}}

RulesValid(rules) == Enabled(rules) # {} /\ \A r \in Enabled(rules) : r.days > 0

RedistributionValid(s) ==
    /\ s.cron # "bad"
    /\ s.zone \in Zones
    /\ RulesValid(s.inactive)
    /\ RulesValid(s.active)
    /\ s.reclaim.mode # "excess" => s.reclaim.value > 0
    /\ s.reclaim.mode = "percent" => s.reclaim.value <= 100
    /\ s.reclaim.max > 0 => s.reclaim.min <= s.reclaim.max
    /\ s.allocation.mode = "fixed" => s.allocation.fixed > 0
    /\ s.draw.mode = "fixed" => s.draw.fixed > 0
    /\ s.draw.mode = "random" => s.draw.min > 0 /\ s.draw.min <= s.draw.max

\* Save takes the whole of the settings; the switch saves those in force.
RedistributionUpdate(cur, in) ==
    LET next == RedistributionNormal(Overlay(cur, in))
    IN IF RedistributionValid(next) THEN Accepted(next) ELSE Refused(cur)

\* Zero days are not written, and the reader keeps those of the default rule at
\* the same place.
RulesRead(rules, default) ==
    [i \in DOMAIN rules |->
        IF rules[i].days = 0 /\ i \in DOMAIN default
        THEN [rules[i] EXCEPT !.days = default[i].days] ELSE rules[i]]

RedistributionReload(kv) ==
    IF DOMAIN kv = {} THEN RedistributionDefaults
    ELSE LET read == [kv EXCEPT !.inactive = RulesRead(@, InactiveRules),
                                !.active = RulesRead(@, ActiveRules)]
             next == RedistributionNormal(read)
         IN IF RedistributionValid(next) THEN next ELSE RedistributionDefaults

-----------------------------------------------------------------------------
(* Task centre: one key as well.                                           *)
TaskFields ==
    [enabled |-> BOOLEAN,
     defs |-> Seq([id : Texts, kind : Texts, target : Int, period : Texts, reward : Int])]

Kinds == {"daily_checkin", "daily_lottery", "streak", "weekly_checkin", "weekly_lottery"}
Periods == {"daily", "weekly", "once"}

TaskDefaults ==
    [enabled |-> TRUE,
     defs |-> <<[id |-> "d", kind |-> "daily_checkin", target |-> 1, period |-> "daily", reward |-> 0],
                [id |-> "s", kind |-> "streak", target |-> 3, period |-> "once", reward |-> 0]>>]

PeriodOf(kind) ==
    CASE kind = "streak" -> "once"
      [] kind \in {"weekly_checkin", "weekly_lottery"} -> "weekly"
      [] OTHER -> "daily"

DefNormal(d) ==
    [d EXCEPT !.target = IF d.kind \in {"daily_checkin", "daily_lottery"} THEN 1 ELSE AtLeast(@, 1),
              !.period = Fallback(@, @ # "", PeriodOf(d.kind))]

DefValid(d) == d.id # "" /\ d.kind \in Kinds /\ d.reward >= 0 /\ d.period \in Periods

TaskNormal(s) == [s EXCEPT !.defs = [i \in DOMAIN @ |-> DefNormal(@[i])]]

TaskValid(s) ==
    /\ \A i \in DOMAIN s.defs : DefValid(s.defs[i])
    /\ \A i, j \in DOMAIN s.defs : s.defs[i].id = s.defs[j].id => i = j

TaskUpdate(cur, in) ==
    LET next == TaskNormal(Overlay(cur, in))
    IN IF TaskValid(next) THEN Accepted(next) ELSE Refused(cur)

TaskReload(kv) ==
    IF DOMAIN kv # {} /\ TaskValid(TaskNormal(kv)) THEN TaskNormal(kv) ELSE TaskDefaults

-----------------------------------------------------------------------------
(* Media of the creative studio.  The local folder is given at the start.  *)
MediaDefaults ==
    [driver |-> "local", url |-> "", password |-> "env", root |-> "", fallback |-> TRUE]

MediaFields ==
    [driver |-> Texts, url |-> Texts, password |-> Texts, root |-> Texts, fallback |-> BOOLEAN]

MediaNormal(s) == [s EXCEPT !.driver = Fallback(@, @ = "webdav", "local")]

MediaValid(s) == s.driver = "webdav" => s.url \in {"http", "https"}

PasswordOf(cur, in) ==
    IF "clear" \in DOMAIN in THEN ""
    ELSE IF "password" \in DOMAIN in /\ in.password # "" THEN in.password ELSE cur.password

MediaUpdate(cur, in) ==
    LET next == MediaNormal([Overlay(cur, in) EXCEPT !.password = PasswordOf(cur, in)])
    IN IF MediaValid(next) THEN Accepted(next) ELSE Refused(cur)

MediaReload(kv) == MediaNormal(Reloaded(MediaDefaults, kv, {"driver"}))
=============================================================================
