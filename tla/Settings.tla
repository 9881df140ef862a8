------------------------------ MODULE Settings ------------------------------
(***************************************************************************)
(* The settings of one module at run time: a copy in memory that every       *)
(* request reads, the rows of app_settings, and editors that read the copy,   *)
(* compute the next settings, store them and only then put them in force.     *)
(* No lock is held over the three.                                           *)
(***************************************************************************)
EXTENDS CheckinSettings

CONSTANTS
    Modules,        \* which modules are looked at, one in each behaviour
    Editors,
    Offers,         \* per module, what an administrator may ask for
    MaxEvents       \* bound: edits, restarts and failures

FieldsOf(m) ==
    CASE m = "checkin" -> CheckinFields
      [] m = "patrol" -> PatrolFields
      [] m = "notify" -> NotifyFields
      [] m = "report" -> ReportFields
      [] m = "lottery" -> LotteryFields
      [] m = "redistribution" -> RedistributionFields
      [] m = "tasks" -> TaskFields
      [] m = "media" -> MediaFields

ASSUME OffersAssumption ==
    /\ Modules \subseteq {"checkin", "patrol", "notify", "report", "lottery", "redistribution", "tasks", "media"}
    /\ \A m \in Modules : \A in \in Offers[m] : WellTyped(in, FieldsOf(m))

VARIABLES
    module,
    memory,         \* current
    stored,         \* rows of app_settings, keys to values
    backend,        \* the media store in use: the settings it was built from
    editors,
    audit,          \* settings_audit: the settings before each change
    events,
    torn,           \* history: edits overlapped, or half of one was carried out
    misread         \* history: the last start could not read all of its keys

settingsVars == <<module, memory, stored, backend, editors, audit, events, torn, misread>>

Resting == [at |-> "idle"]
NoRows == [k \in {} |-> ""]

Update(m, cur, in) ==
    CASE m = "checkin" -> CheckinUpdate(cur, in)
      [] m = "patrol" -> PatrolUpdate(cur, in)
      [] m = "notify" -> NotifyUpdate(cur, in)
      [] m = "report" -> ReportUpdate(cur, in)
      [] m = "lottery" -> LotteryUpdate(cur, in)
      [] m = "redistribution" -> RedistributionUpdate(cur, in)
      [] m = "tasks" -> TaskUpdate(cur, in)
      [] m = "media" -> MediaUpdate(cur, in)

Reload(m, kv) ==
    CASE m = "checkin" -> CheckinReload(kv)
      [] m = "patrol" -> PatrolReload(kv)
      [] m = "notify" -> NotifyReload(kv)
      [] m = "report" -> ReportReload(kv)
      [] m = "lottery" -> LotteryReload(kv)
      [] m = "redistribution" -> RedistributionReload(kv)
      [] m = "tasks" -> TaskReload(kv)
      [] m = "media" -> MediaReload(kv)

\* Modules that read all of their keys or none.
ReadsAllOrNone == {"checkin", "redistribution", "tasks"}

\* If the store of the settings cannot be built the server takes local media.
BackendOf(rt) == IF MediaValid(rt) THEN rt ELSE [MediaDefaults EXCEPT !.driver = "local", !.fallback = TRUE]

BackendAtStart(rt) == IF module = "media" THEN BackendOf(rt) ELSE NoRows

\* A start stores what it clamped of the check-in, and forgets that it did.
MemoryAtStart(m, rt) == IF m = "checkin" THEN [rt EXCEPT !.clamped = FALSE] ELSE rt

RowsAtStart(m, rt, kv) == IF m = "checkin" THEN PersistClamped(rt, kv) ELSE kv

\* After the first start.
SettingsInit ==
    /\ module \in Modules
    /\ memory = MemoryAtStart(module, Reload(module, NoRows))
    /\ stored = RowsAtStart(module, Reload(module, NoRows), NoRows)
    /\ backend = BackendAtStart(memory)
    /\ editors = [e \in Editors |-> Resting]
    /\ audit = <<>>
    /\ events = 0
    /\ torn = FALSE
    /\ misread = FALSE

Event == events < MaxEvents /\ events' = events + 1

Becomes(e, r) == editors' = [editors EXCEPT ![e] = r]

Asks(e, kind, in, to) ==
    Becomes(e, [at |-> IF module = "media" THEN "probe" ELSE "read",
                kind |-> kind, in |-> in, old |-> memory, to |-> to])

\* An edit by the administrator; the settings before it are kept for the audit.
Edit(e) ==
    /\ Event
    /\ editors[e] = Resting
    /\ \E in \in Offers[module] : Asks(e, "edit", in, memory)
    /\ UNCHANGED <<module, memory, stored, backend, audit, torn, misread>>

\* The switch of the module, or the check-in that closes when its budget is spent.
Switch(e) ==
    /\ Event
    /\ editors[e] = Resting
    /\ module # "media"
    /\ \E on \in BOOLEAN : Asks(e, "switch", [enabled |-> on], memory)
    /\ UNCHANGED <<module, memory, stored, backend, audit, torn, misread>>

\* What the audit keeps of settings; nobody reads back whether they were clamped.
PayloadOf(rt) == [f \in DOMAIN rt \ {"clamped"} |-> rt[f]]

\* Mutant: the ranges are not among what is brought back.
InputWithoutRanges(payload) == [f \in DOMAIN payload \ {"ranges"} |-> payload[f]]

NamesRanges(payload) == payload.ranges # {} /\ RangesValid(payload.ranges)

\* The update that brings a payload back: it names every field, but ranges only
\* if there were some and they are still valid.
UpdateInputOf(payload) ==
    LET left == IF NamesRanges(payload) THEN {} ELSE {"ranges"}
    IN [f \in DOMAIN payload \ left |-> payload[f]]

Rollback(e) ==
    /\ Event
    /\ editors[e] = Resting
    /\ \E i \in DOMAIN audit : Asks(e, "rollback", UpdateInputOf(audit[i]), audit[i])
    /\ UNCHANGED <<module, memory, stored, backend, audit, torn, misread>>

\* New media settings are tried before they are saved, as computed from a copy
\* that Read takes again.
Probe(e) ==
    /\ editors[e].at = "probe"
    /\ \/ MediaUpdate(memory, editors[e].in).ok /\ Becomes(e, [editors[e] EXCEPT !.at = "read"]) /\ UNCHANGED events
       \/ ~MediaUpdate(memory, editors[e].in).ok /\ Becomes(e, Resting) /\ UNCHANGED events
       \/ Event /\ Becomes(e, Resting)
    /\ UNCHANGED <<module, memory, stored, backend, audit, torn, misread>>

Busy == {e \in Editors : editors[e].at \in {"write", "set", "apply"}}

Read(e) ==
    /\ editors[e].at = "read"
    /\ LET u == Update(module, memory, editors[e].in)
       IN Becomes(e, IF u.ok THEN [at |-> "write", by |-> editors[e], next |-> u.next, kv |-> u.kv] ELSE Resting)
    /\ torn' = (torn \/ Busy # {})
    /\ UNCHANGED <<module, memory, stored, backend, audit, events, misread>>

\* One transaction for all keys. Redistribution reads the time of the row back
\* and gives up if that fails.
Write(e) ==
    /\ editors[e].at = "write"
    /\ LET kv == editors[e].kv
       IN stored' = [k \in DOMAIN stored \cup DOMAIN kv |-> IF k \in DOMAIN kv THEN kv[k] ELSE stored[k]]
    /\ \/ Becomes(e, [editors[e] EXCEPT !.at = "set"]) /\ UNCHANGED <<events, torn>>
       \/ module = "redistribution" /\ Event /\ Becomes(e, Resting) /\ torn' = TRUE
    /\ UNCHANGED <<module, memory, backend, audit, misread>>

WriteFails(e) ==
    /\ editors[e].at = "write"
    /\ Event
    /\ Becomes(e, Resting)
    /\ UNCHANGED <<module, memory, stored, backend, audit, torn, misread>>

\* Every module but the check-in has stored all of its fields by now, which ends
\* what a failed read left behind.
Set(e) ==
    /\ editors[e].at = "set"
    /\ memory' = editors[e].next
    /\ Becomes(e, CASE module = "media" -> [editors[e] EXCEPT !.at = "apply"]
                     [] module = "checkin" /\ editors[e].by.kind # "switch" -> [editors[e] EXCEPT !.at = "log"]
                     [] OTHER -> Resting)
    /\ misread' = (misread /\ module = "checkin")
    /\ UNCHANGED <<module, stored, backend, audit, events, torn>>

Applied(rt) == BackendOf(rt)

ApplyMedia(e) ==
    /\ editors[e].at = "apply"
    /\ backend' = Applied(editors[e].next)
    /\ Becomes(e, Resting)
    /\ UNCHANGED <<module, memory, stored, audit, events, torn, misread>>

\* A failing insert is ignored.
Log(e) ==
    /\ editors[e].at = "log"
    /\ \/ audit' = Append(audit, PayloadOf(editors[e].by.old)) /\ UNCHANGED events
       \/ Event /\ UNCHANGED audit
    /\ Becomes(e, Resting)
    /\ UNCHANGED <<module, memory, stored, backend, torn, misread>>

Unreadable == {{}} \cup IF module \in ReadsAllOrNone THEN {DOMAIN stored} ELSE {{k} : k \in DOMAIN stored}

ServerRestarts ==
    /\ Event
    /\ \E lost \in Unreadable :
          LET kv == [k \in DOMAIN stored \ lost |-> stored[k]]
              rt == Reload(module, kv)
          IN /\ memory' = MemoryAtStart(module, rt)
             /\ stored' = RowsAtStart(module, rt, stored)
             /\ backend' = BackendAtStart(rt)
             /\ misread' = (lost # {})
    /\ torn' = FALSE
    /\ editors' = [e \in Editors |-> Resting]
    /\ UNCHANGED <<module, audit>>

EditorStep(e) ==
    Probe(e) \/ Read(e) \/ Write(e) \/ WriteFails(e) \/ Set(e) \/ ApplyMedia(e) \/ Log(e)

SettingsNext == ServerRestarts \/ \E e \in Editors : Edit(e) \/ Switch(e) \/ Rollback(e) \/ EditorStep(e)

SettingsSpec == SettingsInit /\ [][SettingsNext]_settingsVars

-----------------------------------------------------------------------------
\* What counts of the settings in force: of the rules those that are on, of the
\* check-in all but the ranges, which the rows may keep when memory has none, and
\* the amount of the random mode.  That is the rounded middle, for show; of
\* amounts below a unit it may be zero or over the cap, and is read back as neither.
InForce(m, rt) ==
    CASE m = "checkin" ->
            [f \in DOMAIN rt \ ({"ranges", "clamped"} \cup (IF rt.mode = "random" THEN {"amount"} ELSE {})) |-> rt[f]]
      [] m = "redistribution" -> [rt EXCEPT !.inactive = Enabled(@), !.active = Enabled(@)]
      [] OTHER -> rt

\* A restart brings back what is in force, after any sequence of updates, switches
\* and restarts, unless edits overlapped, one was cut in half, or a read failed.
RestartRestores ==
    ~torn /\ ~misread /\ Busy = {} => InForce(module, Reload(module, stored)) = InForce(module, memory)

SetFor(e, kind) == Set(e) /\ editors[e].by.kind = kind

\* Switching a module on or off changes nothing else that is in force, the
\* rewards of the check-in included.
Rest(m, rt) == [f \in DOMAIN InForce(m, rt) \ {"enabled", "amount"} |-> InForce(m, rt)[f]]

SwitchKeepsRest ==
    [][\A e \in Editors :
          SetFor(e, "switch") /\ ~torn =>
              /\ Rest(module, memory') = Rest(module, memory)
              /\ module = "checkin" => RewardsOf(memory') = RewardsOf(memory)]_settingsVars

\* A rollback brings back the switch, the mode, the amounts, the cap and the budget
\* of the check-in as the audit kept them, and unless edits overlapped the rewards
\* that were paid then.  Only the ranges of the random mode may stay behind: those
\* now in force remain, under the cap brought back, if the settings kept had none
\* or had some that are not valid any more.
RollbackRestores ==
    [][\A e \in Editors :
          SetFor(e, "rollback") =>
              LET then == editors[e].by.to
                  ranges == IF NamesRanges(then) THEN then.ranges ELSE Ranges(memory.ranges, then.cap)
              IN /\ \A f \in {"enabled", "mode", "min", "max", "cap", "budget"} : memory'[f] = then[f]
                 /\ ~torn => RewardsOf(memory') = RewardsOf([then EXCEPT !.ranges = ranges])]_settingsVars

=============================================================================
