-------------------------------- MODULE Cron ---------------------------------
(***************************************************************************)
(* The five-field schedules of the patrol and of redistribution.  A field   *)
(* is written as a set of parts, each with a base (star, or a range of one  *)
(* value or more) and a step; a lone star is the empty set of parts.        *)
(***************************************************************************)
EXTENDS Calendar, FiniteSets

Star == {}

First(part, low) == IF part.base = "star" THEN low ELSE part.from
Last(part, high) == IF part.base = "star" THEN high ELSE part.to

PartValues(part, low, high) ==
    {v \in First(part, low)..Last(part, high) : (v - First(part, low)) % part.step = 0}

FieldValid(parts, low, high) ==
    \A part \in parts :
        /\ part.step > 0
        /\ low <= First(part, low) /\ First(part, low) <= Last(part, high) /\ Last(part, high) <= high

\* "*" alone is any value; "*/1" lists them all, and so restricts the field.
ParseField(parts, low, high) ==
    [any |-> parts = Star, vals |-> UNION {PartValues(part, low, high) : part \in parts}]

ParseCron(raw) ==
    [minute |-> ParseField(raw.minute, 0, 59),
     hour   |-> ParseField(raw.hour, 0, 23),
     dom    |-> ParseField(raw.dom, 1, 31),
     month  |-> ParseField(raw.month, 1, 12),
     dow    |-> ParseField(raw.dow, 0, 6)]

FieldMatches(field, v) == field.any \/ v \in field.vals

\* A day matches by its date or by its weekday if both are restricted.
DayMatches(expr, day) ==
    LET dom == FieldMatches(expr.dom, DayOfMonth(day))
        dow == FieldMatches(expr.dow, Weekday(day))
    IN /\ FieldMatches(expr.month, Month(day))
       /\ IF expr.dom.any \/ expr.dow.any THEN dom /\ dow ELSE dom \/ dow

\* A moment is a number of minutes.
MinutesOfDay == 24 * 60

Matches(expr, t) ==
    /\ FieldMatches(expr.minute, t % 60)
    /\ FieldMatches(expr.hour, (t % MinutesOfDay) \div 60)
    /\ DayMatches(expr, t \div MinutesOfDay)

\* The first matching minute after t, looked for over eight days; 0 if none.
NextMatch(expr, t) ==
    LET found == {u \in (t + 1)..(t + 1 + 8 * MinutesOfDay) : Matches(expr, u)}
    IN IF found = {} THEN 0 ELSE Min(found)

=============================================================================
