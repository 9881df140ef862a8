------------------------------ MODULE MCPatrol ------------------------------
EXTENDS Patrol

C == INSTANCE Cron

CONSTANTS w1, w2

\* The first account has two models; the second has none, and is in both groups.
MCWorkers == {w1, w2}
MCGroups == <<{"a1", "a2"}, {"a2"}>>
MCModels == [a \in Accounts |-> IF a = "a1" THEN 2 ELSE 0]

Choice(threshold, action) ==
    [threshold |-> threshold, action |-> action, onlySchedulable |-> action = "delete",
     autoEnable |-> action = "disable", stopOnFirst |-> action = "delete"]

MCAtStart == Choice(2, "disable")
MCOffered == {MCAtStart, Choice(1, "delete")}

Value(v) == {[base |-> "range", from |-> v, to |-> v, step |-> 1]}
Every(step) == {[base |-> "star", step |-> step]}
At3OnTheHour(dom, month, dow) ==
    C!ParseCron([minute |-> Value(0), hour |-> Value(3), dom |-> dom, month |-> month, dow |-> dow])

NewYear == C!Date(2028, 1, 1)
Moment(day, minutes) == day * C!MinutesOfDay + minutes

\* Steps count from the start of their range, and values lie within bounds.
ASSUME FieldsAreRead ==
    /\ C!ParseField(Every(25), 0, 59).vals = {0, 25, 50}
    /\ C!ParseField(Every(10) \cup Value(15), 1, 31).vals = {1, 11, 15, 21, 31}
    /\ ~C!FieldValid(Value(7), 0, 6)
    /\ \A step \in 1..70 : C!FieldValid(Every(step), 0, 59) /\ C!ParseField(Every(step), 0, 59).vals \subseteq 0..59

\* If a date and a weekday are given either of them does.
ASSUME DateOrWeekday ==
    LET days(dom, dow) == {d \in NewYear..(NewYear + 30) : C!DayMatches(At3OnTheHour(dom, C!Star, dow), d)}
    IN /\ days(Value(13), Value(5)) = days(Value(13), C!Star) \cup days(C!Star, Value(5))
       /\ days(C!Star, C!Star) = NewYear..(NewYear + 30)
       /\ days(Every(1), Value(5)) = days(C!Star, C!Star)

\* Eight days are enough to find the next run of a schedule by weekday, even
\* from the very minute of the last one; a date may be farther away, and then
\* no next run is shown though it will come.
ASSUME NextIsFound ==
    /\ \A dow \in {0, 3, 6}, minutes \in {179, 180} :
          LET expr == At3OnTheHour(C!Star, C!Star, Value(dow))
              t == Moment(NewYear, minutes)
              next == C!NextMatch(expr, t)
          IN C!Matches(expr, next) /\ next \in (t + 1)..(t + 7 * C!MinutesOfDay)
    /\ C!NextMatch(At3OnTheHour(Value(29), Value(2), C!Star), Moment(NewYear, 0)) = 0
    /\ C!Matches(At3OnTheHour(Value(29), Value(2), C!Star), Moment(C!Date(2028, 2, 29), 180))
=============================================================================
