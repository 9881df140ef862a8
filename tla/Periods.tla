------------------------------- MODULE Periods -------------------------------
(***************************************************************************)
(* The settlement periods of recurring campaigns: which one is the last     *)
(* complete one on a day, and which one a period key stands for.  Keys are  *)
(* the numbers they are written with.                                       *)
(***************************************************************************)
EXTENDS Calendar, Sequences

Period(key, first, last) == [key |-> key, first |-> first, last |-> last]
NoPeriod == Period(<<>>, 0, 0)

DaysSinceMonday(day) == IF Weekday(day) = 0 THEN 6 ELSE Weekday(day) - 1

DailyOf(day) == Period(<<Year(day), Month(day), DayOfMonth(day)>>, day, day)

PreviousCampaignPeriod(frequency, today) ==
    CASE frequency = "daily" -> DailyOf(today - 1)
      [] frequency = "weekly" ->
            LET monday == today - DaysSinceMonday(today)
            IN Period(ISOWeek(monday - 7), monday - 7, monday - 1)
      [] frequency = "monthly" ->
            LET month == Date(Year(today), Month(today), 1)
                before == Date(Year(today), Month(today) - 1, 1)
            IN Period(<<Year(before), Month(before)>>, before, month - 1)

\* The Monday of an ISO week, counted from the week of January 4th; 0 if the
\* year has no such week.
IsoWeekStart(year, week) ==
    LET jan4 == Date(year, 1, 4)
        start == jan4 - DaysSinceMonday(jan4) + (week - 1) * 7
    IN IF week \in 1..53 /\ year >= 1 /\ ISOWeek(start) = <<year, week>> THEN start ELSE 0

IsDate(key) == Len(key) = 3 /\ key[2] \in 1..12 /\ key[3] \in 1..DaysIn(key[1], key[2])

CampaignPeriodFromKey(frequency, key) ==
    CASE frequency = "daily" ->
            IF IsDate(key) THEN LET day == Date(key[1], key[2], key[3]) IN Period(key, day, day) ELSE NoPeriod
      [] frequency = "weekly" ->
            LET start == IsoWeekStart(key[1], key[2])
            IN IF Len(key) = 2 /\ start # 0 THEN Period(key, start, start + 6) ELSE NoPeriod
      [] frequency = "monthly" ->
            IF Len(key) = 2 /\ key[2] \in 1..12
            THEN Period(key, Date(key[1], key[2], 1), Date(key[1], key[2] + 1, 1) - 1) ELSE NoPeriod

PeriodInsideCampaign(period, first, last) == first <= period.first /\ period.last <= last

\* What a settlement settles: a once campaign its own dates, a recurring one
\* the period asked for or the last complete one, if it lies in the campaign.
CampaignPeriod(c, requested, today) ==
    LET period == IF requested = <<>> THEN PreviousCampaignPeriod(c.frequency, today)
                                      ELSE CampaignPeriodFromKey(c.frequency, requested)
    IN IF c.frequency = "once" THEN Period(<<"once">>, c.first, c.last)
       ELSE IF period # NoPeriod /\ PeriodInsideCampaign(period, c.first, c.last) THEN period
       ELSE NoPeriod

=============================================================================
