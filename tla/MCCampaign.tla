----------------------------- MODULE MCCampaign -----------------------------
EXTENDS Campaign, TLC

P == INSTANCE Periods
B == INSTANCE Boards

CONSTANTS w1, w2

MCWorkers == {w1, w2}
Symmetry == Permutations(MCWorkers)
MCUsers == {1, 2}

\* The rewards board of a day before and after the second user, who overtakes
\* the first: <<1>> and <<2, 1>>.
Record(id, u, amount, src) == [id |-> id, user |-> u, date |-> id % 2, amount |-> amount, src |-> src]
Early == {Record(1, 1, 1, "checkin"), Record(3, 1, 1, "lottery")}
MCRankings == {B!RewardsRows(Early, 1, 1, 10), B!RewardsRows(Early \cup {Record(5, 2, 3, "lottery")}, 1, 1, 10)}
MCRuleSets == {<<[exact |-> TRUE, from |-> 1, to |-> 1, amount |-> 2],
                 [exact |-> FALSE, from |-> 1, to |-> 2, amount |-> 1]>>}

\* Two years and the turns of the years around them, one of them a leap year
\* and one with a week 53.
Days == P!Date(2026, 12, 20)..P!Date(2029, 1, 20)
Frequencies == {"daily", "weekly", "monthly"}

\* The key a settlement is stored under leads back to its period, so an
\* administrator who names the key settles what the scheduler would.
ASSUME KeysNamePeriods ==
    \A day \in Days, f \in Frequencies :
        LET last == P!PreviousCampaignPeriod(f, day)
        IN P!CampaignPeriodFromKey(f, last.key) = last

\* The periods of successive days are complete, and none is left out or
\* overlaps the one before.
ASSUME PeriodsFollowEachOther ==
    \A day \in Days, f \in Frequencies :
        LET last == P!PreviousCampaignPeriod(f, day)
            next == P!PreviousCampaignPeriod(f, day + 1)
        IN /\ last.first <= last.last /\ last.last < day
           /\ next = last \/ (next.first = last.last + 1 /\ next.last = day)

\* Every ISO week of a year, and no other number, is a key.
ASSUME YearsHaveTheirWeeks ==
    \A y \in 2019..2029 :
        {w \in 0..60 : P!CampaignPeriodFromKey("weekly", <<y, w>>) # P!NoPeriod} = 1..P!ISOWeek(P!Date(y, 12, 28))[2]

\* A campaign of one month settles its three whole weeks, its days and the month itself.
ASSUME PeriodsStayInside ==
    LET c(f) == [frequency |-> f, first |-> P!Date(2028, 2, 1), last |-> P!Date(2028, 2, 29)]
        settled(f) == {P!CampaignPeriod(c(f), <<>>, day) : day \in Days} \ {P!NoPeriod}
    IN /\ settled("monthly") = {[key |-> <<2028, 2>>, first |-> c("monthly").first, last |-> c("monthly").last]}
       /\ Cardinality(settled("weekly")) = 3
       /\ Cardinality(settled("daily")) = 29
       /\ settled("once") = {P!CampaignPeriod(c("once"), <<>>, 1)}

\* The place a user is told is the one it has in the list campaigns are paid by.
ASSUME RankIsThePlace ==
    \A records \in SUBSET {Record(1, 1, 2, "checkin"), Record(2, 1, 1, "lottery"), Record(3, 2, 2, "checkin"),
                           Record(4, 2, 1, "lottery"), Record(5, 3, 3, "lottery"), Record(6, 3, 0, "lottery")} :
        LET list == B!ListRewardRanking(records, 0, 1, 0)
            places(u) == {i \in DOMAIN list : list[i].user = u}
        IN \A u \in 1..3 :
              IF places(u) = {} THEN B!RewardRankOfUser(records, 0, 1, u) = 0
              ELSE places(u) = {B!RewardRankOfUser(records, 0, 1, u)}

\* However short Sub2API cuts its list by cost, a board that is accepted has
\* lost no more than one token, so a user with more stands at the top.
ASSUME BoardsAreComplete ==
    \A usage \in [1..3 -> [tokens : {0, 1, 2, 4}, cost : 1..2]], listed \in 0..3 :
        LET items == {[user |-> u, tokens |-> usage[u].tokens, cost |-> usage[u].cost] : u \in 1..3}
            all == B!TokensIn(B!UsersRanking(items, 0))
            board == B!ConsumptionRows(IF listed = 0 THEN <<>> ELSE B!UsersRanking(items, listed), all, 1)
        IN board.ok /\ all > 1 =>
              /\ Len(board.rows) = 1
              /\ \A u \in 1..3 : usage[u].tokens > 1 => usage[u].tokens <= usage[board.rows[1]].tokens
=============================================================================
