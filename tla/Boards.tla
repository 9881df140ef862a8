------------------------------- MODULE Boards --------------------------------
(***************************************************************************)
(* The two ranking boards, and the rows of them that a campaign pays.  The  *)
(* rewards board sums check-ins and lottery prizes over a range of dates;   *)
(* the consumption board orders what Sub2API lists, which it orders by cost *)
(* and may cut short, by tokens.                                            *)
(***************************************************************************)
EXTENDS Integers, Sequences, FiniteSets, FiniteSetsExt, SequencesExt

Limited(rows, limit) ==
    IF limit > 0 /\ limit < Len(rows) THEN SubSeq(rows, 1, limit) ELSE rows

-----------------------------------------------------------------------------
(***************************************************************************)
(* Rewards: records have an id, a user, a date, an amount and a source.     *)
(***************************************************************************)
AmountIn(records) == MapThenSumSet(LAMBDA r : r.amount, records)

RewardRow(u, records) ==
    [user |-> u,
     total |-> AmountIn(records),
     checkin |-> AmountIn({r \in records : r.src = "checkin"}),
     lottery |-> AmountIn({r \in records : r.src = "lottery"}),
     last |-> Max({r.date : r \in records})]

\* rewardAggCTE: one row for each user with a record in the range.
Rewards(records, from, to) ==
    LET range == {r \in records : from <= r.date /\ r.date <= to}
    IN {RewardRow(u, {r \in range : r.user = u}) : u \in {r.user : r \in range}}

RewardBefore(a, b) ==
    \/ a.total > b.total
    \/ a.total = b.total /\ a.last > b.last
    \/ a.total = b.total /\ a.last = b.last /\ a.user < b.user

ListRewardRanking(records, from, to, limit) ==
    Limited(SetToSortSeq(Rewards(records, from, to), RewardBefore), limit)

\* ROW_NUMBER() over the same order, 0 for a user who is not on the board.
RewardRankOfUser(records, from, to, u) ==
    LET board == Rewards(records, from, to)
        mine == {row \in board : row.user = u}
    IN IF mine = {} THEN 0
       ELSE 1 + Cardinality({row \in board : \E me \in mine : RewardBefore(row, me)})

-----------------------------------------------------------------------------
(***************************************************************************)
(* Consumption: items have a user, tokens and a cost.                       *)
(***************************************************************************)
MaxCandidates == 5000

\* What Sub2API answers: items by cost, as many as it lists.
UsersRanking(usage, listed) ==
    Limited(SetToSortSeq(usage, LAMBDA a, b : a.cost > b.cost \/ (a.cost = b.cost /\ a.user < b.user)), listed)

TokensIn(items) == MapThenSumSet(LAMBDA i : items[i].tokens, DOMAIN items)

\* Its own total, if it gives one, must be accounted for up to one token.
Complete(items, total) ==
    /\ Len(items) < MaxCandidates
    /\ total > 0 => TokensIn(items) + 1 >= total

TokenBefore(a, b) ==
    \/ a.tokens > b.tokens
    \/ a.tokens = b.tokens /\ a.cost > b.cost
    \/ a.tokens = b.tokens /\ a.cost = b.cost /\ a.user < b.user

DisplayLimit(limit) == IF limit <= 0 THEN 20 ELSE IF limit > 100 THEN 100 ELSE limit

\* FetchTokenUsageRanking: a list that may be cut short is refused.
TokenRanking(items, total, limit) ==
    [ok |-> Complete(items, total),
     rows |-> Limited(SetToSortSeq({item \in ToSet(items) : item.user > 0 /\ item.tokens > 0}, TokenBefore),
                      DisplayLimit(limit))]

-----------------------------------------------------------------------------
\* loadCampaignRankRows: the users a settlement pays, best first; an error of
\* the board is the settlement's.
TopOf(topN) == IF topN <= 0 THEN 10 ELSE topN
UsersOf(rows) == [i \in DOMAIN rows |-> rows[i].user]

RewardsRows(records, from, to, topN) == UsersOf(ListRewardRanking(records, from, to, TopOf(topN)))

ConsumptionRows(items, total, topN) ==
    LET board == TokenRanking(items, total, TopOf(topN))
    IN [ok |-> board.ok, rows |-> Limited(UsersOf(board.rows), TopOf(topN))]

=============================================================================
