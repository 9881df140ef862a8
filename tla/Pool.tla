-------------------------------- MODULE Pool --------------------------------
(***************************************************************************)
(* The redistribution pool: balance deducted from inactive users lies in    *)
(* lots, active users draw from it once a day, and what nobody draws goes   *)
(* back to the user it came from, on request or when the lot expires.       *)
(* Composed with Payout, which moves the money.                             *)
(*                                                                         *)
(* A lot, a draw or a refund is reserved in one database transaction, then  *)
(* the money moves, then the reservation is completed or reset: three       *)
(* transactions with the payout in between, and any number of requests and  *)
(* expiry rounds at the same time.  One day is modelled, so a user has one  *)
(* draw row.  Amounts count units of 0.0001 and lots expire in the order of *)
(* their ids.                                                               *)
(***************************************************************************)
EXTENDS Integers, FiniteSets, FiniteSetsExt, Functions

CONSTANTS
    Workers,    \* request goroutines and expiry rounds
    Users,      \* users who draw
    Original,   \* per lot, 1..n, the amount deducted from its owner
    OwnerOf,    \* per lot, its owner
    Legacy,     \* deducted by batches that ended without making lots
    DrawAmounts,    \* what the draw rules can come to
    Lookalikes  \* users, and lots, whose payouts have errors that read like a hit

Lots == DOMAIN Original

ASSUME PoolAssumption ==
    /\ Lots \subseteq Nat \ {0}
    /\ Original \in [Lots -> Nat]
    /\ DOMAIN OwnerOf = Lots
    /\ Legacy \in Nat
    /\ DrawAmounts \subseteq Nat \ {0}
    /\ IsFiniteSet(Users)
    /\ Lookalikes \subseteq Users \cup Lots

VARIABLES
    final, applied, sent, calls,    \* as in Payout
    lots,       \* redistribution_pool_lots: consumed and refunded amounts
    expired,    \* lots 1..expired are past expires_at
    draws,      \* redistribution_pool_draws with their consumption rows
    refunds,    \* redistribution_pool_refunds, by lot and kind
    reqs,       \* per worker, the request it serves
    doubtful    \* history: an amount was given back that was, or could be, paid

creditVars == <<final, applied, sent, calls>>
rows == <<lots, draws, refunds>>
vars == <<creditVars, rows, expired, reqs, doubtful>>

-----------------------------------------------------------------------------
Kinds == {"manual", "auto"}
DrawKey(u) == <<"draw", u>>
RefundKey(l, k) == <<"refund", l, k>>
Keys == {DrawKey(u) : u \in Users} \cup {RefundKey(l, k) : l \in Lots, k \in Kinds}

\* The header is made of scope, user and slot: the two refunds of a lot share it.
UpKeyOf == [key \in Keys |-> <<key[1], key[2]>>]

Total == MapThenSumSet(LAMBDA l : Original[l], Lots) + Legacy
Amounts == 1..Total

Credit == INSTANCE Payout WITH
    UpKeys <- {UpKeyOf[k] : k \in Keys},
    Mistakable <- {UpKeyOf[k] : k \in {x \in Keys : x[2] \in Lookalikes}},
    Requests <- [key : Keys, delta : Amounts]

\* A draw row; takes[0] is the part from legacy money, takes[l] from lot l.
Absent == [status |-> "absent"]
Row(status, amount, takes) == [status |-> status, amount |-> amount, takes |-> takes]
Refund(status, amount) == [status |-> status, amount |-> amount]

Free == [at |-> "free"]
\* row: the draw row whose id the request holds has not been deleted.
DrawReq(at, u, amount, row) == [at |-> at, user |-> u, amount |-> amount, row |-> row]
Drawing(at, u, amount) == DrawReq(at, u, amount, TRUE)
Refunding(at, k, todo) == [at |-> at, kind |-> k, todo |-> todo]
DrawSteps == {"look", "pool", "reserve_draw", "pay_draw", "complete_draw", "reset_draw"}
RefundSteps == {"reserve_refund", "pay_refund", "complete_refund", "reset_refund"}

TypeOK ==
    /\ Credit!TypeOK
    /\ lots \in [Lots -> [consumed : Nat, refunded : Nat]]
    /\ expired \in Nat
    /\ draws \in [Users -> {Absent} \cup
           [status : {"processing", "success"}, amount : Nat, takes : [{0} \cup Lots -> Nat]]]
    /\ refunds \in [Lots -> [Kinds -> {Absent} \cup
           [status : {"processing", "success", "failed"}, amount : Nat]]]
    /\ reqs \in [Workers -> {Free} \cup
           [at : DrawSteps, user : Users, amount : Nat, row : BOOLEAN] \cup
           [at : RefundSteps, kind : Kinds, todo : SUBSET Lots]]
    /\ doubtful \in BOOLEAN

Init ==
    /\ Credit!Init
    /\ lots = [l \in Lots |-> [consumed |-> 0, refunded |-> 0]]
    /\ expired = 0
    /\ draws = [u \in Users |-> Absent]
    /\ refunds = [l \in Lots |-> [k \in Kinds |-> Absent]]
    /\ reqs = [w \in Workers |-> Free]
    /\ doubtful = FALSE

Goto(w, at) == reqs' = [reqs EXCEPT ![w].at = at]
Reply(w) == reqs' = [reqs EXCEPT ![w] = Free]
UserOf(w) == reqs[w].user

\* Nothing has been paid under the upstream key of k, and only w could still pay.
Unpaid(w, k) ==
    /\ applied[UpKeyOf[k]] = 0
    /\ \A m \in sent : m.up # UpKeyOf[k]
    /\ \A v \in Workers \ {w} :
          calls[v] # Credit!Idle => UpKeyOf[calls[v].req.key] # UpKeyOf[k]

\* An amount is given back for a row: with good reason if the row is still in
\* progress and nothing has moved, nor can.
GiveBack(w, row, k) ==
    doubtful' = (doubtful \/ row.status # "processing" \/ ~Unpaid(w, k))

\* reqs is then decided by the step itself, calls by the call made.
Pay(w, key, amount) ==
    /\ Credit!Call(w, [key |-> key, delta |-> amount])
    /\ UNCHANGED <<final, applied, sent>>

-----------------------------------------------------------------------------
(***************************************************************************)
(* The contents of the pool.                                                *)
(***************************************************************************)
Remaining(l) == Original[l] - lots[l].consumed - lots[l].refunded
Positive(n) == IF n < 0 THEN 0 ELSE n

LegacyTaken(statuses) ==
    MapThenSumSet(LAMBDA u : draws[u].takes[0], {u \in Users : draws[u].status \in statuses})

\* RedistributionAvailablePool: expired lots count, although no draw may use them.
AvailablePool ==
    Positive(Legacy - LegacyTaken({"processing", "success"})) + MapThenSumSet(Remaining, Lots)

\* What ReserveRedistributionPoolDraw takes: legacy money first, of which it
\* counts only draws still in progress as taken, then the lots in order.
LegacyLeft == Positive(Legacy - LegacyTaken({"processing"}))

\* Mutant: a draw may use what a refund has reserved.
UsableIgnoringRefunds(l) ==
    IF l <= expired THEN 0 ELSE Positive(Original[l] - lots[l].consumed)

Usable(l) == IF l <= expired THEN 0 ELSE Positive(Remaining(l))

Splits(amount) ==
    {takes \in [{0} \cup Lots -> 0..amount] :
        /\ SumFunction(takes) = amount
        /\ takes[0] = IF LegacyLeft < amount THEN LegacyLeft ELSE amount
        /\ \A l \in Lots : takes[l] <= Usable(l)
        /\ \A l, m \in Lots : takes[l] < Usable(l) /\ l < m => takes[m] = 0}

-----------------------------------------------------------------------------
(***************************************************************************)
(* Draw, statement by statement.                                            *)
(***************************************************************************)
BeginDraw(w, u) ==
    /\ reqs[w] = Free
    /\ reqs' = [reqs EXCEPT ![w] = Drawing("look", u, 0)]
    /\ UNCHANGED <<creditVars, rows, expired, doubtful>>

\* A draw of today that is still processing is paid again with its own key.
LookupDraw(w) ==
    /\ reqs[w].at = "look"
    /\ LET row == draws[UserOf(w)]
       IN \/ row.status = "absent" /\ Goto(w, "pool") /\ UNCHANGED creditVars
          \/ row.status = "success" /\ Reply(w) /\ UNCHANGED creditVars
          \/ /\ row.status = "processing"
             /\ reqs' = [reqs EXCEPT ![w] = Drawing("pay_draw", UserOf(w), row.amount)]
             /\ Pay(w, DrawKey(UserOf(w)), row.amount)
    /\ UNCHANGED <<rows, expired, doubtful>>

\* drawAmount never exceeds the pool it was given.
ChooseAmount(w) ==
    /\ reqs[w].at = "pool"
    /\ \E a \in DrawAmounts :
          /\ a <= AvailablePool
          /\ reqs' = [reqs EXCEPT ![w] = Drawing("reserve_draw", UserOf(w), a)]
    /\ UNCHANGED <<creditVars, rows, expired, doubtful>>

\* Mutant: the lots are read but not charged.
ReserveWithoutCharge(w) ==
    /\ reqs[w].at = "reserve_draw"
    /\ draws[UserOf(w)] = Absent
    /\ \E takes \in Splits(reqs[w].amount) :
          draws' = [draws EXCEPT ![UserOf(w)] = Row("processing", reqs[w].amount, takes)]
    /\ reqs' = [reqs EXCEPT ![w] = Drawing("pay_draw", UserOf(w), reqs[w].amount)]
    /\ Pay(w, DrawKey(UserOf(w)), reqs[w].amount)
    /\ UNCHANGED <<lots, refunds, expired, doubtful>>

ReserveDraw(w) ==
    /\ reqs[w].at = "reserve_draw"
    /\ draws[UserOf(w)] = Absent
    /\ \E takes \in Splits(reqs[w].amount) :
          /\ draws' = [draws EXCEPT ![UserOf(w)] = Row("processing", reqs[w].amount, takes)]
          /\ lots' = [l \in Lots |-> [lots[l] EXCEPT !.consumed = @ + takes[l]]]
    /\ reqs' = [reqs EXCEPT ![w] = Drawing("pay_draw", UserOf(w), reqs[w].amount)]
    /\ Pay(w, DrawKey(UserOf(w)), reqs[w].amount)
    /\ UNCHANGED <<refunds, expired, doubtful>>

\* The user's row exists, the pool has run short, or a statement or an
\* upstream read failed on the way.
DrawRefused(w) ==
    /\ reqs[w].at \in {"look", "pool", "reserve_draw"}
    /\ Reply(w)
    /\ UNCHANGED <<creditVars, rows, expired, doubtful>>

\* UPDATE ... WHERE id=? AND status='processing'; a failed update is an error reply.
CompleteDraw(w) ==
    /\ reqs[w].at = "complete_draw"
    /\ \E written \in BOOLEAN :
          draws' = IF written /\ reqs[w].row
                   THEN [draws EXCEPT ![UserOf(w)].status = "success"] ELSE draws
    /\ Reply(w)
    /\ UNCHANGED <<creditVars, lots, refunds, expired, doubtful>>

Released(takes) ==
    [l \in Lots |-> [lots[l] EXCEPT !.consumed = Positive(@ - takes[l])]]

\* The draw row is deleted, and whoever holds its id finds nothing any more.
DeleteDraw(w) ==
    /\ draws' = [draws EXCEPT ![UserOf(w)] = Absent]
    /\ reqs' = [v \in Workers |->
          IF v = w THEN Free
          ELSE IF reqs[v].at \in DrawSteps /\ UserOf(v) = UserOf(w)
          THEN DrawReq(reqs[v].at, UserOf(v), reqs[v].amount, FALSE) ELSE reqs[v]]

\* Mutant: the row is deleted, and its consumption rows with it, before the
\* lots are given their amounts back.
ResetDeletesFirst(w) ==
    /\ reqs[w].at = "reset_draw"
    /\ LET row == draws[UserOf(w)]
       IN IF reqs[w].row /\ row.status = "processing"
          THEN lots' = lots /\ DeleteDraw(w)
          ELSE IF reqs[w].row
          THEN lots' = Released(row.takes) /\ Reply(w) /\ UNCHANGED draws
          ELSE Reply(w) /\ UNCHANGED <<lots, draws>>
    /\ UNCHANGED <<creditVars, refunds, expired, doubtful>>

\* The lots get their amounts back whatever the row's status is; the row is
\* deleted, with its consumption rows, only if it is still processing.
ResetDraw(w) ==
    /\ reqs[w].at = "reset_draw"
    /\ LET row == draws[UserOf(w)]
       IN \/ /\ reqs[w].row
             /\ lots' = Released(row.takes)
             /\ IF row.status = "processing" THEN DeleteDraw(w) ELSE Reply(w) /\ UNCHANGED draws
             /\ GiveBack(w, row, DrawKey(UserOf(w)))
          \/ Reply(w) /\ UNCHANGED <<lots, draws, doubtful>>
    /\ UNCHANGED <<creditVars, refunds, expired>>

-----------------------------------------------------------------------------
(***************************************************************************)
(* Recover (kind "manual") and RefundExpired (kind "auto") go through the   *)
(* lots they listed, one after the other.                                   *)
(***************************************************************************)
BeginRefunds(w, k, listed) ==
    /\ reqs[w] = Free
    /\ listed # {}
    /\ reqs' = [reqs EXCEPT ![w] = Refunding("reserve_refund", k, listed)]
    /\ UNCHANGED <<creditVars, rows, expired, doubtful>>

BeginRecover(w) ==
    \E owner \in Range(OwnerOf) :
        BeginRefunds(w, "manual",
            {l \in Lots : OwnerOf[l] = owner /\ Remaining(l) > 0 /\ l > expired})

BeginExpiry(w) ==
    BeginRefunds(w, "auto", {l \in Lots : Remaining(l) > 0 /\ l <= expired})

LotOf(w) == Min(reqs[w].todo)
RefundOf(w) == refunds[LotOf(w)][reqs[w].kind]

NextLot(w) ==
    LET rest == reqs[w].todo \ {LotOf(w)}
    IN IF rest = {} THEN Reply(w)
       ELSE reqs' = [reqs EXCEPT ![w] = Refunding("reserve_refund", reqs[w].kind, rest)]

\* A manual recovery stops at the first error, an expiry round goes on.
GiveUp(w) == IF reqs[w].kind = "manual" THEN Reply(w) ELSE NextLot(w)

\* A kind that was refunded before is returned as it is and reserves nothing;
\* the payout that follows finds its key in the ledger.
ReserveRefund(w) ==
    /\ reqs[w].at = "reserve_refund"
    /\ Remaining(LotOf(w)) > 0
    /\ \A k \in Kinds : refunds[LotOf(w)][k].status # "processing"
    /\ Goto(w, "pay_refund")
    /\ IF RefundOf(w).status = "success"
       THEN /\ Pay(w, RefundKey(LotOf(w), reqs[w].kind), RefundOf(w).amount)
            /\ UNCHANGED <<lots, refunds>>
       ELSE /\ Pay(w, RefundKey(LotOf(w), reqs[w].kind), Remaining(LotOf(w)))
            /\ refunds' = [refunds EXCEPT ![LotOf(w)][reqs[w].kind] =
                              Refund("processing", Remaining(LotOf(w)))]
            /\ lots' = [lots EXCEPT ![LotOf(w)].refunded = @ + Remaining(LotOf(w))]
    /\ UNCHANGED <<draws, expired, doubtful>>

\* Nothing remains, another refund of the lot is in progress, or a statement failed.
RefundRefused(w) ==
    /\ reqs[w].at = "reserve_refund"
    /\ GiveUp(w)
    /\ UNCHANGED <<creditVars, rows, expired, doubtful>>

\* A failed update ends the round, whichever kind it is.
CompleteRefund(w) ==
    /\ reqs[w].at = "complete_refund"
    /\ \/ /\ refunds' = IF RefundOf(w).status = "processing"
                        THEN [refunds EXCEPT ![LotOf(w)][reqs[w].kind].status = "success"]
                        ELSE refunds
          /\ NextLot(w)
       \/ Reply(w) /\ UNCHANGED refunds
    /\ UNCHANGED <<creditVars, lots, draws, expired, doubtful>>

\* The row's status is not looked at; an error of the transaction is ignored.
ResetRefund(w) ==
    /\ reqs[w].at = "reset_refund"
    /\ \/ /\ lots' = [lots EXCEPT ![LotOf(w)].refunded = Positive(@ - RefundOf(w).amount)]
          /\ refunds' = [refunds EXCEPT ![LotOf(w)][reqs[w].kind].status = "failed"]
          /\ GiveBack(w, RefundOf(w), RefundKey(LotOf(w), reqs[w].kind))
       \/ UNCHANGED <<lots, refunds, doubtful>>
    /\ GiveUp(w)
    /\ UNCHANGED <<creditVars, draws, expired>>

-----------------------------------------------------------------------------
(***************************************************************************)
(* The payout between reservation and completion, for both.                 *)
(***************************************************************************)
CreditStep(w) ==
    /\ Credit!WorkerStep(w)
    /\ UNCHANGED <<rows, expired, reqs, doubtful>>

Paid(w) ==
    /\ reqs[w].at \in {"pay_draw", "pay_refund"}
    /\ calls[w].pc \in {"ok", "skipped"}
    /\ Credit!Return(w)
    /\ Goto(w, IF reqs[w].at = "pay_draw" THEN "complete_draw" ELSE "complete_refund")
    /\ UNCHANGED <<final, applied, sent, rows, expired, doubtful>>

PayoutFailed(w) ==
    /\ reqs[w].at \in {"pay_draw", "pay_refund"}
    /\ calls[w].pc = "error"
    /\ Credit!Return(w)
    /\ Goto(w, IF reqs[w].at = "pay_draw" THEN "reset_draw" ELSE "reset_refund")
    /\ UNCHANGED <<final, applied, sent, rows, expired, doubtful>>

Expire ==
    /\ expired + 1 \in Lots
    /\ expired' = expired + 1
    /\ UNCHANGED <<creditVars, rows, reqs, doubtful>>

\* Nothing on the way up looks for reservations left behind.
Crash ==
    /\ \E w \in Workers : reqs[w] # Free
    /\ reqs' = [w \in Workers |-> Free]
    /\ calls' = [w \in Workers |-> Credit!Idle]
    /\ UNCHANGED <<final, applied, sent, rows, expired, doubtful>>

Step(w) ==
    \/ LookupDraw(w)
    \/ ChooseAmount(w)
    \/ ReserveDraw(w)
    \/ DrawRefused(w)
    \/ CompleteDraw(w)
    \/ ResetDraw(w)
    \/ ReserveRefund(w)
    \/ RefundRefused(w)
    \/ CompleteRefund(w)
    \/ ResetRefund(w)
    \/ CreditStep(w)
    \/ Paid(w)
    \/ PayoutFailed(w)

Upstream ==
    /\ Credit!Upstream
    /\ UNCHANGED <<rows, expired, reqs, doubtful>>

Next ==
    \/ \E w \in Workers, u \in Users : BeginDraw(w, u)
    \/ \E w \in Workers : BeginRecover(w) \/ BeginExpiry(w) \/ Step(w)
    \/ Upstream
    \/ Expire
    \/ Crash

Spec == Init /\ [][Next]_vars

-----------------------------------------------------------------------------
\* What the draw rows took from a lot, and its refund rows that count.
TakenBy(row, l) == IF row = Absent THEN 0 ELSE row.takes[l]
TakenFrom(l) == SumFunction([u \in Users |-> TakenBy(draws[u], l)])

RefundedBy(row) == IF row.status \in {"processing", "success"} THEN row.amount ELSE 0
RefundedFrom(l) == RefundedBy(refunds[l]["manual"]) + RefundedBy(refunds[l]["auto"])

\* What upstream has paid at the expense of a lot.
PaidFrom(l) ==
    applied[UpKeyOf[RefundKey(l, "auto")]] +
    SumFunction([u \in Users |-> IF applied[UpKeyOf[DrawKey(u)]] # 0
                                 THEN TakenBy(draws[u], l) ELSE 0])

(***************************************************************************)
(* Safety: a lot pays out no more than was put into it, to those who draw   *)
(* from it and to its owner together, however draws, refunds, failed        *)
(* payouts, resets and crashes interleave.  Only when an amount was given   *)
(* back that had been paid, or still could be, may it be paid twice.        *)
(***************************************************************************)
LotsPayWhatTheyHold ==
    ~doubtful => \A l \in Lots : PaidFrom(l) <= Original[l]

(***************************************************************************)
(* Safety: no money is locked away without an owner.  What a lot has set    *)
(* aside belongs to draw and refund rows that exist, through any order of   *)
(* resets, repeated payouts and crashes.                                    *)
(***************************************************************************)
SetAsideForSomebody ==
    \A l \in Lots :
        /\ lots[l].consumed <= TakenFrom(l)
        /\ lots[l].refunded <= RefundedFrom(l)

(***************************************************************************)
(* Safety: failed payouts, resets and crashes leave the books balanced, as  *)
(* long as nothing was given back that had been paid or still could be.     *)
(* Lots show exactly what the rows took, and no user has got anything but   *)
(* the amount of the own row.                                               *)
(***************************************************************************)
CleanBooksBalance ==
    ~doubtful =>
        /\ \A l \in Lots : lots[l].consumed = TakenFrom(l) /\ lots[l].refunded = RefundedFrom(l)
        /\ \A u \in Users : applied[UpKeyOf[DrawKey(u)]] # 0 =>
              draws[u] # Absent /\ draws[u].amount = applied[UpKeyOf[DrawKey(u)]]

(***************************************************************************)
(* tasks.html: what nobody draws is returned to its owner.  The refunds a   *)
(* lot shows as done have reached the owner in full.                        *)
(***************************************************************************)
DoneRefunds(l) ==
    MapThenSumSet(LAMBDA k : refunds[l][k].amount,
                  {k \in Kinds : refunds[l][k].status = "success"})

RefundsReachTheOwner ==
    \A l \in Lots : DoneRefunds(l) <= applied[UpKeyOf[RefundKey(l, "auto")]]

=============================================================================
