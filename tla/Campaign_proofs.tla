--------------------------- MODULE Campaign_proofs ---------------------------
(***************************************************************************)
(* For any workers, users, boards and rules, and however settlements       *)
(* overlap: an award that does not say failed was paid, since the award is *)
(* written after the payment, under the rank the payment was made for, and *)
(* what a payment has reached is never undone. Unless something went wrong *)
(* with a user's payment or award, or two settlements paid at the same     *)
(* time, a user is paid under one rank, and all users together within the  *)
(* largest cap the campaign has had.  The award of a user whose number an  *)
(* error may pass off as a hit may stand for nothing.                      *)
(***************************************************************************)
EXTENDS Campaign, FiniteSetTheorems, WellFoundedInduction, TLAPS

UpKeyOf == [k \in Keys |-> k]

P == INSTANCE Payout_proofs WITH
    UpKeys <- Keys, Requests <- [key : Keys, delta : Amounts],
    Mistakable <- {k \in Keys : k[2] \in Lookalikes}

\* The fields of a settlement.
Fields == {"at", "trigger", "rules", "cap", "recurs", "ranking", "existing", "row",
           "spent", "failed", "result"}

Shape(s) == s = Idle \/ s = [f \in Fields |-> s[f]]

\* The settlement is at a row of a board that was shown.
OnBoard(s) == s.ranking \in Rankings /\ s.row \in DOMAIN s.ranking

RowKey(s) == SlotKey(s.row, s.ranking[s.row])

\* A settlement that waits for a payment has a call under the slot of its row; one
\* that is about to write an award of success knows that the slot is served.
SettlerOK(s, c) ==
    /\ Shape(s)
    /\ s # Idle => s.row \in Nat
    /\ s.at \in {"pay", "award"} => OnBoard(s)
    /\ s.at = "pay" => c # P!Idle /\ c.req.key = RowKey(s)
    /\ s.at = "award" /\ s.result # "failed" => P!Served(RowKey(s))

SettlersOK ==
    /\ settlers = [w \in Workers |-> settlers[w]]
    /\ \A w \in Workers : SettlerOK(settlers[w], calls[w])

AwardOK(u, award) ==
    award.status # "failed" => \E k \in KeysOf(u) : k \in Keys /\ P!Served(k)

AwardsOK == \A u \in DOMAIN awards : AwardOK(u, awards[u])

AwardInv == P!PayoutOK /\ SettlersOK /\ AwardsOK

-----------------------------------------------------------------------------
(***************************************************************************)
(* Facts about the operators.                                               *)
(***************************************************************************)
LEMMA MinIsMember ==
  ASSUME NEW S, S \subseteq Nat, S # {}
  PROVE  Min(S) \in S
<1> DEFINE less == {p \in Nat \X Nat : p[1] < p[2]}
<1>1. IsWellFoundedOn(less, Nat)
  BY NatLessThanWellFounded DEF OpToRel
<1>2. PICK x \in S : \A y \in S : ~(<<y, x>> \in less)
  <2> HIDE DEF less
  <2> QED
    BY <1>1, WFMin
<1>3. \A y \in S : ~(y < x)
  BY <1>2
<1>4. \A y \in S : x <= y
  BY <1>3
<1> QED
  BY <1>4 DEF Min

LEMMA MappedHolds == P!Mapped
  BY DEF P!Mapped, UpKeyOf

LEMMA SlotKeys ==
  ASSUME NEW r \in Rankings, NEW i \in DOMAIN r
  PROVE  /\ r[i] \in Users
         /\ SlotKey(i, r[i]) \in Keys
         /\ SlotKey(i, r[i]) \in KeysOf(r[i])
<1>1. r \in Seq(Users)
  BY CampaignAssumption
<1>2. r[i] \in Users
  BY <1>1
<1>3. i \in Ranks
  BY DEF Ranks
<1> QED
  BY <1>2, <1>3 DEF Keys, KeysOf

\* The next row to pay is a row of the board further on, pays something and was
\* not awarded.
LEMMA NextRowIsPayable ==
  ASSUME NEW s, s.ranking \in Rankings, s.row \in Nat, NextRow(s) # 0
  PROVE  /\ NextRow(s) \in DOMAIN s.ranking
         /\ NextRow(s) \in Nat /\ s.row < NextRow(s)
         /\ AmountAt(s, NextRow(s)) # 0 /\ ~Awarded(s, NextRow(s)) /\ ~CutByBudget(s, NextRow(s))
<1> DEFINE rows == {i \in (s.row + 1)..Len(s.ranking) : Payable(s, i)}
<1>1. s.ranking \in Seq(Users) /\ Len(s.ranking) \in Nat
  BY CampaignAssumption
<1>2. rows # {} /\ NextRow(s) = Min(rows)
  BY DEF NextRow
<1>3. rows \subseteq Nat
  BY <1>1
<1>4. NextRow(s) \in rows
  BY <1>2, <1>3, MinIsMember
<1>5. NextRow(s) \in 1..Len(s.ranking) /\ s.row < NextRow(s)
  BY <1>1, <1>4
<1> QED
  BY <1>1, <1>4, <1>5 DEF Payable

-----------------------------------------------------------------------------
(***************************************************************************)
(* The initial states.                                                      *)
(***************************************************************************)
LEMMA AwardInit == ASSUME Init PROVE AwardInv
<1>1. P!Init
  BY DEF Init, Credit!Init, P!Init, Credit!Idle, P!Idle
<1>2. P!PayoutOK
  BY <1>1, P!PayoutInit
<1>3. SettlersOK
  BY DEF Init, SettlersOK, SettlerOK, Shape, Idle
<1>4. AwardsOK
  BY DEF Init, AwardsOK
<1> QED
  BY <1>2, <1>3, <1>4 DEF AwardInv

-----------------------------------------------------------------------------
(***************************************************************************)
(* What a step leaves alone.                                                *)
(***************************************************************************)
CreditMove ==
    \/ UNCHANGED creditVars
    \/ \E w \in Workers : Credit!WorkerStep(w)
    \/ \E w \in Workers, k \in Keys : \E a : a # 0 /\ Credit!Call(w, [key |-> k, delta |-> a])
                                             /\ UNCHANGED <<final, applied, sent>>
    \/ \E w \in Workers : Credit!Return(w) /\ UNCHANGED <<final, applied, sent>>
    \/ Credit!Upstream
    \/ Credit!Crash

LEMMA MoveIsMove == ASSUME CreditMove PROVE P!Move
<1> USE DEF UpKeyOf
<1>1. \A w \in Workers : Credit!WorkerStep(w) => P!WorkerStep(w)
  BY DEF Credit!WorkerStep, Credit!Send, Credit!Succeed, Credit!Skip, Credit!Fail, Credit!End,
     Credit!Request, Credit!Final, P!WorkerStep, P!Send, P!Succeed, P!Skip, P!Fail, P!End,
     P!Request, P!Final
<1>2. \A w \in Workers : \A r : Credit!Call(w, r) => P!Call(w, r)
  BY DEF Credit!Call, P!Call, Credit!Idle, P!Idle
<1>3. \A w \in Workers : Credit!Return(w) => P!Return(w)
  BY DEF Credit!Return, P!Return, Credit!Idle, P!Idle, Credit!Returned, P!Returned
<1>4. Credit!Upstream => P!Upstream
  BY DEF Credit!Upstream, Credit!Apply, Credit!Lose, P!Upstream, P!Apply, P!Lose
<1>5. Credit!Crash => P!Crash
  BY DEF Credit!Crash, P!Crash, Credit!Idle, P!Idle
<1> QED
  BY <1>1, <1>2, <1>3, <1>4, <1>5 DEF CreditMove, P!Move, P!Pay, P!vars, creditVars

\* An award that was paid stays paid.
LEMMA AwardKept ==
  ASSUME P!PayoutOK, CreditMove, NEW u, NEW a, AwardOK(u, a)
  PROVE  AwardOK(u, a)'
<1>1. P!Move
  BY MoveIsMove
<1>2. \A k \in Keys : P!Served(k) => P!Served(k)'
  BY <1>1, P!ServedStays, MappedHolds
<1> QED
  BY <1>2 DEF AwardOK, KeysOf, Keys, SlotKey, Ranks

LEMMA AwardsKept ==
  ASSUME AwardsOK, P!PayoutOK, CreditMove, UNCHANGED awards
  PROVE  AwardsOK'
<1>1. ASSUME NEW u \in DOMAIN awards, NEW a, a = awards[u]
      PROVE  AwardOK(u, a)'
  BY <1>1, AwardKept DEF AwardsOK
<1> QED
  BY <1>1 DEF AwardsOK, AwardOK

\* A settlement that takes no step, and whose call goes on at most.
LEMMA SettlerKept ==
  ASSUME P!PayoutOK, CreditMove, NEW s, NEW c, NEW d,
         SettlerOK(s, c),
         c # P!Idle => d # P!Idle /\ d.req = c.req
  PROVE  SettlerOK(s, d)'
<1>1. P!Move
  BY MoveIsMove
<1>2. \A k \in Keys : P!Served(k) => P!Served(k)'
  BY <1>1, P!ServedStays, MappedHolds
<1>3. OnBoard(s) => RowKey(s) \in Keys
  BY SlotKeys DEF OnBoard, RowKey
<1> QED
  BY <1>2, <1>3 DEF SettlerOK, Shape, OnBoard, RowKey, SlotKey

\* A step of one settlement; the others keep their calls.
LEMMA OneSettler ==
  ASSUME P!PayoutOK, CreditMove, SettlersOK, NEW w \in Workers, NEW s,
         settlers' = [settlers EXCEPT ![w] = s],
         \A v \in Workers \ {w} : calls'[v] = calls[v],
         SettlerOK(s, calls[w])'
  PROVE  SettlersOK'
<1>1. settlers' = [v \in Workers |-> settlers'[v]]
  BY DEF SettlersOK
<1>2. ASSUME NEW v \in Workers
      PROVE  SettlerOK(settlers[v], calls[v])'
  <2>1. CASE v = w
    BY <2>1 DEF SettlersOK
  <2>2. CASE v # w
    <3>1. PICK s0, c0 : s0 = settlers[v] /\ c0 = calls[v]
      OBVIOUS
    <3>2. SettlerOK(s0, c0)'
      BY <3>1, SettlerKept DEF SettlersOK
    <3>3. settlers'[v] = s0 /\ calls'[v] = c0
      BY <2>2, <3>1 DEF SettlersOK
    <3> QED
      BY <3>2, <3>3
  <2> QED
    BY <2>1, <2>2
<1> QED
  BY <1>1, <1>2 DEF SettlersOK

\* A settlement moves to a step at which it neither waits for a payment nor holds
\* the result of one.
LEMMA PlainStep ==
  ASSUME AwardInv, NEW w \in Workers, NEW s,
         settlers' = [settlers EXCEPT ![w] = s],
         Shape(s), s # Idle => s.row \in Nat, s.at \notin {"pay", "award"},
         UNCHANGED <<creditVars, awards>>
  PROVE  AwardInv'
<1>1. P!PayoutOK /\ SettlersOK /\ AwardsOK /\ CreditMove
  BY DEF AwardInv, CreditMove
<1>2. P!PayoutOK'
  BY <1>1, MoveIsMove, P!PayoutStep, MappedHolds
<1>3. SettlerOK(s, calls[w])'
  BY DEF SettlerOK, Shape
<1>4. SettlersOK'
  BY <1>1, <1>3, OneSettler DEF creditVars
<1> QED
  BY <1>1, <1>2, <1>4, AwardsKept DEF AwardInv

LEMMA IdleStep ==
  ASSUME AwardInv, NEW w \in Workers, settlers' = [settlers EXCEPT ![w] = Idle],
         UNCHANGED <<creditVars, awards>>
  PROVE  AwardInv'
<1>1. Shape(Idle) /\ Idle.at \notin {"pay", "award"}
  BY DEF Shape, Idle
<1> QED
  BY <1>1, PlainStep

LEMMA GotoStep ==
  ASSUME AwardInv, NEW w \in Workers, NEW at, at \notin {"pay", "award"},
         settlers[w] # Idle, Goto(w, at), UNCHANGED <<creditVars, awards>>
  PROVE  AwardInv'
<1>1. PICK s : s = [settlers[w] EXCEPT !.at = at]
  OBVIOUS
<1>2. settlers[w] = [f \in Fields |-> settlers[w][f]] /\ settlers[w].row \in Nat
  BY DEF AwardInv, SettlersOK, SettlerOK, Shape
<1>3. s = [f \in Fields |-> s[f]] /\ s.at = at /\ s.row = settlers[w].row
  BY <1>1, <1>2 DEF Fields
<1>4. settlers' = [settlers EXCEPT ![w] = s]
  BY <1>1 DEF Goto
<1> QED
  BY <1>2, <1>3, <1>4, PlainStep DEF Shape

\* Neither settlements nor awards change; calls go on.
LEMMA CreditKeeps ==
  ASSUME AwardInv,
         UNCHANGED creditVars \/ Credit!Upstream \/ \E v \in Workers : Credit!WorkerStep(v),
         UNCHANGED <<settlers, awards>>
  PROVE  AwardInv'
<1>1. P!PayoutOK /\ SettlersOK /\ AwardsOK /\ CreditMove
  BY DEF AwardInv, CreditMove
<1>2. P!PayoutOK'
  BY <1>1, MoveIsMove, P!PayoutStep, MappedHolds
<1>3. UNCHANGED P!vars \/ P!Upstream \/ \E v \in Workers : P!WorkerStep(v)
  BY DEF UpKeyOf, creditVars, P!vars, Credit!Upstream, Credit!Apply, Credit!Lose, P!Upstream,
     P!Apply, P!Lose, Credit!WorkerStep, Credit!Send, Credit!Succeed, Credit!Skip, Credit!Fail,
     Credit!End, Credit!Request, Credit!Final, P!WorkerStep, P!Send, P!Succeed, P!Skip,
     P!Fail, P!End, P!Request, P!Final
<1>4. ASSUME NEW w \in Workers
      PROVE  SettlerOK(settlers[w], calls[w])'
  <2>1. PICK s, c, d : s = settlers[w] /\ c = calls[w] /\ d = calls'[w]
    OBVIOUS
  <2>2. c # P!Idle => d # P!Idle /\ d.req = c.req
    BY <1>1, <1>3, <2>1, P!RequestsStay
  <2>3. SettlerOK(s, d)'
    BY <1>1, <2>1, <2>2, SettlerKept DEF SettlersOK
  <2> QED
    BY <2>1, <2>3
<1>5. SettlersOK'
  BY <1>1, <1>4 DEF SettlersOK
<1> QED
  BY <1>1, <1>2, <1>5, AwardsKept DEF AwardInv

-----------------------------------------------------------------------------
(***************************************************************************)
(* Going on to the next row.                                                *)
(***************************************************************************)
LEMMA AdvanceKeeps ==
  ASSUME AwardInv, NEW w \in Workers, NEW s,
         s = [f \in Fields |-> s[f]], s.ranking \in Rankings, s.row \in Nat,
         Advance(w, s), UNCHANGED <<final, applied, sent>>
  PROVE  CreditMove /\ SettlersOK'
<1>1. P!PayoutOK /\ SettlersOK
  BY DEF AwardInv
<1>2. CASE NextRow(s) = 0
  <2>1. PICK t : t = [s EXCEPT !.at = "finish"]
    OBVIOUS
  <2>2. settlers' = [settlers EXCEPT ![w] = t] /\ UNCHANGED creditVars
    BY <1>2, <2>1 DEF Advance, creditVars
  <2>3. t = [f \in Fields |-> t[f]] /\ t.at = "finish" /\ t.row = s.row
    BY <2>1 DEF Fields
  <2>4. CreditMove
    BY <2>2 DEF CreditMove
  <2>5. SettlerOK(t, calls[w])'
    BY <2>3 DEF SettlerOK, Shape
  <2> QED
    BY <1>1, <2>2, <2>4, <2>5, OneSettler DEF creditVars
<1>3. CASE NextRow(s) # 0
  <2>1. PICK n : n = NextRow(s)
    OBVIOUS
  <2>2. n \in DOMAIN s.ranking /\ AmountAt(s, n) # 0
    BY <1>3, <2>1, NextRowIsPayable
  <2>3. PICK t : t = [s EXCEPT !.at = "pay", !.row = n]
    OBVIOUS
  <2>4. /\ t = [f \in Fields |-> t[f]]
        /\ t.at = "pay" /\ t.row = n /\ t.ranking = s.ranking /\ t.rules = s.rules
    BY <2>3 DEF Fields
  <2>5. AmountAt(t, n) = AmountAt(s, n)
    BY <2>4 DEF AmountAt
  <2>6. PICK k, a : k = SlotKey(n, s.ranking[n]) /\ a = AmountAt(s, n)
    OBVIOUS
  <2>7. k \in Keys
    BY <2>2, <2>6, SlotKeys
  <2>8. /\ settlers' = [settlers EXCEPT ![w] = t]
        /\ Credit!Call(w, [key |-> k, delta |-> a])
    BY <1>3, <2>1, <2>3, <2>4, <2>5, <2>6 DEF Advance
  <2>9. CreditMove
    BY <2>2, <2>6, <2>7, <2>8 DEF CreditMove
  <2>10. calls' = [calls EXCEPT ![w] = [pc |-> "running", req |-> [key |-> k, delta |-> a]]]
    BY <2>8 DEF Credit!Call
  <2>11. calls'[w] # P!Idle /\ calls'[w].req.key = k
    BY <1>1, <2>10 DEF P!PayoutOK, P!CallsOK, P!Idle
  <2>12. n \in Nat
    BY <2>2, CampaignAssumption
  <2>13. OnBoard(t) /\ RowKey(t) = k
    BY <2>2, <2>4, <2>6 DEF OnBoard, RowKey
  <2>14. SettlerOK(t, calls[w])'
    BY <2>4, <2>11, <2>12, <2>13 DEF SettlerOK, Shape
  <2>15. \A v \in Workers \ {w} : calls'[v] = calls[v]
    BY <1>1, <2>10 DEF P!PayoutOK, P!CallsOK
  <2> QED
    BY <1>1, <2>8, <2>9, <2>14, <2>15, OneSettler
<1> QED
  BY <1>2, <1>3

LEMMA PlanKeeps ==
  ASSUME AwardInv, NEW w \in Workers, Plan(w)
  PROVE  AwardInv'
<1>1. /\ settlers[w].at = "read"
      /\ UNCHANGED <<final, applied, sent, awards>>
  BY DEF Plan
<1>2. settlers[w] # Idle
  BY <1>1 DEF Idle
<1>3. settlers[w] = [f \in Fields |-> settlers[w][f]] /\ settlers[w].row \in Nat
  BY <1>2 DEF AwardInv, SettlersOK, SettlerOK, Shape
<1>4. PICK ranking, s :
         /\ ranking \in Rankings
         /\ s = [settlers[w] EXCEPT !.ranking = ranking,
                                    !.existing = awards, !.spent = AlreadySpent(awards)]
         /\ \/ Advance(w, s)
            \/ Goto(w, "empty") /\ UNCHANGED calls
  BY DEF Plan
<1>5. s = [f \in Fields |-> s[f]] /\ s.ranking = ranking /\ s.row = settlers[w].row
  BY <1>3, <1>4 DEF Fields
<1>6. CASE Advance(w, s)
  <2>1. CreditMove /\ SettlersOK'
    BY <1>1, <1>3, <1>4, <1>5, <1>6, AdvanceKeeps
  <2> QED
    BY <1>1, <2>1, AwardsKept, MoveIsMove, P!PayoutStep, MappedHolds DEF AwardInv
<1>7. CASE Goto(w, "empty") /\ UNCHANGED calls
  BY <1>1, <1>2, <1>7, GotoStep DEF creditVars
<1> QED
  BY <1>4, <1>6, <1>7

(***************************************************************************)
(* The payment returns: success and skipped are answered only for a slot    *)
(* that is served.                                                          *)
(***************************************************************************)
LEMMA GrantKeeps ==
  ASSUME AwardInv, NEW w \in Workers, GrantEnds(w)
  PROVE  AwardInv'
<1> DEFINE s == settlers[w]
<1>1. /\ s.at = "pay"
      /\ Credit!Return(w) /\ calls[w].pc \in Credit!Returned
      /\ UNCHANGED <<final, applied, sent, awards>>
  BY DEF GrantEnds
<1>2. P!PayoutOK /\ SettlersOK /\ AwardsOK /\ CreditMove
  BY <1>1 DEF AwardInv, CreditMove
<1>3. PICK r, sp, fl : r = ResultOf(calls[w].pc) /\
         settlers' = [settlers EXCEPT ![w] =
            [s EXCEPT !.at = "award", !.result = r, !.spent = sp, !.failed = fl]]
  BY DEF GrantEnds
<1>4. PICK t : t = [s EXCEPT !.at = "award", !.result = r, !.spent = sp, !.failed = fl]
  OBVIOUS
<1>5. /\ s = [f \in Fields |-> s[f]] /\ s.row \in Nat /\ OnBoard(s)
      /\ calls[w] # P!Idle /\ calls[w].req.key = RowKey(s)
  BY <1>1, <1>2 DEF SettlersOK, SettlerOK, Shape, Idle
<1>6. /\ t = [f \in Fields |-> t[f]]
      /\ t.at = "award" /\ t.result = r /\ t.ranking = s.ranking /\ t.row = s.row
  BY <1>4, <1>5 DEF Fields
<1>7. r # "failed" => calls[w].pc \in {"ok", "skipped"}
  BY <1>3 DEF ResultOf
<1>8. r # "failed" => P!Served(RowKey(s))
  BY <1>2, <1>5, <1>7 DEF P!PayoutOK, P!CallsOK, P!CallOK
<1>9. PICK k \in Keys : k = RowKey(s)
  BY <1>5, SlotKeys DEF OnBoard, RowKey
<1>10. r # "failed" => P!Served(k)'
  <2>1. P!Move
    BY <1>2, MoveIsMove
  <2> QED
    BY <1>2, <1>8, <1>9, <2>1, P!ServedStays, MappedHolds
<1>11. RowKey(t) = k /\ OnBoard(t)
  BY <1>5, <1>6, <1>9 DEF RowKey, OnBoard
<1>12. SettlerOK(t, calls[w])'
  BY <1>5, <1>6, <1>10, <1>11 DEF SettlerOK, Shape
<1>13. \A v \in Workers \ {w} : calls'[v] = calls[v]
  BY <1>1, <1>2 DEF Credit!Return, P!PayoutOK, P!CallsOK
<1>14. SettlersOK'
  BY <1>2, <1>3, <1>4, <1>12, <1>13, OneSettler
<1> QED
  BY <1>1, <1>2, <1>14, AwardsKept, MoveIsMove, P!PayoutStep, MappedHolds DEF AwardInv

LEMMA WriteKeeps ==
  ASSUME AwardInv, NEW w \in Workers, WriteAward(w)
  PROVE  AwardInv'
<1> DEFINE s == settlers[w]
           u == s.ranking[s.row]
           row == [status |-> s.result, amount |-> AmountAt(s, s.row)]
<1>1. /\ s.at = "award" /\ Advance(w, s)
      /\ UNCHANGED <<final, applied, sent>>
      /\ \/ UNCHANGED awards
         \/ awards' = [v \in DOMAIN awards \cup {u} |-> IF v = u THEN row ELSE awards[v]]
  BY DEF WriteAward, UserAt
<1>2. /\ s = [f \in Fields |-> s[f]] /\ s.row \in Nat /\ OnBoard(s)
      /\ s.result # "failed" => P!Served(RowKey(s))
  BY <1>1 DEF AwardInv, SettlersOK, SettlerOK, Shape, Idle
<1>3. CreditMove /\ SettlersOK'
  BY <1>1, <1>2, AdvanceKeeps DEF OnBoard
<1>4. AwardOK(u, row)
  <2>1. RowKey(s) \in Keys /\ RowKey(s) \in KeysOf(u)
    BY <1>2, SlotKeys DEF OnBoard, RowKey
  <2> QED
    BY <1>2, <2>1 DEF AwardOK
<1>5. AwardsOK'
  <2>1. CASE UNCHANGED awards
    BY <1>3, <2>1, AwardsKept DEF AwardInv
  <2>2. CASE awards' = [v \in DOMAIN awards \cup {u} |-> IF v = u THEN row ELSE awards[v]]
    <3>1. PICK u0, row0 : u0 = u /\ row0 = row
      OBVIOUS
    <3>2. AwardOK(u0, row0)'
      BY <1>3, <1>4, <3>1, AwardKept DEF AwardInv
    <3>3. ASSUME NEW v \in DOMAIN awards, NEW a, a = awards[v]
          PROVE  AwardOK(v, a)'
      BY <1>3, <3>3, AwardKept DEF AwardInv, AwardsOK
    <3>4. awards' = [v \in DOMAIN awards \cup {u0} |-> IF v = u0 THEN row0 ELSE awards[v]]
      BY <2>2, <3>1
    <3> QED
      BY <3>2, <3>3, <3>4 DEF AwardsOK, AwardOK
  <2> QED
    BY <1>1, <2>1, <2>2
<1> QED
  BY <1>3, <1>5, MoveIsMove, P!PayoutStep, MappedHolds DEF AwardInv

-----------------------------------------------------------------------------
(***************************************************************************)
(* The other steps.                                                         *)
(***************************************************************************)
LEMMA BeginKeeps ==
  ASSUME AwardInv, NEW w \in Workers, BeginManual(w) \/ BeginScheduled(w)
  PROVE  AwardInv'
<1>1. PICK trigger : settlers' = [settlers EXCEPT ![w] = Settler(trigger)]
  BY DEF BeginManual, BeginScheduled
<1>2. PICK s : s = Settler(trigger)
  OBVIOUS
<1>3. s = [f \in Fields |-> s[f]] /\ s.at = "ensure" /\ s.row = 0
  BY <1>2 DEF Settler, Fields
<1>4. UNCHANGED <<creditVars, awards>>
  BY DEF BeginManual, BeginScheduled
<1> QED
  BY <1>1, <1>2, <1>3, <1>4, PlainStep DEF Shape

LEMMA SettlerKeeps ==
  ASSUME AwardInv, NEW w \in Workers, SettlerStep(w)
  PROVE  AwardInv'
<1> USE DEF EndSettlement
<1>1. CASE EnsurePeriod(w)
  <2>1. settlers[w] # Idle
    BY <1>1 DEF EnsurePeriod, Idle
  <2> QED
    BY <1>1, <2>1, IdleStep, GotoStep DEF EnsurePeriod
<1>2. CASE MarkRunning(w)
  <2>1. settlers[w] # Idle
    BY <1>2 DEF MarkRunning, Idle
  <2> QED
    BY <1>2, <2>1, GotoStep DEF MarkRunning
<1>3. CASE ReadFails(w)
  <2>1. settlers[w] # Idle
    BY <1>3 DEF ReadFails, Idle
  <2> QED
    BY <1>3, <2>1, GotoStep DEF ReadFails
<1>4. CASE MarkFailure(w) \/ CloseCampaign(w) \/ SettlementFails(w)
  BY <1>4, IdleStep DEF MarkFailure, CloseCampaign, SettlementFails
<1>5. CASE Finish(w)
  <2>1. settlers[w] # Idle
    BY <1>5 DEF Finish, Idle
  <2> QED
    BY <1>5, <2>1, IdleStep, GotoStep DEF Finish
<1>6. CASE CreditStep(w)
  <2>1. Credit!WorkerStep(w) /\ UNCHANGED <<settlers, awards>>
    BY <1>6 DEF CreditStep, Credit!WorkerStep
  <2> QED
    BY <2>1, CreditKeeps
<1> QED
  BY <1>1, <1>2, <1>3, <1>4, <1>5, <1>6, PlanKeeps, GrantKeeps, WriteKeeps DEF SettlerStep

LEMMA AwardStep ==
  ASSUME AwardInv, [Next]_vars
  PROVE  AwardInv'
<1>1. CASE Admin
  <2>1. UNCHANGED <<creditVars, settlers, awards>>
    BY <1>1 DEF Admin, Create, Edit, BeginCancel, Cancel, DeleteIfNoAwards
  <2> QED
    BY <2>1, CreditKeeps
<1>2. CASE Upstream
  BY <1>2, CreditKeeps DEF Upstream
<1>3. CASE Age
  BY <1>3, CreditKeeps DEF Age
<1>4. CASE Crash
  <2>1. Credit!Crash /\ settlers' = [w \in Workers |-> Idle] /\ UNCHANGED awards
    BY <1>4 DEF Crash
  <2>2. CreditMove
    BY <2>1 DEF CreditMove
  <2>3. SettlersOK'
    BY <2>1 DEF SettlersOK, SettlerOK, Shape, Idle
  <2> QED
    BY <2>1, <2>2, <2>3, AwardsKept, MoveIsMove, P!PayoutStep, MappedHolds DEF AwardInv
<1>5. CASE UNCHANGED vars
  BY <1>5, CreditKeeps DEF vars
<1> QED
  BY <1>1, <1>2, <1>3, <1>4, <1>5, BeginKeeps, SettlerKeeps DEF Next

\* An award row of a campaign that says success or skipped (handler/campaign.go
\* writes it from what Grant returned) has a ledger row and, unless the user's
\* number reads like a hit, money behind it, in every settlement, overlapping and
\* interrupted ones included.
THEOREM AwardsAreAlwaysPaid == Spec => []AwardsArePaid
<1>1. Init => AwardInv
  BY AwardInit
<1>2. AwardInv /\ [Next]_vars => AwardInv'
  BY AwardStep
<1>3. AwardInv => AwardsArePaid
  <2>1. SUFFICES ASSUME AwardInv, NEW u \in DOMAIN awards, awards[u].status # "failed"
                 PROVE  \E k \in KeysOf(u) : Credit!Final(k) /\ (applied[k] # 0 \/ u \in Lookalikes)
    BY DEF AwardsArePaid
  <2>2. PICK k \in KeysOf(u) : k \in Keys /\ P!Served(k)
    BY <2>1 DEF AwardInv, AwardsOK, AwardOK
  <2>3. k[2] = u
    BY <2>2 DEF KeysOf, SlotKey
  <2> QED
    BY <2>2, <2>3 DEF P!Served, P!Moved, P!Final, Credit!Final, UpKeyOf
<1> QED
  BY <1>1, <1>2, <1>3, PTL DEF Spec

-----------------------------------------------------------------------------
(***************************************************************************)
(* One rank for each user.  A user who was part of no failure is not owed   *)
(* to anybody's memory: while no settlement pays the user, either nothing   *)
(* was paid and nothing is under way, or there is an award and the money of *)
(* one slot.  A settlement that pays knows every award of the users it has  *)
(* still to come to, since nobody else pays; so it comes to a user only if  *)
(* nothing was paid.                                                        *)
(***************************************************************************)
\* Nothing has moved under these slots or was booked, and nothing will unless
\* somebody calls.
Rests(K) == \A k \in K : applied[k] = 0 /\ P!Calm(k) /\ ~P!Final(k)

Marked(list, u) == u \in DOMAIN list /\ list[u].status \in {"success", "skipped"}

Pays(s, u) == s.at \in {"pay", "award"} /\ s.ranking[s.row] = u

Settled(list, u) ==
    \/ Rests(KeysOf(u))
    \/ Marked(list, u) /\ \E k \in KeysOf(u) : Rests(KeysOf(u) \ {k})

\* Of the rows after its own a settlement has not read less than is written.
Knows(s, list, u) ==
    \A i \in DOMAIN s.ranking : i > s.row /\ s.ranking[i] = u /\ Marked(list, u) => Marked(s.existing, u)

PlanOK(s, list, u) ==
    /\ s.at \in {"pay", "award"} => Knows(s, list, u)
    /\ Pays(s, u) => Rests(KeysOf(u) \ {RowKey(s)})
    /\ Pays(s, u) /\ s.at = "award" => s.result \in {"success", "skipped"}

UserOK(u) ==
    /\ \A v, w \in Workers : Paying(v) /\ Paying(w) => v = w
    /\ \A w \in Workers : PlanOK(settlers[w], awards, u)
    /\ (\A w \in Workers : ~Pays(settlers[w], u)) => Settled(awards, u)

CallsPlaced == \A w \in Workers : calls[w] # P!Idle => settlers[w].at = "pay"

RankInv ==
    /\ AwardInv
    /\ CallsPlaced
    /\ \A u \in Users \ troubled : UserOK(u)

-----------------------------------------------------------------------------
(***************************************************************************)
(* A call under a slot of a user is that of the settlement that pays it.    *)
(***************************************************************************)
LEMMA CallsAreRows ==
  ASSUME RankInv, NEW w \in Workers, calls[w] # P!Idle, NEW u \in Users,
         calls[w].req.key \in KeysOf(u)
  PROVE  Pays(settlers[w], u) /\ calls[w].req.key = RowKey(settlers[w])
<1>1. settlers[w].at = "pay"
  BY DEF RankInv, CallsPlaced
<1>2. calls[w].req.key = RowKey(settlers[w])
  BY <1>1 DEF RankInv, AwardInv, SettlersOK, SettlerOK
<1> QED
  BY <1>1, <1>2 DEF RowKey, KeysOf, SlotKey, Pays

\* Slots that rest go on resting as long as no call is under them.
LEMMA RestStays ==
  ASSUME AwardInv, CreditMove, NEW K, K \subseteq Keys, Rests(K),
         \A w \in Workers : calls[w] # P!Idle => calls[w].req.key \notin K
  PROVE  Rests(K)'
<1>1. P!PayoutOK /\ P!Move
  BY MoveIsMove DEF AwardInv
<1>2. ASSUME NEW k \in K
      PROVE  applied'[k] = 0 /\ P!Calm(k)' /\ ~P!Final(k)'
  <2>1. k \in Keys /\ applied[k] = 0 /\ P!Calm(k) /\ ~P!Final(k)
    BY DEF Rests
  <2>2. \A w \in Workers : ~P!Under(w, k)
    BY <1>1 DEF P!Under, P!PayoutOK, P!CallsOK, P!CallOK, UpKeyOf
  <2>3. ~P!Final(k)'
    BY <1>1, <2>1, P!FinalBy
  <2> QED
    BY <1>1, <2>1, <2>2, <2>3, MappedHolds, P!CalmStays
<1> QED
  BY <1>2 DEF Rests

LEMMA KeysOfAreKeys == ASSUME NEW u \in Users PROVE KeysOf(u) \subseteq Keys
  BY DEF KeysOf, Keys

LEMMA SettledStays ==
  ASSUME RankInv, CreditMove, NEW u \in Users, NEW list, Settled(list, u),
         \A w \in Workers : ~Pays(settlers[w], u)
  PROVE  Settled(list, u)'
<1>1. AwardInv
  BY DEF RankInv
<1>2. \A w \in Workers : calls[w] # P!Idle => calls[w].req.key \notin KeysOf(u)
  BY CallsAreRows
<1>3. CASE Rests(KeysOf(u))
  BY <1>1, <1>2, <1>3, RestStays, KeysOfAreKeys DEF Settled
<1>4. ASSUME Marked(list, u), NEW k \in KeysOf(u), Rests(KeysOf(u) \ {k})
      PROVE  Settled(list, u)'
  <2>1. Rests(KeysOf(u) \ {k})'
    BY <1>1, <1>2, <1>4, RestStays, KeysOfAreKeys
  <2> QED
    BY <1>4, <2>1 DEF Settled, Marked
<1> QED
  BY <1>3, <1>4 DEF Settled

(***************************************************************************)
(* The service goes on; settlements and awards stay.                        *)
(***************************************************************************)
LEMMA UserKept ==
  ASSUME RankInv, CreditMove, NEW u \in Users, UserOK(u), UNCHANGED <<settlers, awards>>
  PROVE  UserOK(u)'
<1>1. \A v, w \in Workers : (Paying(v) /\ Paying(w))' => v = w
  BY DEF UserOK, Paying
<1>2. ASSUME NEW w \in Workers
      PROVE  PlanOK(settlers[w], awards, u)'
  <2>1. PICK s, list : s = settlers[w] /\ list = awards
    OBVIOUS
  <2>2. PlanOK(s, list, u)
    BY <2>1 DEF UserOK
  <2>3. Pays(s, u) => Rests(KeysOf(u) \ {RowKey(s)})'
    <3>1. SUFFICES ASSUME Pays(s, u)
                   PROVE  Rests(KeysOf(u) \ {RowKey(s)})'
      OBVIOUS
    <3>2. PICK K : K = KeysOf(u) \ {RowKey(s)}
      OBVIOUS
    <3>3. ASSUME NEW v \in Workers, calls[v] # P!Idle, calls[v].req.key \in KeysOf(u)
          PROVE  calls[v].req.key = RowKey(s)
      <4>1. Pays(settlers[v], u) /\ calls[v].req.key = RowKey(settlers[v])
        BY <3>3, CallsAreRows
      <4>2. v = w
        BY <2>1, <3>1, <4>1 DEF UserOK, Paying, Pays
      <4> QED
        BY <2>1, <4>1, <4>2
    <3>4. K \subseteq Keys /\ Rests(K)
      BY <2>2, <3>1, <3>2, KeysOfAreKeys DEF PlanOK
    <3>5. Rests(K)'
      BY <3>2, <3>3, <3>4, RestStays DEF RankInv
    <3> QED
      BY <3>2, <3>5
  <2>4. PlanOK(s, list, u)'
    BY <2>2, <2>3 DEF PlanOK, Knows, Marked, Pays, RowKey, SlotKey
  <2> QED
    BY <2>1, <2>4
<1>3. (\A w \in Workers : ~Pays(settlers[w], u)') => Settled(awards, u)'
  <2>1. PICK list : list = awards
    OBVIOUS
  <2>2. SUFFICES ASSUME \A w \in Workers : ~Pays(settlers[w], u)'
                 PROVE  Settled(list, u)'
    BY <2>1
  <2>3. \A w \in Workers : ~Pays(settlers[w], u)
    BY <2>2
  <2>4. Settled(list, u)
    BY <2>1, <2>3 DEF UserOK
  <2> QED
    BY <2>3, <2>4, SettledStays
<1> QED
  BY <1>1, <1>2, <1>3 DEF UserOK

(***************************************************************************)
(* One settlement takes a step that moves no money.                         *)
(***************************************************************************)
PayingAt(s) == s.at \in {"read", "pay", "award", "finish"}

LEMMA OneUserStep ==
  ASSUME RankInv, NEW u \in Users, UserOK(u), NEW w \in Workers, NEW t, NEW list,
         settlers' = [settlers EXCEPT ![w] = t], awards' = list, UNCHANGED <<final, applied, sent>>,
         list = awards \/ Paying(w),
         PayingAt(t) => Paying(w) \/ \A v \in Workers : ~Paying(v),
         PlanOK(t, list, u),
         ~Pays(t, u) /\ (\A v \in Workers \ {w} : ~Pays(settlers[v], u)) => Settled(list, u)
  PROVE  UserOK(u)'
<1>1. /\ settlers'[w] = t
      /\ \A v \in Workers \ {w} : settlers'[v] = settlers[v]
  BY DEF RankInv, AwardInv, SettlersOK
<1>2. \A K : Rests(K) => Rests(K)'
  BY DEF Rests, P!Calm, P!Final
<1>3. \A v, x \in Workers : (Paying(v) /\ Paying(x))' => v = x
  <2>1. \A v \in Workers \ {w} : Paying(v)' => Paying(v)
    BY <1>1 DEF Paying
  <2>2. Paying(w)' => PayingAt(t)
    BY <1>1 DEF Paying, PayingAt
  <2> QED
    BY <2>1, <2>2 DEF UserOK
<1>4. ASSUME NEW v \in Workers
      PROVE  PlanOK(settlers[v], awards, u)'
  <2>1. PICK s : s = settlers'[v]
    OBVIOUS
  <2>2. PlanOK(s, list, u)
    <3>1. CASE v = w
      BY <1>1, <2>1, <3>1
    <3>2. CASE v # w /\ list = awards
      BY <1>1, <2>1, <3>2 DEF UserOK
    <3>3. CASE v # w /\ Paying(w)
      <4>1. s = settlers[v] /\ ~Paying(v)
        BY <1>1, <2>1, <3>3 DEF UserOK
      <4> QED
        BY <4>1 DEF Paying, PlanOK, Pays
    <3> QED
      BY <3>1, <3>2, <3>3
  <2>3. PlanOK(s, list, u)'
    BY <1>2, <2>2 DEF PlanOK, Knows, Marked, Pays, RowKey, SlotKey
  <2> QED
    BY <2>1, <2>3
<1>5. (\A v \in Workers : ~Pays(settlers[v], u)') => Settled(awards, u)'
  <2>1. SUFFICES ASSUME \A v \in Workers : ~Pays(settlers'[v], u)
                 PROVE  Settled(list, u)'
    BY DEF Pays
  <2>2. Settled(list, u)
    BY <1>1, <2>1
  <2> QED
    BY <1>2, <2>2 DEF Settled, Marked
<1> QED
  BY <1>3, <1>4, <1>5 DEF UserOK

\* A step outside the payments.
LEMMA QuietStep ==
  ASSUME RankInv, NEW u \in Users, UserOK(u), NEW w \in Workers, NEW t,
         settlers' = [settlers EXCEPT ![w] = t], UNCHANGED <<creditVars, awards>>,
         settlers[w].at \notin {"pay", "award"}, t.at \notin {"pay", "award"},
         PayingAt(t) => Paying(w) \/ \A v \in Workers : ~Paying(v)
  PROVE  UserOK(u)'
<1>1. PICK list : list = awards
  OBVIOUS
<1>2. PlanOK(t, list, u)
  BY DEF PlanOK, Pays
<1>3. (\A v \in Workers \ {w} : ~Pays(settlers[v], u)) => Settled(list, u)
  BY <1>1 DEF UserOK, Pays
<1> QED
  BY <1>1, <1>2, <1>3, OneUserStep DEF creditVars

\* Going on to the next row: it is paid only if nothing was.
LEMMA AdvanceFor ==
  ASSUME RankInv, NEW u \in Users, UserOK(u), NEW w \in Workers, Paying(w),
         NEW s, NEW list,
         s = [f \in Fields |-> s[f]], s.ranking \in Rankings, s.row \in Nat,
         Advance(w, s), awards' = list, UNCHANGED <<final, applied, sent>>,
         Knows(s, list, u), Settled(list, u)
  PROVE  UserOK(u)'
<1>1. CASE NextRow(s) = 0
  <2>1. PICK t : t = [s EXCEPT !.at = "finish"]
    OBVIOUS
  <2>2. settlers' = [settlers EXCEPT ![w] = t]
    BY <1>1, <2>1 DEF Advance
  <2>3. t.at = "finish"
    BY <2>1 DEF Fields
  <2>4. PlanOK(t, list, u)
    BY <2>3 DEF PlanOK, Pays
  <2> QED
    BY <2>2, <2>4, OneUserStep
<1>2. CASE NextRow(s) # 0
  <2>1. PICK n : n = NextRow(s)
    OBVIOUS
  <2>2. PICK t : t = [s EXCEPT !.at = "pay", !.row = n]
    OBVIOUS
  <2>3. settlers' = [settlers EXCEPT ![w] = t]
    BY <1>2, <2>1, <2>2 DEF Advance
  <2>4. t.at = "pay" /\ t.row = n /\ t.ranking = s.ranking /\ t.existing = s.existing
    BY <2>2 DEF Fields
  <2>5. n \in DOMAIN s.ranking /\ n \in Nat /\ s.row < n /\ ~Awarded(s, n)
    BY <1>2, <2>1, NextRowIsPayable
  <2>6. Knows(t, list, u)
    <3>1. DOMAIN s.ranking \subseteq Nat
      BY CampaignAssumption
    <3> QED
      BY <2>4, <2>5, <3>1 DEF Knows
  <2>7. Pays(t, u) => Rests(KeysOf(u))
    BY <2>4, <2>5 DEF Pays, Settled, Knows, Awarded, Marked
  <2>8. Pays(t, u) => Rests(KeysOf(u) \ {RowKey(t)})
    BY <2>7 DEF Rests
  <2>9. PlanOK(t, list, u)
    BY <2>4, <2>6, <2>8 DEF PlanOK
  <2> QED
    BY <2>3, <2>9, OneUserStep
<1> QED
  BY <1>1, <1>2

LEMMA PlanFor ==
  ASSUME RankInv, NEW u \in Users, UserOK(u), NEW w \in Workers, Plan(w)
  PROVE  UserOK(u)'
<1>1. settlers[w].at = "read" /\ UNCHANGED <<final, applied, sent, awards>>
  BY DEF Plan
<1>2. settlers[w] = [f \in Fields |-> settlers[w][f]] /\ settlers[w].row \in Nat
  BY <1>1 DEF RankInv, AwardInv, SettlersOK, SettlerOK, Shape, Idle
<1>3. PICK ranking, list, s :
         /\ ranking \in Rankings /\ list = awards
         /\ s = [settlers[w] EXCEPT !.ranking = ranking,
                                    !.existing = list, !.spent = AlreadySpent(awards)]
         /\ \/ Advance(w, s)
            \/ Goto(w, "empty") /\ UNCHANGED calls
  BY DEF Plan
<1>4. /\ s = [f \in Fields |-> s[f]]
      /\ s.ranking = ranking /\ s.row = settlers[w].row /\ s.existing = list
  BY <1>2, <1>3 DEF Fields
<1>5. CASE Advance(w, s)
  <2>1. Paying(w) /\ ~Pays(settlers[w], u)
    BY <1>1 DEF Paying, Pays
  <2>2. Settled(list, u)
    BY <1>3, <2>1 DEF UserOK, Paying, Pays
  <2>3. Knows(s, list, u)
    BY <1>4 DEF Knows
  <2> QED
    BY <1>1, <1>2, <1>3, <1>4, <1>5, <2>1, <2>2, <2>3, AdvanceFor
<1>6. CASE Goto(w, "empty") /\ UNCHANGED calls
  <2>1. PICK t : t = [settlers[w] EXCEPT !.at = "empty"]
    OBVIOUS
  <2>2. settlers' = [settlers EXCEPT ![w] = t] /\ t.at = "empty"
    BY <1>2, <1>6, <2>1 DEF Goto, Fields
  <2> QED
    BY <1>1, <1>6, <2>2, QuietStep DEF PayingAt, creditVars
<1> QED
  BY <1>3, <1>5, <1>6

LEMMA GrantFor ==
  ASSUME RankInv, NEW u \in Users \ troubled', UserOK(u), NEW w \in Workers, GrantEnds(w)
  PROVE  UserOK(u)'
<1> DEFINE s == settlers[w]
<1>1. /\ s.at = "pay" /\ calls[w].pc \in Credit!Returned
      /\ UNCHANGED <<final, applied, sent, awards>>
  BY DEF GrantEnds
<1>2. PICK r, sp, fl, t :
         /\ r = ResultOf(calls[w].pc)
         /\ t = [s EXCEPT !.at = "award", !.result = r, !.spent = sp, !.failed = fl]
         /\ settlers' = [settlers EXCEPT ![w] = t]
  BY DEF GrantEnds
<1>3. s = [f \in Fields |-> s[f]]
  BY <1>1 DEF RankInv, AwardInv, SettlersOK, SettlerOK, Shape, Idle
<1>4. /\ t.at = "award" /\ t.result = r /\ t.row = s.row
      /\ t.ranking = s.ranking /\ t.existing = s.existing
  BY <1>2, <1>3 DEF Fields
<1>5. Pays(t, u) <=> Pays(s, u)
  BY <1>1, <1>4 DEF Pays
<1>6. Pays(s, u) => r \in {"success", "skipped"}
  <2>1. Pays(s, u) => calls[w].pc # "error"
    BY DEF GrantEnds, UserAt, Pays
  <2> QED
    BY <1>1, <1>2, <2>1 DEF ResultOf, Credit!Returned
<1>7. PICK list : list = awards
  OBVIOUS
<1>8. PlanOK(s, list, u)
  BY <1>7 DEF UserOK
<1>9. PlanOK(t, list, u)
  BY <1>1, <1>4, <1>5, <1>6, <1>8 DEF PlanOK, Knows, RowKey
<1>10. Paying(w)
  BY <1>1 DEF Paying
<1>11. ~Pays(t, u) /\ (\A v \in Workers \ {w} : ~Pays(settlers[v], u)) => Settled(list, u)
  BY <1>5, <1>7 DEF UserOK
<1> QED
  BY <1>1, <1>2, <1>7, <1>9, <1>10, <1>11, OneUserStep

LEMMA WriteFor ==
  ASSUME RankInv, NEW u \in Users \ troubled', UserOK(u), NEW w \in Workers, WriteAward(w)
  PROVE  UserOK(u)'
<1> DEFINE s == settlers[w]
           row == [status |-> s.result, amount |-> AmountAt(s, s.row)]
<1>1. s.at = "award" /\ Advance(w, s) /\ UNCHANGED <<final, applied, sent>>
  BY DEF WriteAward
<1>2. /\ s = [f \in Fields |-> s[f]] /\ s.row \in Nat /\ OnBoard(s)
      /\ s.result # "failed" => P!Served(RowKey(s))
  BY <1>1 DEF RankInv, AwardInv, SettlersOK, SettlerOK, Shape, Idle
<1>3. Paying(w) /\ \A v \in Workers \ {w} : ~Paying(v)
  BY <1>1 DEF Paying, UserOK
<1>4. PlanOK(s, awards, u) /\ Knows(s, awards, u)
  BY <1>1 DEF UserOK, PlanOK
<1>5. PICK list : list = awards'
  OBVIOUS
<1>6. CASE s.ranking[s.row] = u
  <2>1. list = [v \in DOMAIN awards \cup {u} |-> IF v = u THEN row ELSE awards[v]]
    BY <1>5, <1>6 DEF WriteAward, UserAt
  <2>2. Pays(s, u)
    BY <1>1, <1>6 DEF Pays
  <2>3. Marked(list, u)
    BY <1>1, <1>4, <2>1, <2>2 DEF PlanOK, Marked
  <2>4. RowKey(s) \in KeysOf(u)
    BY <1>2, <1>6, SlotKeys DEF OnBoard, RowKey
  <2>5. Settled(list, u)
    BY <1>4, <2>2, <2>3, <2>4 DEF PlanOK, Settled
  <2>6. Knows(s, list, u)
    <3>1. \A i \in DOMAIN s.ranking : s.ranking[i] = u => i = s.row
      BY <1>2, <1>6, RankedOnce DEF OnBoard
    <3> QED
      BY <1>2, <3>1 DEF Knows
  <2> QED
    BY <1>1, <1>2, <1>3, <1>5, <2>5, <2>6, AdvanceFor DEF OnBoard
<1>7. CASE s.ranking[s.row] # u
  <2>1. Marked(list, u) <=> Marked(awards, u)
    <3>1. CASE list = awards
      BY <3>1
    <3>2. CASE list = [v \in DOMAIN awards \cup {s.ranking[s.row]} |->
                          IF v = s.ranking[s.row] THEN row ELSE awards[v]]
      BY <1>7, <3>2 DEF Marked
    <3> QED
      BY <1>5, <3>1, <3>2 DEF WriteAward, UserAt
  <2>2. \A v \in Workers : ~Pays(settlers[v], u)
    BY <1>3, <1>7 DEF Pays, Paying
  <2>3. Settled(list, u)
    BY <2>1, <2>2 DEF UserOK, Settled
  <2>4. Knows(s, list, u)
    BY <1>4, <2>1 DEF Knows
  <2> QED
    BY <1>1, <1>2, <1>3, <1>5, <2>3, <2>4, AdvanceFor DEF OnBoard
<1> QED
  BY <1>6, <1>7

-----------------------------------------------------------------------------
(***************************************************************************)
(* The steps.                                                               *)
(***************************************************************************)
LEMMA TroubleStays ==
  ASSUME [Next]_vars, NEW u \in Users \ troubled'
  PROVE  u \notin troubled
<1>1. UNCHANGED troubled \/ \E T : troubled' = Users \/ troubled' = troubled \cup T
  <2>1. CASE Admin
    BY <2>1 DEF Admin, Create, Edit, BeginCancel, Cancel, DeleteIfNoAwards, historyVars
  <2>2. ASSUME NEW w \in Workers, BeginManual(w) \/ BeginScheduled(w)
        PROVE  UNCHANGED troubled
    BY <2>2 DEF BeginManual, BeginScheduled
  <2>3. ASSUME NEW w \in Workers, SettlerStep(w)
        PROVE  UNCHANGED troubled \/ \E T : troubled' = Users \/ troubled' = troubled \cup T
    BY <2>3 DEF SettlerStep, EnsurePeriod, MarkRunning, Plan, ReadFails, MarkFailure, GrantEnds,
       WriteAward, Finish, CloseCampaign, SettlementFails, CreditStep, historyVars
  <2>4. CASE Upstream \/ Age \/ Crash \/ UNCHANGED vars
    BY <2>4 DEF Upstream, Age, Crash, vars, historyVars
  <2> QED
    BY <2>1, <2>2, <2>3, <2>4 DEF Next
<1> QED
  BY <1>1

\* Calls stay where they are placed.
LEMMA OnePlaced ==
  ASSUME RankInv, NEW w \in Workers, NEW t, settlers' = [settlers EXCEPT ![w] = t],
         \A v \in Workers \ {w} : calls'[v] = calls[v],
         calls'[w] # P!Idle => t.at = "pay"
  PROVE  CallsPlaced'
<1>1. settlers'[w] = t /\ \A v \in Workers \ {w} : settlers'[v] = settlers[v]
  BY DEF RankInv, AwardInv, SettlersOK
<1> QED
  BY <1>1 DEF CallsPlaced, RankInv, P!Idle

LEMMA AdvancePlaces ==
  ASSUME RankInv, NEW w \in Workers, NEW s, s = [f \in Fields |-> s[f]],
         settlers[w].at # "pay", Advance(w, s)
  PROVE  CallsPlaced'
<1>1. calls = [v \in Workers |-> calls[v]]
  BY DEF RankInv, AwardInv, P!PayoutOK, P!CallsOK
<1>2. calls[w] = P!Idle
  BY DEF RankInv, CallsPlaced
<1>3. CASE NextRow(s) = 0
  <2>1. PICK t : t = [s EXCEPT !.at = "finish"] /\ settlers' = [settlers EXCEPT ![w] = t]
    BY <1>3 DEF Advance
  <2> QED
    BY <1>2, <1>3, <2>1, OnePlaced DEF Advance
<1>4. CASE NextRow(s) # 0
  <2>1. PICK t : /\ t = [s EXCEPT !.at = "pay", !.row = NextRow(s)]
                 /\ settlers' = [settlers EXCEPT ![w] = t]
    BY <1>4 DEF Advance
  <2>2. t.at = "pay"
    BY <2>1 DEF Fields
  <2>3. \A v \in Workers \ {w} : calls'[v] = calls[v]
    BY <1>1, <1>4 DEF Advance, Credit!Call
  <2> QED
    BY <2>1, <2>2, <2>3, OnePlaced
<1> QED
  BY <1>3, <1>4

\* What all steps outside the payments have in common.
LEMMA QuietKeeps ==
  ASSUME RankInv, [Next]_vars, NEW w \in Workers, NEW t,
         settlers' = [settlers EXCEPT ![w] = t], UNCHANGED <<creditVars, awards>>,
         settlers[w].at \notin {"pay", "award"}, t.at \notin {"pay", "award"},
         PayingAt(t) => Paying(w) \/ Users \subseteq troubled' \/ \A v \in Workers : ~Paying(v)
  PROVE  RankInv'
<1>1. AwardInv'
  BY AwardStep DEF RankInv
<1>2. calls'[w] = P!Idle /\ \A v \in Workers : calls'[v] = calls[v]
  BY DEF RankInv, CallsPlaced, creditVars
<1>3. CallsPlaced'
  BY <1>2, OnePlaced
<1>4. ASSUME NEW u \in Users \ troubled'
      PROVE  UserOK(u)'
  BY <1>4, TroubleStays, QuietStep DEF RankInv
<1> QED
  BY <1>1, <1>3, <1>4 DEF RankInv

\* The service goes on, and nothing else changes.
LEMMA ServiceKeeps ==
  ASSUME RankInv, [Next]_vars, UNCHANGED <<settlers, awards>>,
         UNCHANGED creditVars \/ Credit!Upstream \/ \E v \in Workers : Credit!WorkerStep(v)
  PROVE  RankInv'
<1>1. AwardInv'
  BY AwardStep DEF RankInv
<1>2. CreditMove
  BY DEF CreditMove
<1>3. \A w \in Workers : calls[w] = P!Idle => calls'[w] = P!Idle
  <2>1. ASSUME NEW v \in Workers, NEW pc, Credit!End(v, pc)
        PROVE  \A w \in Workers : calls[w] = P!Idle => calls'[w] = P!Idle
    <3>1. PICK c : calls' = [calls EXCEPT ![v] = c]
      BY <2>1 DEF Credit!End
    <3>2. calls[v] # P!Idle
      BY <2>1 DEF Credit!End, P!Idle
    <3> QED
      BY <3>1, <3>2 DEF RankInv, AwardInv, P!PayoutOK, P!CallsOK
  <2> QED
    BY <2>1 DEF creditVars, Credit!Upstream, Credit!Apply, Credit!Lose, Credit!WorkerStep,
       Credit!Send, Credit!Succeed, Credit!Skip, Credit!Fail
<1>4. CallsPlaced'
  BY <1>3 DEF CallsPlaced, RankInv
<1>5. ASSUME NEW u \in Users \ troubled'
      PROVE  UserOK(u)'
  BY <1>2, <1>5, TroubleStays, UserKept DEF RankInv
<1> QED
  BY <1>1, <1>4, <1>5 DEF RankInv

LEMMA RankInit == ASSUME Init PROVE RankInv
<1>1. AwardInv
  BY AwardInit
<1>2. CallsPlaced
  BY DEF Init, Credit!Init, CallsPlaced, Credit!Idle, P!Idle
<1>3. ASSUME NEW u \in Users
      PROVE  UserOK(u)
  <2>1. \A w \in Workers : settlers[w].at = "idle"
    BY DEF Init, Idle
  <2>2. Rests(KeysOf(u))
    BY KeysOfAreKeys DEF Init, Credit!Init, Rests, P!Calm, P!Final
  <2> QED
    BY <2>1, <2>2 DEF UserOK, Paying, PlanOK, Pays, Settled
<1> QED
  BY <1>1, <1>2, <1>3 DEF RankInv

LEMMA CrashKeeps ==
  ASSUME RankInv, [Next]_vars, Crash
  PROVE  RankInv'
<1>1. /\ settlers' = [w \in Workers |-> Idle] /\ UNCHANGED awards
      /\ calls' = [w \in Workers |-> P!Idle] /\ UNCHANGED <<final, applied, sent>>
  BY DEF Crash, Credit!Crash, Credit!Idle, P!Idle
<1>2. AwardInv'
  BY AwardStep DEF RankInv
<1>3. CallsPlaced'
  BY <1>1 DEF CallsPlaced, P!Idle
<1>4. ASSUME NEW u \in Users \ troubled'
      PROVE  UserOK(u)'
  <2>1. UserOK(u)
    BY <1>4, TroubleStays DEF RankInv
  <2>2. \A w \in Workers : ~Pays(settlers[w], u)
    BY <1>4 DEF Crash, UserAt, Pays
  <2>3. PICK list : list = awards
    OBVIOUS
  <2>4. Settled(list, u)
    BY <2>1, <2>2, <2>3 DEF UserOK
  <2>5. Settled(list, u)'
    BY <1>1, <2>4 DEF Settled, Marked, Rests, P!Calm, P!Final
  <2>6. \A w \in Workers : settlers'[w].at = "idle"
    BY <1>1 DEF Idle
  <2> QED
    BY <1>1, <2>3, <2>5, <2>6 DEF UserOK, Paying, PlanOK, Pays
<1> QED
  BY <1>2, <1>3, <1>4 DEF RankInv

LEMMA RankSettler ==
  ASSUME RankInv, [Next]_vars, NEW w \in Workers, SettlerStep(w)
  PROVE  RankInv'
<1> USE DEF EndSettlement
<1> DEFINE s == settlers[w]
<1>1. s # Idle => s = [f \in Fields |-> s[f]]
  BY DEF RankInv, AwardInv, SettlersOK, SettlerOK, Shape
<1>2. AwardInv'
  BY AwardStep DEF RankInv
<1>3. ASSUME s.at \notin {"pay", "award"}, s # Idle, UNCHANGED <<creditVars, awards>>,
             NEW at, Goto(w, at), at \notin {"pay", "award"},
             at \in {"read", "finish"} =>
                Paying(w) \/ Users \subseteq troubled' \/ \A v \in Workers : ~Paying(v)
      PROVE  RankInv'
  <2>1. PICK t : t = [s EXCEPT !.at = at]
    OBVIOUS
  <2>2. settlers' = [settlers EXCEPT ![w] = t] /\ t.at = at
    BY <1>1, <1>3, <2>1 DEF Goto, Fields
  <2> QED
    BY <1>3, <2>2, QuietKeeps DEF PayingAt
<1>4. ASSUME s.at \notin {"pay", "award"}, UNCHANGED <<creditVars, awards>>,
             settlers' = [settlers EXCEPT ![w] = Idle]
      PROVE  RankInv'
  <2>1. Idle.at = "idle"
    BY DEF Idle
  <2> QED
    BY <1>4, <2>1, QuietKeeps DEF PayingAt
<1>5. CASE EnsurePeriod(w)
  <2>1. s # Idle
    BY <1>5 DEF EnsurePeriod, Idle
  <2> QED
    BY <1>3, <1>4, <1>5, <2>1 DEF EnsurePeriod
<1>6. CASE MarkRunning(w)
  <2>1. s # Idle
    BY <1>6 DEF MarkRunning, Idle
  <2>2. Users \subseteq troubled' \/ \A v \in Workers : ~Paying(v)
    BY <1>6 DEF MarkRunning
  <2> QED
    BY <1>3, <1>6, <2>1, <2>2 DEF MarkRunning
<1>7. CASE ReadFails(w)
  <2>1. s # Idle
    BY <1>7 DEF ReadFails, Idle
  <2> QED
    BY <1>3, <1>7, <2>1 DEF ReadFails
<1>8. CASE MarkFailure(w) \/ CloseCampaign(w) \/ SettlementFails(w)
  BY <1>4, <1>8 DEF MarkFailure, CloseCampaign, SettlementFails
<1>9. CASE Finish(w)
  <2>1. s # Idle
    BY <1>9 DEF Finish, Idle
  <2> QED
    BY <1>3, <1>4, <1>9, <2>1 DEF Finish
<1>10. CASE CreditStep(w)
  <2>1. Credit!WorkerStep(w) /\ UNCHANGED <<settlers, awards>>
    BY <1>10 DEF CreditStep, Credit!WorkerStep
  <2> QED
    BY <2>1, ServiceKeeps
<1>11. CASE Plan(w)
  <2>1. s.at = "read" /\ s = [f \in Fields |-> s[f]]
    BY <1>1, <1>11 DEF Plan, Idle
  <2>2. CallsPlaced'
    <3>1. PICK ranking, t :
             /\ t = [s EXCEPT !.ranking = ranking,
                              !.existing = awards, !.spent = AlreadySpent(awards)]
             /\ Advance(w, t) \/ (Goto(w, "empty") /\ UNCHANGED calls)
      BY <1>11 DEF Plan
    <3>2. CASE Advance(w, t)
      <4>1. t = [f \in Fields |-> t[f]]
        BY <2>1, <3>1 DEF Fields
      <4> QED
        BY <2>1, <3>2, <4>1, AdvancePlaces
    <3>3. CASE Goto(w, "empty") /\ UNCHANGED calls
      <4>1. calls'[w] = P!Idle
        BY <2>1, <3>3 DEF RankInv, CallsPlaced
      <4> QED
        BY <3>3, <4>1, OnePlaced DEF Goto
    <3> QED
      BY <3>1, <3>2, <3>3
  <2>3. ASSUME NEW u \in Users \ troubled'
        PROVE  UserOK(u)'
    BY <1>11, <2>3, TroubleStays, PlanFor DEF RankInv
  <2> QED
    BY <1>2, <2>2, <2>3 DEF RankInv
<1>12. CASE GrantEnds(w)
  <2>1. PICK t : settlers' = [settlers EXCEPT ![w] = t]
    BY <1>12 DEF GrantEnds
  <2>2. calls' = [calls EXCEPT ![w] = P!Idle]
    BY <1>12 DEF GrantEnds, Credit!Return, Credit!Idle, P!Idle
  <2>3. CallsPlaced'
    BY <2>1, <2>2, OnePlaced DEF RankInv, AwardInv, P!PayoutOK, P!CallsOK
  <2>4. ASSUME NEW u \in Users \ troubled'
        PROVE  UserOK(u)'
    BY <1>12, <2>4, TroubleStays, GrantFor DEF RankInv
  <2> QED
    BY <1>2, <2>3, <2>4 DEF RankInv
<1>13. CASE WriteAward(w)
  <2>1. s.at = "award" /\ s = [f \in Fields |-> s[f]] /\ Advance(w, s)
    BY <1>1, <1>13 DEF WriteAward, Idle
  <2>2. CallsPlaced'
    BY <2>1, AdvancePlaces
  <2>3. ASSUME NEW u \in Users \ troubled'
        PROVE  UserOK(u)'
    BY <1>13, <2>3, TroubleStays, WriteFor DEF RankInv
  <2> QED
    BY <1>2, <2>2, <2>3 DEF RankInv
<1> QED
  BY <1>5, <1>6, <1>7, <1>8, <1>9, <1>10, <1>11, <1>12, <1>13 DEF SettlerStep

LEMMA RankStep ==
  ASSUME RankInv, [Next]_vars
  PROVE  RankInv'
<1>1. CASE Admin
  <2>1. UNCHANGED <<creditVars, settlers, awards>>
    BY <1>1 DEF Admin, Create, Edit, BeginCancel, Cancel, DeleteIfNoAwards
  <2> QED
    BY <2>1, ServiceKeeps
<1>2. CASE Upstream \/ Age \/ UNCHANGED vars
  BY <1>2, ServiceKeeps DEF Upstream, Age, vars
<1>3. ASSUME NEW w \in Workers, BeginManual(w) \/ BeginScheduled(w)
      PROVE  RankInv'
  <2>1. PICK trigger, t : /\ t = Settler(trigger)
                          /\ settlers' = [settlers EXCEPT ![w] = t]
                          /\ settlers[w] = Idle /\ UNCHANGED <<creditVars, awards>>
    BY <1>3 DEF BeginManual, BeginScheduled
  <2>2. t.at = "ensure" /\ settlers[w].at = "idle"
    BY <2>1 DEF Settler, Idle
  <2> QED
    BY <2>1, <2>2, QuietKeeps DEF PayingAt
<1> QED
  BY <1>1, <1>2, <1>3, CrashKeeps, RankSettler DEF Next

\* Two slots of a user with money under them are one.
LEMMA OneSlot ==
  ASSUME RankInv, NEW u \in Users \ troubled,
         NEW j \in KeysOf(u), NEW k \in KeysOf(u), applied[j] # 0, applied[k] # 0
  PROVE  j = k
<1>1. UserOK(u)
  BY DEF RankInv
<1>2. CASE \A w \in Workers : ~Pays(settlers[w], u)
  BY <1>1, <1>2 DEF UserOK, Settled, Rests
<1>3. ASSUME NEW w \in Workers, Pays(settlers[w], u)
      PROVE  j = k
  BY <1>1, <1>3 DEF UserOK, PlanOK, Rests
<1> QED
  BY <1>2, <1>3

LEMMA OneRank == ASSUME RankInv PROVE PaidForOneRank
<1>1. SUFFICES ASSUME NEW u \in Users \ troubled
               PROVE  Cardinality({k \in KeysOf(u) : applied[k] # 0}) <= 1
  BY DEF PaidForOneRank
<1>2. PICK paid : paid = {k \in KeysOf(u) : applied[k] # 0}
  OBVIOUS
<1>3. CASE paid = {}
  BY <1>2, <1>3, FS_EmptySet
<1>4. CASE paid # {}
  <2>1. PICK j : j \in paid
    BY <1>4
  <2>2. paid = {j}
    BY <1>2, <2>1, OneSlot
  <2>3. Cardinality({j}) = 1
    BY FS_Singleton
  <2> QED
    BY <1>2, <2>2, <2>3
<1> QED
  BY <1>3, <1>4

\* However often a period is settled (handler/campaign.go settleCampaignPeriod), by
\* hand, by the schedule or again after a crash, and however the board has moved in
\* between, a user has money under one rank, unless a payment of the user failed or
\* its award row was lost, or two settlements paid at the same time.
THEOREM UsersArePaidOnce == Spec => []PaidForOneRank
<1>1. Init => RankInv
  BY RankInit
<1>2. RankInv /\ [Next]_vars => RankInv'
  BY RankStep
<1>3. RankInv => PaidForOneRank
  BY OneRank
<1> QED
  BY <1>1, <1>2, <1>3, PTL DEF Spec

-----------------------------------------------------------------------------
(***************************************************************************)
(* Amounts, and what they add up to.                                        *)
(***************************************************************************)
LEMMA FiniteAgrees == \A S : IsFiniteSet(S) <=> P!IsFiniteSet(S)
  BY DEF IsFiniteSet, P!IsFiniteSet

LEMMA SumAgrees == \A f, S : SumFunctionOnSet(f, S) = P!SumFunctionOnSet(f, S)
  BY DEF SumFunctionOnSet, FoldFunctionOnSet, MapThenFoldSet,
     P!SumFunctionOnSet, P!FoldFunctionOnSet, P!MapThenFoldSet

LEMMA MaxIsMember ==
  ASSUME NEW n \in Nat, NEW S \in SUBSET (1..n), S # {}
  PROVE  Max(S) \in S
<1>1. PICK below : below = {n - x : x \in S}
  OBVIOUS
<1>2. below \in SUBSET Nat /\ below # {}
  <2>1. \A x \in S : n - x \in Nat
    OBVIOUS
  <2>2. PICK x : x \in S
    OBVIOUS
  <2>3. n - x \in below
    BY <1>1, <2>2
  <2> QED
    BY <1>1, <2>1, <2>3
<1>3. PICK d \in below : \A e \in below : d <= e
  BY <1>2, P!Least
<1>4. PICK x \in S : d = n - x
  BY <1>1, <1>3
<1>5. ASSUME NEW y \in S PROVE x >= y
  <2>1. n - y \in below
    BY <1>1
  <2>3. x \in Nat /\ y \in Nat
    OBVIOUS
  <2>2. n - x <= n - y
    BY <1>3, <1>4, <2>1
  <2> QED
    BY <2>2, <2>3
<1> QED
  BY <1>5 DEF Max

\* A rule gives an amount, and no rule nothing.
Rules == RuleSets \cup {NoRules}

LEMMA AmountIsNat ==
  ASSUME NEW rules \in Rules, NEW rank
  PROVE  AmountForRank(rules, rank) \in Nat
<1> DEFINE matching(exact) == {i \in DOMAIN rules : Exact(rules[i]) = exact /\ Covers(rules[i], rank)}
<1> DEFINE Rule == [exact : BOOLEAN, from : Nat, to : Nat, amount : Nat]
<1>1. rules \in Seq(Rule)
  <2>1. <<>> \in Seq(Rule)
    OBVIOUS
  <2> QED
    BY <2>1, CampaignAssumption DEF Rules, NoRules
<1>2. Len(rules) \in Nat /\ DOMAIN rules = 1..Len(rules)
  BY <1>1
<1>3. ASSUME NEW i \in DOMAIN rules PROVE rules[i].amount \in Nat
  <2>1. rules[i] \in Rule
    <3> HIDE DEF Rule
    <3> QED
      BY <1>1
  <2> QED
    BY <2>1
<1>4. ASSUME NEW e, matching(e) # {}
      PROVE  rules[Max(matching(e))].amount \in Nat
  <2>1. matching(e) \in SUBSET (1..Len(rules))
    BY <1>2
  <2>2. Max(matching(e)) \in matching(e)
    BY <1>2, <1>4, <2>1, MaxIsMember
  <2> QED
    BY <1>3, <2>2
<1> QED
  BY <1>4 DEF AmountForRank

\* Nobody is on a board twice, so no board is longer than there are users.
LEMMA RanksAreFinite == IsFiniteSet(Ranks)
<1>1. IsFiniteSet(Users) /\ Cardinality(Users) \in Nat
  BY CampaignAssumption, FS_CardinalityType
<1>2. ASSUME NEW r \in Rankings
      PROVE  DOMAIN r \subseteq 1..Cardinality(Users)
  <2>1. r \in Seq(Users) /\ Len(r) \in Nat /\ DOMAIN r = 1..Len(r)
    BY CampaignAssumption
  <2>2. r \in [1..Len(r) -> Users] /\ \A i, j \in 1..Len(r) : r[i] = r[j] => i = j
    BY <2>1, RankedOnce
  <2>3. r \in Injection(1..Len(r), Users)
    BY <2>2 DEF Injection, IsInjective
  <2>4. Cardinality(1..Len(r)) <= Cardinality(Users)
    BY <1>1, <2>3, FS_Injection
  <2>5. Cardinality(1..Len(r)) = Len(r)
    BY <2>1, FS_Interval
  <2> QED
    BY <1>1, <2>1, <2>4, <2>5
<1>3. Ranks \subseteq 1..Cardinality(Users)
  BY <1>2 DEF Ranks
<1>4. IsFiniteSet(1..Cardinality(Users))
  BY <1>1, FS_Interval
<1> QED
  BY <1>3, <1>4, FS_Subset

LEMMA KeysAreFinite == ASSUME NEW u PROVE IsFiniteSet(KeysOf(u))
<1>1. PICK f : f = [k \in Ranks |-> SlotKey(k, u)]
  OBVIOUS
<1>2. f \in Surjection(Ranks, KeysOf(u))
  BY <1>1 DEF Surjection, KeysOf
<1> QED
  BY <1>2, RanksAreFinite, FS_Surjection

-----------------------------------------------------------------------------
(***************************************************************************)
(* Everything that is added up is an amount.                                *)
(***************************************************************************)
CampaignTyped ==
    /\ campaign = [f \in {"status", "rules", "cap", "recurs"} |-> campaign[f]]
    /\ campaign.rules \in Rules
    /\ campaign.status # "none" => campaign.cap \in caps
    /\ caps \subseteq Nat
    /\ campaign.status = "none" => ~cancelling /\ \A w \in Workers : settlers[w] = Idle

Counts(s, limits) == s # Idle => s.rules \in Rules /\ s.spent \in Nat /\ s.cap \in limits
AllCount == \A w \in Workers : Counts(settlers[w], caps)

AwardsTyped == DOMAIN awards \subseteq Users /\ \A u \in DOMAIN awards : awards[u].amount \in Nat

Typed == CampaignTyped /\ AllCount /\ AwardsTyped

SpentIn(list) ==
    [u \in DOMAIN list |-> IF list[u].status = "success" THEN list[u].amount ELSE 0]

LEMMA SpentIsNat ==
  ASSUME AwardsTyped
  PROVE  AlreadySpent(awards) \in Nat
<1>1. PICK f : f = SpentIn(awards)
  OBVIOUS
<1>2. IsFiniteSet(DOMAIN awards)
  BY CampaignAssumption, FS_Subset DEF AwardsTyped
<1>3. \A u \in DOMAIN awards : f[u] \in Nat
  BY <1>1 DEF SpentIn, AwardsTyped
<1>4. P!SumFunctionOnSet(f, DOMAIN awards) \in Nat
  BY <1>2, <1>3, FiniteAgrees, P!SumNat
<1>5. DOMAIN f = DOMAIN awards /\ AlreadySpent(awards) = SumFunction(f)
  BY <1>1 DEF SpentIn, AlreadySpent
<1> QED
  BY <1>4, <1>5, SumAgrees DEF SumFunction

\* A cap the campaign has had is not forgotten.
LEMMA CapsStay == ASSUME [Next]_vars PROVE caps \subseteq caps'
<1>1. CASE Admin
  BY <1>1 DEF Admin, Create, Edit, BeginCancel, Cancel, DeleteIfNoAwards
<1>2. ASSUME NEW w \in Workers, BeginManual(w) \/ BeginScheduled(w) \/ SettlerStep(w)
      PROVE  caps \subseteq caps'
  BY <1>2 DEF BeginManual, BeginScheduled, SettlerStep, EnsurePeriod, MarkRunning, Plan, ReadFails,
     MarkFailure, GrantEnds, WriteAward, Finish, CloseCampaign, SettlementFails, CreditStep, adminVars
<1>3. CASE Upstream \/ Age \/ Crash \/ UNCHANGED vars
  BY <1>3 DEF Upstream, Age, Crash, vars, adminVars
<1> QED
  BY <1>1, <1>2, <1>3 DEF Next

LEMMA OneCounts ==
  ASSUME AwardInv, AllCount, caps \subseteq caps', NEW w \in Workers, NEW t,
         settlers' = [settlers EXCEPT ![w] = t], Counts(t, caps)
  PROVE  AllCount'
<1>1. \A v \in Workers : settlers'[v] = IF v = w THEN t ELSE settlers[v]
  BY DEF AwardInv, SettlersOK
<1> QED
  BY <1>1 DEF AllCount, Counts

LEMMA GotoCounts ==
  ASSUME AwardInv, AllCount, caps \subseteq caps', NEW w \in Workers, NEW at, Goto(w, at), settlers[w] # Idle
  PROVE  AllCount'
<1>1. settlers[w] = [f \in Fields |-> settlers[w][f]]
  BY DEF AwardInv, SettlersOK, SettlerOK, Shape
<1>2. PICK t : t = [settlers[w] EXCEPT !.at = at]
  OBVIOUS
<1>3. t.rules = settlers[w].rules /\ t.spent = settlers[w].spent /\ t.cap = settlers[w].cap
  BY <1>1, <1>2 DEF Fields
<1>4. Counts(t, caps)
  BY <1>3 DEF AllCount, Counts
<1> QED
  BY <1>2, <1>4, OneCounts DEF Goto

LEMMA EndCounts ==
  ASSUME AwardInv, AllCount, caps \subseteq caps', NEW w \in Workers, settlers' = [settlers EXCEPT ![w] = Idle]
  PROVE  AllCount'
  BY OneCounts DEF Counts

LEMMA AdvanceCounts ==
  ASSUME AwardInv, AllCount, caps \subseteq caps', NEW w \in Workers, NEW s,
         s = [f \in Fields |-> s[f]], s.rules \in Rules, s.spent \in Nat, s.cap \in caps,
         Advance(w, s)
  PROVE  AllCount'
<1>1. PICK at, n, t : /\ t = [s EXCEPT !.at = at, !.row = n]
                      /\ settlers' = [settlers EXCEPT ![w] = t]
  <2>1. CASE NextRow(s) = 0
    <3>1. PICK t : t = [s EXCEPT !.at = "finish"] /\ settlers' = [settlers EXCEPT ![w] = t]
      BY <2>1 DEF Advance
    <3>2. t = [s EXCEPT !.at = "finish", !.row = s.row]
      BY <3>1 DEF Fields
    <3> QED
      BY <3>1, <3>2
  <2>2. CASE NextRow(s) # 0
    BY <2>2 DEF Advance
  <2> QED
    BY <2>1, <2>2
<1>2. t.rules = s.rules /\ t.spent = s.spent /\ t.cap = s.cap
  BY <1>1 DEF Fields
<1>3. Counts(t, caps)
  BY <1>2 DEF Counts
<1> QED
  BY <1>1, <1>3, OneCounts

LEMMA TypedInit == ASSUME Init PROVE Typed
  BY DEF Init, Typed, CampaignTyped, AllCount, Counts, AwardsTyped, Rules

LEMMA AllCountStep ==
  ASSUME AwardInv, Typed, [Next]_vars
  PROVE  AllCount'
<1>0. AllCount /\ CampaignTyped /\ AwardsTyped /\ caps \subseteq caps'
  BY CapsStay DEF Typed
<1>1. CASE UNCHANGED settlers
  BY <1>0, <1>1 DEF AllCount, Counts
<1>2. CASE Crash
  BY <1>2 DEF Crash, AllCount, Counts
<1>3. ASSUME NEW w \in Workers, BeginManual(w) \/ BeginScheduled(w)
      PROVE  AllCount'
  <2>1. PICK trigger, t : t = Settler(trigger) /\ settlers' = [settlers EXCEPT ![w] = t]
    BY <1>3 DEF BeginManual, BeginScheduled
  <2>2. t.rules = campaign.rules /\ t.spent = 0 /\ t.cap = campaign.cap
    BY <2>1 DEF Settler
  <2>3. campaign.status # "none"
    BY <1>3 DEF BeginManual, BeginScheduled, Settleable
  <2>4. Counts(t, caps)
    BY <1>0, <2>2, <2>3 DEF Counts, CampaignTyped
  <2> QED
    BY <1>0, <2>1, <2>4, OneCounts
<1>4. ASSUME NEW w \in Workers,
             \/ EnsurePeriod(w) \/ MarkRunning(w) \/ ReadFails(w) \/ MarkFailure(w)
             \/ Finish(w) \/ CloseCampaign(w) \/ SettlementFails(w)
      PROVE  AllCount'
  <2>1. settlers[w] # Idle
    BY <1>4 DEF EnsurePeriod, MarkRunning, ReadFails, MarkFailure, Finish, CloseCampaign,
       SettlementFails, Idle
  <2>2. settlers' = [settlers EXCEPT ![w] = Idle] \/ \E at : Goto(w, at)
    BY <1>4 DEF EnsurePeriod, MarkRunning, ReadFails, MarkFailure, Finish, CloseCampaign,
       SettlementFails, EndSettlement
  <2> QED
    BY <1>0, <2>1, <2>2, EndCounts, GotoCounts
<1>5. ASSUME NEW w \in Workers, settlers[w].at \in {"read", "pay", "award"}
      PROVE  /\ settlers[w] # Idle /\ settlers[w] = [f \in Fields |-> settlers[w][f]]
             /\ settlers[w].rules \in Rules /\ settlers[w].spent \in Nat /\ settlers[w].cap \in caps
  <2>1. settlers[w] # Idle
    BY <1>5 DEF Idle
  <2> QED
    BY <1>0, <2>1 DEF AwardInv, SettlersOK, SettlerOK, Shape, AllCount, Counts
<1>6. ASSUME NEW w \in Workers, Plan(w)
      PROVE  AllCount'
  <2>1. settlers[w].at = "read"
    BY <1>6 DEF Plan
  <2>2. PICK ranking, sp, list, s :
           /\ sp = AlreadySpent(awards)
           /\ s = [settlers[w] EXCEPT !.ranking = ranking, !.existing = list, !.spent = sp]
           /\ Advance(w, s) \/ Goto(w, "empty")
    BY <1>6 DEF Plan
  <2>3. /\ s = [f \in Fields |-> s[f]] /\ s.rules = settlers[w].rules /\ s.spent = sp
        /\ s.cap = settlers[w].cap
    BY <1>5, <2>1, <2>2 DEF Fields
  <2>4. s.rules \in Rules /\ s.spent \in Nat /\ s.cap \in caps
    BY <1>0, <1>5, <2>1, <2>2, <2>3, SpentIsNat
  <2>5. CASE Advance(w, s)
    BY <1>0, <2>3, <2>4, <2>5, AdvanceCounts
  <2>6. CASE Goto(w, "empty")
    BY <1>0, <1>5, <2>1, <2>6, GotoCounts
  <2> QED
    BY <2>2, <2>5, <2>6
<1>7. ASSUME NEW w \in Workers, GrantEnds(w)
      PROVE  AllCount'
  <2> DEFINE s == settlers[w]
  <2>1. s.at = "pay"
    BY <1>7 DEF GrantEnds
  <2>2. PICK r, sp, fl, t :
           /\ sp = s.spent \/ sp = s.spent + AmountAt(s, s.row)
           /\ t = [s EXCEPT !.at = "award", !.result = r, !.spent = sp, !.failed = fl]
           /\ settlers' = [settlers EXCEPT ![w] = t]
    <3>1. PICK r, sp, fl :
             /\ sp = s.spent \/ sp = s.spent + AmountAt(s, s.row)
             /\ settlers' = [settlers EXCEPT ![w] =
                   [s EXCEPT !.at = "award", !.result = r, !.spent = sp, !.failed = fl]]
      BY <1>7 DEF GrantEnds
    <3> QED
      BY <3>1
  <2>3. AmountAt(s, s.row) \in Nat
    BY <1>5, <2>1, AmountIsNat DEF AmountAt
  <2>4. t.rules = s.rules /\ t.spent = sp /\ t.cap = s.cap
    BY <1>5, <2>1, <2>2 DEF Fields
  <2>5. Counts(t, caps)
    <3>1. s.rules \in Rules /\ s.spent \in Nat /\ s.cap \in caps
      BY <1>5, <2>1
    <3>2. sp \in Nat
      BY <2>2, <2>3, <3>1
    <3> QED
      BY <2>4, <3>1, <3>2 DEF Counts
  <2> QED
    BY <1>0, <2>2, <2>5, OneCounts
<1>8. ASSUME NEW w \in Workers, WriteAward(w)
      PROVE  AllCount'
  <2>1. settlers[w].at = "award" /\ Advance(w, settlers[w])
    BY <1>8 DEF WriteAward
  <2> QED
    BY <1>0, <1>5, <2>1, AdvanceCounts
<1> QED
  BY <1>1, <1>2, <1>3, <1>4, <1>6, <1>7, <1>8 DEF Next, SettlerStep, CreditStep, Admin, Create, Edit,
     BeginCancel, Cancel, DeleteIfNoAwards, Upstream, Age, vars

LEMMA TypedStep ==
  ASSUME AwardInv, Typed, [Next]_vars
  PROVE  Typed'
<1>1. AllCount'
  BY AllCountStep
<1>2. CampaignTyped'
  <2>0. CampaignTyped /\ AllCount
    BY DEF Typed
  <2>1. ASSUME NEW status, campaign' = [campaign EXCEPT !.status = status], UNCHANGED caps,
               status # "none", campaign.status # "none"
        PROVE  CampaignTyped'
    BY <2>0, <2>1 DEF CampaignTyped
  <2>2. CASE UNCHANGED <<campaign, caps>>
    <3>1. campaign.status = "none" => ~cancelling' /\ UNCHANGED settlers
      <4>1. SUFFICES ASSUME campaign.status = "none", ~cancelling, \A w \in Workers : settlers[w] = Idle
                     PROVE  ~cancelling' /\ UNCHANGED settlers
        BY <2>0 DEF CampaignTyped
      <4>2. \A w \in Workers : settlers[w].at = "idle"
        BY <4>1 DEF Idle
      <4>3. CASE Admin
        BY <4>1, <4>3 DEF Admin, Create, Edit, BeginCancel, Cancel, DeleteIfNoAwards, Editable, Settleable
      <4>4. ASSUME NEW w \in Workers, BeginManual(w) \/ BeginScheduled(w) \/ SettlerStep(w)
            PROVE  ~cancelling' /\ UNCHANGED settlers
        <5>1. CASE BeginManual(w) \/ BeginScheduled(w)
          BY <2>0, <4>1, <5>1 DEF BeginManual, BeginScheduled, Settleable
        <5>2. CASE CreditStep(w)
          BY <4>1, <5>2 DEF CreditStep, adminVars
        <5>3. CASE SettlerStep(w) /\ ~CreditStep(w)
          BY <4>2, <5>3 DEF SettlerStep, EnsurePeriod, MarkRunning, Plan, ReadFails, MarkFailure,
             GrantEnds, WriteAward, Finish, CloseCampaign, SettlementFails
        <5> QED
          BY <4>4, <5>1, <5>2, <5>3
      <4>5. CASE Upstream \/ Age \/ Crash \/ UNCHANGED vars
        BY <4>1, <4>5 DEF Upstream, Age, Crash, vars, adminVars
      <4> QED
        BY <4>3, <4>4, <4>5 DEF Next
    <3> QED
      BY <2>0, <2>2, <3>1 DEF CampaignTyped
  <2>3. CASE Create
    <3>1. PICK status \in {"draft", "active"}, rules \in RuleSets, cap \in Caps, recurs \in BOOLEAN :
             /\ campaign' = [status |-> status, rules |-> rules, cap |-> cap, recurs |-> recurs]
             /\ caps' = caps \cup {cap}
      BY <2>3 DEF Create
    <3>2. caps \subseteq Nat /\ cap \in Nat /\ status # "none"
      BY <2>0, <3>1, CampaignAssumption DEF CampaignTyped
    <3> QED
      BY <3>1, <3>2 DEF CampaignTyped, Rules
  <2>4. CASE Edit
    <3>1. PICK status \in {"draft", "active"}, rules \in RuleSets, cap \in Caps :
             /\ campaign' = [campaign EXCEPT !.status = status, !.rules = rules, !.cap = cap]
             /\ caps' = caps \cup {cap}
      BY <2>4 DEF Edit
    <3>2. caps \subseteq Nat /\ cap \in Nat
      BY <2>0, CampaignAssumption DEF CampaignTyped
    <3> QED
      BY <2>0, <3>1, <3>2 DEF CampaignTyped, Rules
  <2>5. CASE Cancel \/ \E w \in Workers : CloseCampaign(w)
    <3>1. /\ UNCHANGED caps
          /\ \/ UNCHANGED campaign
             \/ \E status : status # "none" /\ campaign' = [campaign EXCEPT !.status = status]
      BY <2>5 DEF Cancel, CloseCampaign, SetStatus
    <3>2. campaign.status # "none"
      BY <2>0, <2>5 DEF CampaignTyped, Cancel, CloseCampaign, Idle
    <3> QED
      BY <2>1, <2>2, <3>1, <3>2
  <2>6. CASE DeleteIfNoAwards
    BY <2>1, <2>6 DEF DeleteIfNoAwards
  <2> QED
    BY <2>2, <2>3, <2>4, <2>5, <2>6 DEF Next, SettlerStep, EnsurePeriod, MarkRunning, Plan, ReadFails,
       MarkFailure, GrantEnds, WriteAward, Finish, SettlementFails, CreditStep, Admin, BeginCancel,
       BeginManual, BeginScheduled, Upstream, Age, Crash, adminVars, vars
<1>3. AwardsTyped'
  <2>1. CASE UNCHANGED awards
    BY <2>1 DEF Typed, AwardsTyped
  <2>2. CASE ~UNCHANGED awards
    <3>1. PICK w \in Workers : WriteAward(w)
      BY <2>2 DEF Next, SettlerStep, EnsurePeriod, MarkRunning, Plan, ReadFails,
         MarkFailure, GrantEnds, Finish, CloseCampaign, SettlementFails, CreditStep, Admin, Create,
         Edit, BeginCancel, Cancel, DeleteIfNoAwards, BeginManual, BeginScheduled, Upstream, Age,
         Crash, vars
    <3> DEFINE s == settlers[w]
               row == [status |-> s.result, amount |-> AmountAt(s, s.row)]
    <3>2. s.at = "award" /\ s # Idle
      BY <3>1 DEF WriteAward, Idle
    <3>3. s.rules \in Rules /\ OnBoard(s)
      BY <3>2 DEF Typed, AllCount, Counts, AwardInv, SettlersOK, SettlerOK
    <3>4. AmountAt(s, s.row) \in Nat /\ UserAt(w) \in Users
      BY <3>3, AmountIsNat, SlotKeys DEF AmountAt, OnBoard, UserAt
    <3>5. PICK u, list : u = UserAt(w) /\ list = awards'
      OBVIOUS
    <3>6. list = [v \in DOMAIN awards \cup {u} |-> IF v = u THEN row ELSE awards[v]]
      BY <2>2, <3>1, <3>5 DEF WriteAward
    <3>7. row.amount \in Nat
      BY <3>4
    <3>8. DOMAIN list \subseteq Users /\ \A v \in DOMAIN list : list[v].amount \in Nat
      BY <3>4, <3>5, <3>6, <3>7 DEF Typed, AwardsTyped
    <3> QED
      BY <3>5, <3>8 DEF AwardsTyped
  <2> QED
    BY <2>1, <2>2
<1> QED
  BY <1>1, <1>2, <1>3 DEF Typed

-----------------------------------------------------------------------------
(***************************************************************************)
(* What a user was paid, or can still be, is what the award says.  Users    *)
(* who were part of no failure: while they wait for their payment, nothing  *)
(* but the amount of their row can move, and an answer of skipped cannot    *)
(* come, since their slot has no final row before.                          *)
(***************************************************************************)
Squared(list, u) ==
    \/ Rests(KeysOf(u))
    \/ /\ u \in DOMAIN list /\ list[u].status = "success" /\ list[u].amount # 0
       /\ \E k \in KeysOf(u) : P!Asked(k, list[u].amount) /\ Rests(KeysOf(u) \ {k})

PayRight(s, c, u) ==
    Pays(s, u) =>
        /\ AmountAt(s, s.row) # 0
        /\ P!Asked(RowKey(s), AmountAt(s, s.row))
        /\ s.at = "pay" =>
              /\ c.req.delta = AmountAt(s, s.row) /\ c.pc # "skipped"
              /\ c.pc = "running" => ~P!Final(RowKey(s))
        /\ s.at = "award" => s.result = "success"

RightFor(u) ==
    /\ \A w \in Workers : PayRight(settlers[w], calls[w], u)
    /\ (\A w \in Workers : ~Pays(settlers[w], u)) => Squared(awards, u)

\* The service goes on: the call of the row may end, but not as skipped.
LEMMA CallGoesOn ==
  ASSUME P!PayoutOK, NEW w \in Workers, calls[w] # P!Idle, NEW k, calls[w].req.key = k,
         calls[w].pc # "skipped", calls[w].pc = "running" => ~P!Final(k),
         \A v \in Workers : calls[v] # P!Idle /\ calls[v].req.key = k => v = w,
         UNCHANGED P!vars \/ P!Upstream \/ \E v \in Workers : P!WorkerStep(v)
  PROVE  /\ calls'[w] # P!Idle /\ calls'[w].req = calls[w].req
         /\ calls'[w].pc # "skipped" /\ (calls'[w].pc = "running" => ~P!Final(k)')
<1>1. calls'[w] # P!Idle /\ calls'[w].req = calls[w].req
  BY P!RequestsStay
<1>2. CASE UNCHANGED P!vars \/ P!Upstream
  <2>1. UNCHANGED <<calls, final>>
    BY <1>2 DEF P!vars, P!Upstream, P!Apply, P!Lose
  <2> QED
    BY <1>1, <2>1 DEF P!Final
<1>3. ASSUME NEW v \in Workers, P!WorkerStep(v)
      PROVE  calls'[w].pc # "skipped" /\ (calls'[w].pc = "running" => ~P!Final(k)')
  <2>1. calls[v].pc = "running" /\ calls[v] # P!Idle /\ calls[v].req.delta # 0
    <3>1. calls[v].pc = "running"
      BY <1>3 DEF P!WorkerStep, P!Send, P!Succeed, P!Skip, P!Fail, P!End
    <3> QED
      BY <3>1 DEF P!Idle, P!PayoutOK, P!CallsOK, P!CallOK
  <2>2. CASE v = w
    <3>1. ~P!Skip(w)
      BY <2>1, <2>2 DEF P!Skip
    <3>2. CASE P!Send(w)
      BY <2>2, <3>2 DEF P!Send, P!Final
    <3>3. ASSUME NEW pc \in {"ok", "error"}, P!End(w, pc)
          PROVE  calls'[w].pc = pc
      <4>1. PICK c : c = [pc |-> pc, req |-> calls[w].req] /\ calls' = [calls EXCEPT ![w] = c]
        BY <3>3 DEF P!End
      <4> QED
        BY <4>1 DEF P!PayoutOK, P!CallsOK
    <3> QED
      BY <1>3, <2>2, <3>1, <3>2, <3>3 DEF P!WorkerStep, P!Succeed, P!Fail
  <2>3. CASE v # w
    <3>1. calls'[w] = calls[w]
      <4>1. calls' = calls \/ \E c : calls' = [calls EXCEPT ![v] = c]
        BY <1>3 DEF P!WorkerStep, P!Send, P!Succeed, P!Skip, P!Fail, P!End
      <4> QED
        BY <2>3, <4>1 DEF P!PayoutOK, P!CallsOK
    <3>2. calls[v].req.key # k
      BY <2>1, <2>3
    <3>3. P!Final(k)' => P!Final(k)
      BY <1>3, <3>2 DEF P!WorkerStep, P!Send, P!Succeed, P!Skip, P!Fail, P!Final
    <3> QED
      BY <3>1, <3>3
  <2> QED
    BY <2>2, <2>3
<1> QED
  BY <1>1, <1>2, <1>3

\* Squared accounts stay squared as long as nobody pays the user.
LEMMA SquaredStays ==
  ASSUME RankInv, CreditMove, NEW u \in Users, NEW list, Squared(list, u),
         \A w \in Workers : ~Pays(settlers[w], u)
  PROVE  Squared(list, u)'
<1>1. AwardInv
  BY DEF RankInv
<1>2. \A w \in Workers : calls[w] # P!Idle => calls[w].req.key \notin KeysOf(u)
  BY CallsAreRows
<1>3. CASE Rests(KeysOf(u))
  BY <1>1, <1>2, <1>3, RestStays, KeysOfAreKeys DEF Squared
<1>4. ASSUME u \in DOMAIN list, list[u].status = "success", list[u].amount # 0,
             NEW k \in KeysOf(u), P!Asked(k, list[u].amount), Rests(KeysOf(u) \ {k})
      PROVE  Squared(list, u)'
  <2>1. Rests(KeysOf(u) \ {k})'
    BY <1>1, <1>2, <1>4, RestStays, KeysOfAreKeys
  <2>2. P!Asked(k, list[u].amount)'
    <3>1. PICK a : a = list[u].amount
      OBVIOUS
    <3>2. \A w \in Workers : ~P!Under(w, k)
      BY <1>1, <1>2, <1>4, KeysOfAreKeys DEF P!Under, AwardInv, P!PayoutOK, P!CallsOK, P!CallOK, UpKeyOf
    <3>3. P!Asked(k, a)'
      BY <1>1, <1>4, <3>1, <3>2, MoveIsMove, KeysOfAreKeys, MappedHolds, P!AskedStays DEF AwardInv
    <3> QED
      BY <3>1, <3>3
  <2> QED
    BY <1>4, <2>1, <2>2 DEF Squared
<1> QED
  BY <1>3, <1>4 DEF Squared

\* The service goes on; settlements and awards stay.
LEMMA RightKept ==
  ASSUME RankInv, NEW u \in Users, UserOK(u), RightFor(u), UNCHANGED <<settlers, awards>>,
         UNCHANGED creditVars \/ Credit!Upstream \/ \E v \in Workers : Credit!WorkerStep(v)
  PROVE  RightFor(u)'
<1>1. CreditMove /\ P!PayoutOK /\ P!Move
  BY MoveIsMove DEF CreditMove, RankInv, AwardInv
<1>2. UNCHANGED P!vars \/ P!Upstream \/ \E v \in Workers : P!WorkerStep(v)
  BY DEF UpKeyOf, creditVars, P!vars, Credit!Upstream, Credit!Apply, Credit!Lose, P!Upstream,
     P!Apply, P!Lose, Credit!WorkerStep, Credit!Send, Credit!Succeed, Credit!Skip, Credit!Fail,
     Credit!End, Credit!Request, Credit!Final, P!WorkerStep, P!Send, P!Succeed, P!Skip,
     P!Fail, P!End, P!Request, P!Final
<1>3. ASSUME NEW w \in Workers
      PROVE  PayRight(settlers[w], calls[w], u)'
  <2>1. PICK s, c, d, k, a : /\ s = settlers[w] /\ c = calls[w] /\ d = calls'[w]
                             /\ k = RowKey(s) /\ a = AmountAt(s, s.row)
    OBVIOUS
  <2>2. SUFFICES ASSUME Pays(s, u)
                 PROVE  /\ a # 0 /\ P!Asked(k, a)'
                        /\ s.at = "pay" => /\ d.req.delta = a /\ d.pc # "skipped"
                                           /\ d.pc = "running" => ~P!Final(k)'
                        /\ s.at = "award" => s.result = "success"
    BY <2>1 DEF PayRight, Pays, RowKey, SlotKey, AmountAt
  <2>3. PayRight(s, c, u)
    BY <2>1 DEF RightFor
  <2>4. OnBoard(s) /\ s.ranking[s.row] = u
    BY <2>1, <2>2 DEF RankInv, AwardInv, SettlersOK, SettlerOK, Pays
  <2>5. k \in Keys /\ k \in KeysOf(u)
    BY <2>1, <2>4, SlotKeys DEF OnBoard, RowKey
  <2>6. \A v \in Workers : calls[v] # P!Idle /\ calls[v].req.key \in KeysOf(u) => v = w
    <3>1. SUFFICES ASSUME NEW v \in Workers, calls[v] # P!Idle, calls[v].req.key \in KeysOf(u)
                   PROVE  v = w
      OBVIOUS
    <3>2. Pays(settlers[v], u)
      BY <3>1, CallsAreRows
    <3> QED
      BY <2>1, <2>2, <3>2 DEF UserOK, Paying, Pays
  <2>7. P!Asked(k, a)'
    <3>1. \A v \in Workers : P!Under(v, k) => calls[v].req.delta = a
      <4>1. SUFFICES ASSUME NEW v \in Workers, P!Under(v, k)
                     PROVE  calls[v].req.delta = a
        OBVIOUS
      <4>2. calls[v] # P!Idle /\ calls[v].req.key = k
        BY <1>1, <4>1 DEF P!Under, P!PayoutOK, P!CallsOK, P!CallOK, UpKeyOf
      <4>3. v = w
        BY <2>5, <2>6, <4>2
      <4>4. s.at = "pay"
        BY <2>1, <4>2, <4>3 DEF RankInv, CallsPlaced
      <4> QED
        BY <2>1, <2>2, <2>3, <4>3, <4>4 DEF PayRight
    <3>2. P!Asked(k, a)
      BY <2>1, <2>2, <2>3 DEF PayRight
    <3> QED
      BY <1>1, <2>5, <3>1, <3>2, MappedHolds, P!AskedStays
  <2>8. CASE s.at = "pay"
    <3>1. c # P!Idle /\ c.req.key = k
      BY <2>1, <2>8 DEF RankInv, AwardInv, SettlersOK, SettlerOK
    <3>2. c.req.delta = a /\ c.pc # "skipped" /\ (c.pc = "running" => ~P!Final(k))
      BY <2>1, <2>2, <2>3, <2>8 DEF PayRight
    <3>3. d # P!Idle /\ d.req = c.req /\ d.pc # "skipped" /\ (d.pc = "running" => ~P!Final(k)')
      <4>1. \A v \in Workers : calls[v] # P!Idle /\ calls[v].req.key = k => v = w
        BY <2>5, <2>6
      <4> QED
        BY <1>1, <1>2, <2>1, <3>1, <3>2, <4>1, CallGoesOn
    <3> QED
      BY <2>1, <2>2, <2>3, <2>7, <2>8, <3>2, <3>3 DEF PayRight
  <2>9. CASE s.at = "award"
    <3>1. s.result = "success"
      BY <2>1, <2>2, <2>3, <2>9 DEF PayRight
    <3> QED
      BY <2>1, <2>2, <2>3, <2>7, <2>9, <3>1 DEF PayRight
  <2> QED
    BY <2>2, <2>8, <2>9 DEF Pays
<1>4. (\A w \in Workers : ~Pays(settlers[w], u)') => Squared(awards, u)'
  <2>1. PICK list : list = awards
    OBVIOUS
  <2>2. SUFFICES ASSUME \A w \in Workers : ~Pays(settlers[w], u)'
                 PROVE  Squared(list, u)'
    BY <2>1
  <2>3. \A w \in Workers : ~Pays(settlers[w], u)
    BY <2>2
  <2>4. Squared(list, u)
    BY <2>1, <2>3 DEF RightFor
  <2> QED
    BY <1>1, <2>3, <2>4, SquaredStays
<1> QED
  BY <1>3, <1>4 DEF RightFor

\* One settlement takes a step that moves no money.
LEMMA OneRightStep ==
  ASSUME RankInv, NEW u \in Users, UserOK(u), RightFor(u), NEW w \in Workers, NEW t, NEW d, NEW list,
         settlers' = [settlers EXCEPT ![w] = t], awards' = list, UNCHANGED <<final, applied, sent>>,
         list = awards \/ Paying(w),
         calls'[w] = d, \A v \in Workers \ {w} : calls'[v] = calls[v],
         PayRight(t, d, u),
         ~Pays(t, u) /\ (\A v \in Workers \ {w} : ~Pays(settlers[v], u)) => Squared(list, u)
  PROVE  RightFor(u)'
<1>1. /\ settlers'[w] = t
      /\ \A v \in Workers \ {w} : settlers'[v] = settlers[v]
  BY DEF RankInv, AwardInv, SettlersOK
<1>2. \A K : Rests(K) => Rests(K)'
  BY DEF Rests, P!Calm, P!Final
<1>3. ASSUME NEW v \in Workers
      PROVE  PayRight(settlers[v], calls[v], u)'
  <2>1. PICK s, c : s = settlers'[v] /\ c = calls'[v]
    OBVIOUS
  <2>2. PayRight(s, c, u)
    <3>1. CASE v = w
      BY <1>1, <2>1, <3>1
    <3>2. CASE v # w
      BY <1>1, <2>1, <3>2 DEF RightFor
    <3> QED
      BY <3>1, <3>2
  <2>3. PayRight(s, c, u)'
    BY <2>2 DEF PayRight, Pays, RowKey, SlotKey, AmountAt, P!Asked, P!Final
  <2> QED
    BY <2>1, <2>3
<1>4. (\A v \in Workers : ~Pays(settlers[v], u)') => Squared(awards, u)'
  <2>1. SUFFICES ASSUME \A v \in Workers : ~Pays(settlers'[v], u)
                 PROVE  Squared(list, u)'
    BY DEF Pays
  <2>2. Squared(list, u)
    BY <1>1, <2>1
  <2> QED
    BY <1>2, <2>2 DEF Squared, P!Asked
<1> QED
  BY <1>3, <1>4 DEF RightFor

\* A step outside the payments.
LEMMA QuietRight ==
  ASSUME RankInv, NEW u \in Users, UserOK(u), RightFor(u), NEW w \in Workers, NEW t,
         settlers' = [settlers EXCEPT ![w] = t], UNCHANGED <<creditVars, awards>>,
         settlers[w].at \notin {"pay", "award"}, t.at \notin {"pay", "award"}
  PROVE  RightFor(u)'
<1>1. PICK list, d : list = awards /\ d = calls[w]
  OBVIOUS
<1>2. PayRight(t, d, u)
  BY DEF PayRight, Pays
<1>3. (\A v \in Workers \ {w} : ~Pays(settlers[v], u)) => Squared(list, u)
  BY <1>1 DEF RightFor, Pays
<1> QED
  BY <1>1, <1>2, <1>3, OneRightStep DEF creditVars

\* Going on to the next row.
LEMMA AdvanceRight ==
  ASSUME RankInv, NEW u \in Users, UserOK(u), RightFor(u), NEW w \in Workers, Paying(w),
         NEW s, NEW list,
         s = [f \in Fields |-> s[f]], s.ranking \in Rankings, s.row \in Nat,
         Advance(w, s), awards' = list, UNCHANGED <<final, applied, sent>>,
         Knows(s, list, u), Squared(list, u)
  PROVE  RightFor(u)'
<1>0. P!PayoutOK
  BY DEF RankInv, AwardInv
<1>1. CASE NextRow(s) = 0
  <2>1. PICK t : t = [s EXCEPT !.at = "finish"]
    OBVIOUS
  <2>2. settlers' = [settlers EXCEPT ![w] = t] /\ UNCHANGED calls
    BY <1>1, <2>1 DEF Advance
  <2>3. t.at = "finish"
    BY <2>1 DEF Fields
  <2>4. PICK d : d = calls[w] /\ PayRight(t, d, u)
    BY <2>3 DEF PayRight, Pays
  <2> QED
    BY <2>2, <2>4, OneRightStep
<1>2. CASE NextRow(s) # 0
  <2>1. PICK n : n = NextRow(s)
    OBVIOUS
  <2>2. PICK t : t = [s EXCEPT !.at = "pay", !.row = n]
    OBVIOUS
  <2>4. /\ t.at = "pay" /\ t.row = n /\ t.ranking = s.ranking /\ t.rules = s.rules
    BY <2>2 DEF Fields
  <2>5. n \in DOMAIN s.ranking /\ n \in Nat /\ s.row < n /\ ~Awarded(s, n) /\ AmountAt(s, n) # 0
    BY <1>2, <2>1, NextRowIsPayable
  <2>6. PICK a : a = AmountAt(s, n) /\ AmountAt(t, n) = a
    BY <2>4 DEF AmountAt
  <2>7. PICK d : d = [pc |-> "running", req |-> [key |-> RowKey(t), delta |-> a]]
    OBVIOUS
  <2>8. settlers' = [settlers EXCEPT ![w] = t] /\ calls' = [calls EXCEPT ![w] = d]
    BY <1>2, <2>1, <2>2, <2>4, <2>6, <2>7 DEF Advance, Credit!Call, RowKey
  <2>9. calls'[w] = d /\ \A v \in Workers \ {w} : calls'[v] = calls[v]
    BY <1>0, <2>8 DEF P!PayoutOK, P!CallsOK
  <2>10. Pays(t, u) => Rests(KeysOf(u))
    BY <2>4, <2>5 DEF Pays, Squared, Knows, Awarded, Marked
  <2>11. PayRight(t, d, u)
    <3>1. SUFFICES ASSUME Pays(t, u)
                   PROVE  P!Asked(RowKey(t), a) /\ ~P!Final(RowKey(t))
      BY <2>4, <2>5, <2>6, <2>7 DEF PayRight
    <3>2. s.ranking[n] = u
      BY <2>4, <3>1 DEF Pays
    <3>3. RowKey(t) \in KeysOf(u)
      BY <2>4, <2>5, <3>2, SlotKeys DEF RowKey
    <3>4. applied[RowKey(t)] = 0 /\ P!Calm(RowKey(t)) /\ ~P!Final(RowKey(t))
      BY <2>10, <3>1, <3>3 DEF Rests
    <3>5. P!Asked(RowKey(t), a)
      BY <3>4 DEF P!Asked, P!Calm
    <3> QED
      BY <3>4, <3>5
  <2> QED
    BY <2>8, <2>9, <2>11, OneRightStep
<1> QED
  BY <1>1, <1>2

LEMMA PlanRight ==
  ASSUME RankInv, NEW u \in Users, UserOK(u), RightFor(u), NEW w \in Workers, Plan(w)
  PROVE  RightFor(u)'
<1>1. settlers[w].at = "read" /\ UNCHANGED <<final, applied, sent, awards>>
  BY DEF Plan
<1>2. settlers[w] = [f \in Fields |-> settlers[w][f]] /\ settlers[w].row \in Nat
  BY <1>1 DEF RankInv, AwardInv, SettlersOK, SettlerOK, Shape, Idle
<1>3. PICK ranking, list, s :
         /\ ranking \in Rankings /\ list = awards
         /\ s = [settlers[w] EXCEPT !.ranking = ranking,
                                    !.existing = list, !.spent = AlreadySpent(awards)]
         /\ \/ Advance(w, s)
            \/ Goto(w, "empty") /\ UNCHANGED calls
  BY DEF Plan
<1>4. /\ s = [f \in Fields |-> s[f]]
      /\ s.ranking = ranking /\ s.row = settlers[w].row /\ s.existing = list
  BY <1>2, <1>3 DEF Fields
<1>5. CASE Advance(w, s)
  <2>1. Paying(w) /\ ~Pays(settlers[w], u)
    BY <1>1 DEF Paying, Pays
  <2>2. Squared(list, u)
    BY <1>3, <2>1 DEF UserOK, Paying, Pays, RightFor
  <2>3. Knows(s, list, u)
    BY <1>4 DEF Knows
  <2> QED
    BY <1>1, <1>2, <1>3, <1>4, <1>5, <2>1, <2>2, <2>3, AdvanceRight
<1>6. CASE Goto(w, "empty") /\ UNCHANGED calls
  <2>1. PICK t : t = [settlers[w] EXCEPT !.at = "empty"]
    OBVIOUS
  <2>2. settlers' = [settlers EXCEPT ![w] = t] /\ t.at = "empty"
    BY <1>2, <1>6, <2>1 DEF Goto, Fields
  <2> QED
    BY <1>1, <1>6, <2>2, QuietRight DEF creditVars
<1> QED
  BY <1>3, <1>5, <1>6

LEMMA GrantRight ==
  ASSUME RankInv, NEW u \in Users \ troubled', UserOK(u), RightFor(u), NEW w \in Workers, GrantEnds(w)
  PROVE  RightFor(u)'
<1> DEFINE s == settlers[w]
<1>1. /\ s.at = "pay" /\ calls[w].pc \in Credit!Returned
      /\ UNCHANGED <<final, applied, sent, awards>>
  BY DEF GrantEnds
<1>2. PICK r, sp, fl, t :
         /\ r = ResultOf(calls[w].pc)
         /\ t = [s EXCEPT !.at = "award", !.result = r, !.spent = sp, !.failed = fl]
         /\ settlers' = [settlers EXCEPT ![w] = t]
  BY DEF GrantEnds
<1>3. s = [f \in Fields |-> s[f]] /\ OnBoard(s)
  BY <1>1 DEF RankInv, AwardInv, SettlersOK, SettlerOK, Shape, Idle
<1>4. /\ t.at = "award" /\ t.result = r /\ t.row = s.row /\ t.rules = s.rules
      /\ t.ranking = s.ranking /\ t.existing = s.existing
  BY <1>2, <1>3 DEF Fields
<1>5. Pays(t, u) <=> Pays(s, u)
  BY <1>1, <1>4 DEF Pays
<1>6. PayRight(s, calls[w], u)
  BY DEF RightFor
<1>7. Pays(s, u) => calls[w].pc = "ok"
  <2>1. Pays(s, u) => calls[w].pc # "error"
    BY DEF GrantEnds, UserAt, Pays
  <2>2. Pays(s, u) => calls[w].pc # "skipped"
    BY <1>1, <1>6 DEF PayRight
  <2> QED
    BY <1>1, <2>1, <2>2 DEF Credit!Returned
<1>9. PICK list, d : list = awards /\ d = calls'[w]
  OBVIOUS
<1>10. PayRight(t, d, u)
  <2>1. RowKey(t) = RowKey(s) /\ AmountAt(t, t.row) = AmountAt(s, s.row)
    BY <1>4 DEF RowKey, AmountAt
  <2>2. Pays(s, u) => r = "success"
    BY <1>2, <1>7 DEF ResultOf
  <2> QED
    BY <1>4, <1>5, <1>6, <2>1, <2>2 DEF PayRight
<1>11. ~Pays(t, u) /\ (\A v \in Workers \ {w} : ~Pays(settlers[v], u)) => Squared(list, u)
  BY <1>5, <1>9 DEF RightFor
<1>12. \A v \in Workers \ {w} : calls'[v] = calls[v]
  BY DEF GrantEnds, Credit!Return, RankInv, AwardInv, P!PayoutOK, P!CallsOK
<1> QED
  BY <1>1, <1>2, <1>9, <1>10, <1>11, <1>12, OneRightStep

LEMMA WriteRight ==
  ASSUME RankInv, NEW u \in Users \ troubled', UserOK(u), RightFor(u), NEW w \in Workers, WriteAward(w)
  PROVE  RightFor(u)'
<1> DEFINE s == settlers[w]
           row == [status |-> s.result, amount |-> AmountAt(s, s.row)]
<1>1. s.at = "award" /\ Advance(w, s) /\ UNCHANGED <<final, applied, sent>>
  BY DEF WriteAward
<1>2. s = [f \in Fields |-> s[f]] /\ s.row \in Nat /\ OnBoard(s)
  BY <1>1 DEF RankInv, AwardInv, SettlersOK, SettlerOK, Shape, Idle
<1>3. Paying(w) /\ \A v \in Workers \ {w} : ~Paying(v)
  BY <1>1 DEF Paying, UserOK
<1>4. PlanOK(s, awards, u) /\ Knows(s, awards, u) /\ PayRight(s, calls[w], u)
  BY <1>1 DEF UserOK, PlanOK, RightFor
<1>5. PICK list : list = awards'
  OBVIOUS
<1>6. CASE s.ranking[s.row] = u
  <2>1. list = [v \in DOMAIN awards \cup {u} |-> IF v = u THEN row ELSE awards[v]]
    BY <1>5, <1>6 DEF WriteAward, UserAt
  <2>2. Pays(s, u)
    BY <1>1, <1>6 DEF Pays
  <2>3. PICK k, a : k = RowKey(s) /\ a = AmountAt(s, s.row)
    OBVIOUS
  <2>4. s.result = "success" /\ a # 0 /\ P!Asked(k, a)
    BY <1>1, <1>4, <2>2, <2>3 DEF PayRight
  <2>5. u \in DOMAIN list /\ list[u].status = "success" /\ list[u].amount = a
    BY <2>1, <2>3, <2>4
  <2>6. k \in KeysOf(u)
    BY <1>2, <1>6, <2>3, SlotKeys DEF OnBoard, RowKey
  <2>7. Squared(list, u)
    BY <1>4, <2>2, <2>3, <2>4, <2>5, <2>6 DEF PlanOK, Squared
  <2>8. Knows(s, list, u)
    <3>1. \A i \in DOMAIN s.ranking : s.ranking[i] = u => i = s.row
      BY <1>2, <1>6, RankedOnce DEF OnBoard
    <3> QED
      BY <1>2, <3>1 DEF Knows
  <2> QED
    BY <1>1, <1>2, <1>3, <1>5, <2>7, <2>8, AdvanceRight DEF OnBoard
<1>7. CASE s.ranking[s.row] # u
  <2>1. (u \in DOMAIN list <=> u \in DOMAIN awards) /\ (u \in DOMAIN awards => list[u] = awards[u])
    <3>1. CASE list = awards
      BY <3>1
    <3>2. CASE list = [v \in DOMAIN awards \cup {s.ranking[s.row]} |->
                          IF v = s.ranking[s.row] THEN row ELSE awards[v]]
      BY <1>7, <3>2
    <3> QED
      BY <1>5, <3>1, <3>2 DEF WriteAward, UserAt
  <2>2. \A v \in Workers : ~Pays(settlers[v], u)
    BY <1>3, <1>7 DEF Pays, Paying
  <2>3. Squared(list, u)
    BY <2>1, <2>2 DEF RightFor, Squared
  <2>4. Knows(s, list, u)
    BY <1>4, <2>1 DEF Knows, Marked
  <2> QED
    BY <1>1, <1>2, <1>3, <1>5, <2>3, <2>4, AdvanceRight DEF OnBoard
<1> QED
  BY <1>6, <1>7

LEMMA CrashRight ==
  ASSUME RankInv, NEW u \in Users \ troubled', RightFor(u), Crash
  PROVE  RightFor(u)'
<1>1. settlers' = [w \in Workers |-> Idle] /\ UNCHANGED <<awards, final, applied, sent>>
  BY DEF Crash, Credit!Crash
<1>2. \A w \in Workers : ~Pays(settlers[w], u)
  BY DEF Crash, UserAt, Pays
<1>3. PICK list : list = awards
  OBVIOUS
<1>4. Squared(list, u)
  BY <1>2, <1>3 DEF RightFor
<1>5. Squared(list, u)'
  BY <1>1, <1>4 DEF Squared, Rests, P!Calm, P!Final, P!Asked
<1>6. \A w \in Workers : settlers'[w].at = "idle"
  BY <1>1 DEF Idle
<1> QED
  BY <1>1, <1>3, <1>5, <1>6 DEF RightFor, PayRight, Pays

\* A settlement's steps outside the payments, in one form.
Quiet(w) ==
    /\ \E t : settlers' = [settlers EXCEPT ![w] = t] /\ t.at \notin {"pay", "award"}
    /\ settlers[w].at \notin {"pay", "award"}
    /\ UNCHANGED <<creditVars, awards>>

Serves ==
    /\ UNCHANGED <<settlers, awards, troubled>>
    /\ UNCHANGED creditVars \/ Credit!Upstream \/ \E v \in Workers : Credit!WorkerStep(v)

\* Every step is one of six kinds.
LEMMA Kinds ==
  ASSUME AwardInv, [Next]_vars
  PROVE  \/ Serves
         \/ Crash
         \/ \E w \in Workers : Quiet(w) \/ Plan(w) \/ GrantEnds(w) \/ WriteAward(w)
<1>1. ASSUME NEW w \in Workers, settlers[w].at \notin {"pay", "award"}, settlers[w] # Idle,
             UNCHANGED <<creditVars, awards>>, NEW at, Goto(w, at), at \notin {"pay", "award"}
      PROVE  Quiet(w)
  <2>1. settlers[w] = [f \in Fields |-> settlers[w][f]]
    BY <1>1 DEF AwardInv, SettlersOK, SettlerOK, Shape
  <2>2. PICK t : t = [settlers[w] EXCEPT !.at = at]
    OBVIOUS
  <2>3. settlers' = [settlers EXCEPT ![w] = t] /\ t.at = at
    BY <1>1, <2>1, <2>2 DEF Goto, Fields
  <2> QED
    BY <1>1, <2>3 DEF Quiet
<1>2. ASSUME NEW w \in Workers, settlers[w].at \notin {"pay", "award"},
             UNCHANGED <<creditVars, awards>>, settlers' = [settlers EXCEPT ![w] = Idle]
      PROVE  Quiet(w)
  <2>1. Idle.at = "idle"
    BY DEF Idle
  <2> QED
    BY <1>2, <2>1 DEF Quiet
<1>3. ASSUME NEW w \in Workers, BeginManual(w) \/ BeginScheduled(w)
      PROVE  Quiet(w)
  <2>1. PICK trigger, t : /\ t = Settler(trigger)
                          /\ settlers' = [settlers EXCEPT ![w] = t]
                          /\ settlers[w] = Idle /\ UNCHANGED <<creditVars, awards>>
    BY <1>3 DEF BeginManual, BeginScheduled
  <2>2. t.at = "ensure" /\ settlers[w].at = "idle"
    BY <2>1 DEF Settler, Idle
  <2> QED
    BY <2>1, <2>2 DEF Quiet
<1>4. ASSUME NEW w \in Workers,
             \/ EnsurePeriod(w) \/ MarkRunning(w) \/ ReadFails(w) \/ MarkFailure(w)
             \/ Finish(w) \/ CloseCampaign(w) \/ SettlementFails(w)
      PROVE  Quiet(w)
  <2>1. settlers[w] # Idle /\ settlers[w].at \notin {"pay", "award"} /\ UNCHANGED <<creditVars, awards>>
    BY <1>4 DEF EnsurePeriod, MarkRunning, ReadFails, MarkFailure, Finish, CloseCampaign,
       SettlementFails, Idle
  <2>2. \/ settlers' = [settlers EXCEPT ![w] = Idle]
        \/ \E at : Goto(w, at) /\ at \notin {"pay", "award"}
    BY <1>4 DEF EnsurePeriod, MarkRunning, ReadFails, MarkFailure, Finish, CloseCampaign,
       SettlementFails, EndSettlement
  <2> QED
    BY <1>1, <1>2, <2>1, <2>2
<1>5. ASSUME NEW w \in Workers, CreditStep(w)
      PROVE  Serves
  BY <1>5 DEF CreditStep, Credit!WorkerStep, Serves
<1>6. CASE Admin \/ Upstream \/ Age \/ UNCHANGED vars
  BY <1>6 DEF Serves, Admin, Create, Edit, BeginCancel, Cancel, DeleteIfNoAwards, Upstream, Age,
     vars, historyVars
<1> QED
  BY <1>3, <1>4, <1>5, <1>6 DEF Next, SettlerStep

LEMMA RightStep ==
  ASSUME RankInv, \A u \in Users \ troubled : RightFor(u), [Next]_vars, NEW u \in Users \ troubled'
  PROVE  RightFor(u)'
<1>1. UserOK(u) /\ RightFor(u)
  BY TroubleStays DEF RankInv
<1>2. AwardInv
  BY DEF RankInv
<1>3. CASE Serves
  BY <1>1, <1>3, RightKept DEF Serves
<1>4. CASE Crash
  BY <1>1, <1>4, CrashRight
<1>5. ASSUME NEW w \in Workers, Quiet(w)
      PROVE  RightFor(u)'
  BY <1>1, <1>5, QuietRight DEF Quiet
<1> QED
  BY <1>1, <1>2, <1>3, <1>4, <1>5, Kinds, PlanRight, GrantRight, WriteRight

-----------------------------------------------------------------------------
(***************************************************************************)
(* The budget.  A settlement that pays has counted at least what the users  *)
(* without a failure were paid, those of earlier settlements included, and  *)
(* pays a row only if the cap has room for it.  The totals are of what is   *)
(* due: money that has moved, and money whose request may still be applied  *)
(* though its payment was booked, which upstream does without a step of     *)
(* anybody's.                                                               *)
(***************************************************************************)
Clean == Users \ troubled

\* What moved under a slot, or what a request under way will move.
Due(k) ==
    IF applied[k] # 0 THEN applied[k]
    ELSE IF \E m \in sent : m.up = k THEN (CHOOSE m \in sent : m.up = k).delta
    ELSE 0

Dues == [k \in Keys |-> Due(k)]
DueTo(u) == SumFunctionOnSet(Dues, KeysOf(u))
Money == [u \in Users |-> DueTo(u)]
Total(S) == SumFunctionOnSet(Money, S)

\* The amount n fits in one of the limits.
Fits(limits, n) == \E cap \in limits \cup {0} : n <= cap

\* C holds the users without a failure.
Within(s, C, limits) ==
    /\ s.at = "pay" =>
          /\ Fits(limits, s.spent + AmountAt(s, s.row))
          /\ Total(C \ {s.ranking[s.row]}) <= s.spent
    /\ s.at = "award" => Total(C) <= s.spent

Capped ==
    /\ (\A w \in Workers : settlers[w].at # "pay") => Fits(caps, Total(Clean))
    /\ \A w \in Workers : Within(settlers[w], Clean, caps)

SquareInv == RankInv /\ Typed /\ \A u \in Users \ troubled : RightFor(u)

CapInv == SquareInv /\ (0 \notin caps /\ Clean # {} => Capped)

LEMMA FitsBelow ==
  ASSUME NEW limits, limits \subseteq Nat, NEW n \in Nat, NEW m \in Nat, m <= n, Fits(limits, n)
  PROVE  Fits(limits, m)
<1>1. PICK cap \in limits \cup {0} : n <= cap
  BY DEF Fits
<1>2. cap \in Nat
  OBVIOUS
<1> QED
  BY <1>1, <1>2 DEF Fits

LEMMA FitsMore ==
  ASSUME NEW limits, NEW others, limits \subseteq others, NEW n, Fits(limits, n)
  PROVE  Fits(others, n)
  BY DEF Fits

LEMMA CapsAreNat == ASSUME SquareInv PROVE caps \subseteq Nat
  BY DEF SquareInv, Typed, CampaignTyped

\* One amount is all that is due under a slot where no other was asked for.
LEMMA DueNextOfAsked ==
  ASSUME NEW k, NEW a, P!Asked(k, a)'
  PROVE  Due(k)' \in {0, a}
<1>1. applied'[k] \in {0, a} /\ \A m \in sent' : m.up = k => m.delta = a
  BY DEF P!Asked
<1>2. CASE applied'[k] # 0
  BY <1>1, <1>2 DEF Due
<1>3. CASE applied'[k] = 0 /\ \E m \in sent' : m.up = k
  <2>1. PICK n : n = CHOOSE m \in sent' : m.up = k
    OBVIOUS
  <2>2. n \in sent' /\ n.up = k
    BY <1>3, <2>1
  <2> QED
    BY <1>1, <1>3, <2>1, <2>2 DEF Due
<1>4. CASE applied'[k] = 0 /\ ~\E m \in sent' : m.up = k
  BY <1>4 DEF Due
<1> QED
  BY <1>2, <1>3, <1>4

LEMMA DueOfAsked ==
  ASSUME NEW k, NEW a, P!Asked(k, a)
  PROVE  Due(k) \in {0, a} /\ applied[k] \in {0, Due(k)}
<1>1. applied[k] \in {0, a} /\ \A m \in sent : m.up = k => m.delta = a
  BY DEF P!Asked
<1>2. CASE applied[k] # 0
  BY <1>1, <1>2 DEF Due
<1>3. CASE applied[k] = 0 /\ \E m \in sent : m.up = k
  <2>1. PICK c : c = CHOOSE m \in sent : m.up = k
    OBVIOUS
  <2>2. c \in sent /\ c.up = k
    BY <1>3, <2>1
  <2> QED
    BY <1>1, <1>3, <2>1, <2>2 DEF Due
<1>4. CASE applied[k] = 0 /\ ~\E m \in sent : m.up = k
  BY <1>4 DEF Due
<1> QED
  BY <1>2, <1>3, <1>4

LEMMA DueOfRest ==
  ASSUME NEW k, applied[k] = 0, P!Calm(k)
  PROVE  Due(k) = 0 /\ P!Asked(k, 0)
  BY DEF Due, P!Calm, P!Asked

LEMMA DueUnderOne ==
  ASSUME NEW u \in Users, NEW k \in KeysOf(u), Due(k) \in Int, Rests(KeysOf(u) \ {k})
  PROVE  DueTo(u) = Due(k)
<1>1. PICK d : d = Dues
  OBVIOUS
<1>2. \A j \in KeysOf(u) : d[j] = Due(j)
  BY <1>1, KeysOfAreKeys DEF Dues
<1>3. \A j \in KeysOf(u) \ {k} : d[j] = 0
  BY <1>2, DueOfRest DEF Rests
<1>4. IsFiniteSet(KeysOf(u)) /\ P!IsFiniteSet(KeysOf(u))
  BY KeysAreFinite, FiniteAgrees
<1>5. P!SumFunctionOnSet(d, KeysOf(u)) = d[k]
  BY <1>2, <1>3, <1>4, P!SumOfOne
<1> QED
  BY <1>1, <1>2, <1>5, SumAgrees DEF DueTo

LEMMA DueNothing ==
  ASSUME NEW u \in Users, Rests(KeysOf(u))
  PROVE  DueTo(u) = 0
<1>1. PICK d : d = Dues
  OBVIOUS
<1>2. \A j \in KeysOf(u) : d[j] = 0
  BY <1>1, KeysOfAreKeys, DueOfRest DEF Dues, Rests
<1>3. IsFiniteSet(KeysOf(u)) /\ P!IsFiniteSet(KeysOf(u))
  BY KeysAreFinite, FiniteAgrees
<1>4. P!SumFunctionOnSet(d, KeysOf(u)) = 0
  BY <1>2, <1>3, P!SumOfNothing
<1> QED
  BY <1>1, <1>4, SumAgrees DEF DueTo

\* While a user is paid, nothing is due or the amount of the row.
LEMMA DueOfRow ==
  ASSUME SquareInv, NEW u \in Clean, NEW w \in Workers, Pays(settlers[w], u)
  PROVE  DueTo(u) \in {0, AmountAt(settlers[w], settlers[w].row)}
<1>1. PICK s, k, a : s = settlers[w] /\ k = RowKey(s) /\ a = AmountAt(s, s.row)
  OBVIOUS
<1>2. s # Idle /\ OnBoard(s) /\ s.ranking[s.row] = u /\ s.rules \in Rules
  BY <1>1 DEF SquareInv, RankInv, AwardInv, SettlersOK, SettlerOK, Pays, Idle, Typed, AllCount, Counts
<1>3. k \in KeysOf(u) /\ a \in Nat /\ u \in Users
  BY <1>1, <1>2, SlotKeys, AmountIsNat DEF OnBoard, RowKey, AmountAt, Clean
<1>4. P!Asked(k, a)
  BY <1>1 DEF SquareInv, Clean, RightFor, PayRight
<1>5. Rests(KeysOf(u) \ {k})
  BY <1>1 DEF SquareInv, Clean, RankInv, UserOK, PlanOK
<1>6. Due(k) \in {0, a}
  BY <1>4, DueOfAsked
<1>7. DueTo(u) = Due(k)
  BY <1>3, <1>5, <1>6, DueUnderOne
<1> QED
  BY <1>1, <1>6, <1>7

\* Otherwise what the award says, at most.
LEMMA DueOfAward ==
  ASSUME SquareInv, NEW u \in Clean, \A w \in Workers : ~Pays(settlers[w], u)
  PROVE  \/ DueTo(u) = 0
         \/ /\ u \in DOMAIN awards /\ awards[u].status = "success"
            /\ DueTo(u) = awards[u].amount /\ awards[u].amount \in Nat
<1>1. PICK list : list = awards
  OBVIOUS
<1>2. Squared(list, u) /\ u \in Users
  BY <1>1 DEF SquareInv, Clean, RightFor
<1>3. CASE Rests(KeysOf(u))
  BY <1>2, <1>3, DueNothing
<1>4. CASE ~Rests(KeysOf(u))
  <2>1. u \in DOMAIN list /\ list[u].status = "success"
    BY <1>2, <1>4 DEF Squared
  <2>2. PICK k \in KeysOf(u) : P!Asked(k, list[u].amount) /\ Rests(KeysOf(u) \ {k})
    BY <1>2, <1>4 DEF Squared
  <2>3. list[u].amount \in Nat
    BY <1>1, <2>1 DEF SquareInv, Typed, AwardsTyped
  <2>4. Due(k) \in {0, list[u].amount}
    BY <2>2, DueOfAsked
  <2>5. DueTo(u) = Due(k)
    BY <1>2, <2>2, <2>3, <2>4, DueUnderOne
  <2> QED
    BY <1>1, <2>1, <2>3, <2>4, <2>5
<1> QED
  BY <1>3, <1>4

\* One amount at most was asked for under each slot.
LEMMA SlotsAsk ==
  ASSUME SquareInv, NEW u \in Clean, NEW k \in KeysOf(u)
  PROVE  \E a \in Nat : P!Asked(k, a)
<1>1. RightFor(u) /\ UserOK(u)
  BY DEF SquareInv, RankInv, Clean
<1>2. ASSUME NEW j, NEW a \in Nat, P!Asked(j, a), Rests(KeysOf(u) \ {j})
      PROVE  \E b \in Nat : P!Asked(k, b)
  <2>1. CASE k = j
    BY <1>2, <2>1
  <2>2. CASE k # j
    BY <1>2, <2>2, DueOfRest DEF Rests
  <2> QED
    BY <2>1, <2>2
<1>3. CASE \A w \in Workers : ~Pays(settlers[w], u)
  <2>1. PICK list : list = awards
    OBVIOUS
  <2>2. Squared(list, u)
    BY <1>1, <1>3, <2>1 DEF RightFor
  <2>3. CASE Rests(KeysOf(u))
    BY <2>3, DueOfRest DEF Rests
  <2>4. CASE ~Rests(KeysOf(u))
    <3>1. u \in DOMAIN list
      BY <2>2, <2>4 DEF Squared
    <3>2. list[u].amount \in Nat
      BY <2>1, <3>1 DEF SquareInv, Typed, AwardsTyped
    <3>3. PICK a, j : a = list[u].amount /\ P!Asked(j, a) /\ Rests(KeysOf(u) \ {j})
      BY <2>2, <2>4 DEF Squared
    <3> QED
      BY <1>2, <3>2, <3>3
  <2> QED
    BY <2>3, <2>4
<1>4. ASSUME NEW w \in Workers, Pays(settlers[w], u)
      PROVE  \E a \in Nat : P!Asked(k, a)
  <2>1. PICK j, a : j = RowKey(settlers[w]) /\ a = AmountAt(settlers[w], settlers[w].row)
    OBVIOUS
  <2>2. settlers[w] # Idle
    BY <1>4 DEF Pays, Idle
  <2>3. a \in Nat
    BY <2>1, <2>2, AmountIsNat DEF AmountAt, SquareInv, Typed, AllCount, Counts
  <2>4. P!Asked(j, a)
    BY <1>1, <1>4, <2>1 DEF RightFor, PayRight
  <2>5. Rests(KeysOf(u) \ {j})
    BY <1>1, <1>4, <2>1 DEF UserOK, PlanOK
  <2> QED
    BY <1>2, <2>3, <2>4, <2>5
<1> QED
  BY <1>3, <1>4

LEMMA DueIsNat ==
  ASSUME SquareInv, NEW u \in Clean
  PROVE  DueTo(u) \in Nat
<1>1. ASSUME NEW w \in Workers, Pays(settlers[w], u)
      PROVE  DueTo(u) \in Nat
  <2>1. settlers[w] # Idle
    BY <1>1 DEF Pays, Idle
  <2>2. AmountAt(settlers[w], settlers[w].row) \in Nat
    BY <2>1, AmountIsNat DEF AmountAt, SquareInv, Typed, AllCount, Counts
  <2> QED
    BY <1>1, <2>2, DueOfRow
<1> QED
  BY <1>1, DueOfAward

\* No more has moved than was due.
LEMMA PaidIsDue ==
  ASSUME SquareInv, NEW u \in Clean
  PROVE  PaidTo(u) \in Nat /\ PaidTo(u) <= DueTo(u)
<1>1. PICK K, f, d : K = KeysOf(u) /\ f = applied /\ d = Dues
  OBVIOUS
<1>2. u \in Users /\ K \subseteq Keys
  BY <1>1, KeysOfAreKeys DEF Clean
<1>3. \A k \in K : f[k] \in Nat /\ d[k] \in Nat /\ f[k] <= d[k]
  <2>1. ASSUME NEW k \in K
        PROVE  f[k] \in Nat /\ d[k] \in Nat /\ f[k] <= d[k]
    <3>1. PICK a \in Nat : P!Asked(k, a)
      BY <1>1, SlotsAsk
    <3>2. d[k] = Due(k)
      BY <1>1, <1>2 DEF Dues
    <3>3. Due(k) \in {0, a} /\ f[k] \in {0, Due(k)}
      BY <1>1, <3>1, DueOfAsked
    <3> QED
      BY <3>2, <3>3
  <2> QED
    BY <2>1
<1>4. P!IsFiniteSet(K)
  BY <1>1, KeysAreFinite, FiniteAgrees
<1>5. P!SumFunctionOnSet(f, K) <= P!SumFunctionOnSet(d, K)
  BY <1>3, <1>4, P!SumBound
<1>6. P!SumFunctionOnSet(f, K) \in Nat
  BY <1>3, <1>4, P!SumNat
<1> QED
  BY <1>1, <1>5, <1>6, SumAgrees DEF PaidTo, DueTo

\* Totals of users without a failure.
LEMMA Totals ==
  ASSUME SquareInv, NEW S, S \subseteq Clean
  PROVE  /\ Total(S) \in Nat
         /\ \A R \in SUBSET S : Total(R) <= Total(S)
         /\ \A u \in S : Total(S) = DueTo(u) + Total(S \ {u})
<1>1. PICK m : m = Money
  OBVIOUS
<1>2. \A u \in S : m[u] = DueTo(u) /\ m[u] \in Nat
  BY <1>1, DueIsNat DEF Money, Clean
<1>3. P!IsFiniteSet(S)
  BY CampaignAssumption, FS_Subset, FiniteAgrees DEF Clean
<1>4. P!SumFunctionOnSet(m, S) \in Nat
  BY <1>2, <1>3, P!SumNat
<1>5. \A R \in SUBSET S : P!SumFunctionOnSet(m, R) <= P!SumFunctionOnSet(m, S)
  BY <1>2, <1>3, P!SumWithin
<1>6. \A u \in S : P!SumFunctionOnSet(m, S) = m[u] + P!SumFunctionOnSet(m, S \ {u})
  <2>1. \A u \in S : m[u] \in Int
    BY <1>2
  <2> QED
    BY <1>3, <2>1, P!SumAny
<1>7. \A A : Total(A) = P!SumFunctionOnSet(m, A)
  BY <1>1, SumAgrees DEF Total
<1> QED
  BY <1>2, <1>4, <1>5, <1>6, <1>7

LEMMA TotalFalls ==
  ASSUME NEW S, S \subseteq Users,
         \A u \in S : DueTo(u) \in Nat /\ DueTo(u)' \in Nat /\ DueTo(u)' <= DueTo(u)
  PROVE  Total(S)' <= Total(S) /\ Total(S)' \in Nat /\ Total(S) \in Nat
<1>1. PICK m, n : m = Money /\ n = Money'
  OBVIOUS
<1>2. \A u \in S : m[u] \in Nat /\ n[u] \in Nat /\ n[u] <= m[u]
  BY <1>1 DEF Money
<1>3. P!IsFiniteSet(S)
  BY CampaignAssumption, FS_Subset, FiniteAgrees
<1>4. /\ P!SumFunctionOnSet(n, S) <= P!SumFunctionOnSet(m, S)
      /\ P!SumFunctionOnSet(n, S) \in Nat /\ P!SumFunctionOnSet(m, S) \in Nat
  BY <1>2, <1>3, P!SumBound, P!SumNat
<1> QED
  BY <1>1, <1>4, SumAgrees DEF Total

LEMMA TotalStays ==
  ASSUME NEW S, S \subseteq Users, \A u \in S : DueTo(u)' = DueTo(u)
  PROVE  Total(S)' = Total(S)
<1>1. PICK m, n : m = Money /\ n = Money'
  OBVIOUS
<1>2. \A u \in S : m[u] = n[u]
  BY <1>1 DEF Money
<1>3. P!IsFiniteSet(S)
  BY CampaignAssumption, FS_Subset, FiniteAgrees
<1>4. P!SumFunctionOnSet(m, S) = P!SumFunctionOnSet(n, S)
  BY <1>2, <1>3, P!SumSame
<1> QED
  BY <1>1, <1>4, SumAgrees DEF Total

\* The awards of a period account for all that was paid.
LEMMA AwardsCount ==
  ASSUME SquareInv, \A w \in Workers : settlers[w].at \notin {"pay", "award"}
  PROVE  Total(Clean) <= AlreadySpent(awards)
<1>1. PICK m, f, S, D : m = Money /\ f = SpentIn(awards) /\ S = Clean /\ D = DOMAIN awards
  OBVIOUS
<1>2. \A u \in S : m[u] = DueTo(u) /\ m[u] \in Nat /\ m[u] \in Int
  BY <1>1, DueIsNat DEF Money, Clean
<1>3. P!IsFiniteSet(S) /\ P!IsFiniteSet(S \cap D) /\ P!IsFiniteSet(D)
  BY <1>1, CampaignAssumption, FS_Subset, FiniteAgrees DEF Clean, SquareInv, Typed, AwardsTyped
<1>4. \A u \in D : f[u] \in Nat /\ f[u] \in Int
  BY <1>1 DEF SpentIn, SquareInv, Typed, AwardsTyped
<1>5. ASSUME NEW u \in S
      PROVE  (u \notin D => m[u] = 0) /\ (u \in D => m[u] <= f[u])
  <2>1. \A w \in Workers : ~Pays(settlers[w], u)
    BY DEF Pays
  <2>2. DueTo(u) = 0 \/ (u \in D /\ DueTo(u) = f[u])
    BY <1>1, <2>1, DueOfAward DEF SpentIn
  <2> QED
    BY <1>2, <1>4, <2>2
<1>6. P!SumFunctionOnSet(m, S) = P!SumFunctionOnSet(m, S \cap D)
  BY <1>2, <1>3, <1>5, P!SumSupport
<1>7. P!SumFunctionOnSet(m, S \cap D) <= P!SumFunctionOnSet(f, S \cap D)
  BY <1>2, <1>3, <1>4, <1>5, P!SumBound
<1>8. P!SumFunctionOnSet(f, S \cap D) <= P!SumFunctionOnSet(f, D)
  BY <1>3, <1>4, P!SumWithin
<1>9. /\ P!SumFunctionOnSet(m, S) \in Nat /\ P!SumFunctionOnSet(m, S \cap D) \in Nat
      /\ P!SumFunctionOnSet(f, S \cap D) \in Nat /\ P!SumFunctionOnSet(f, D) \in Nat
  BY <1>2, <1>3, <1>4, P!SumNat
<1>10. AlreadySpent(awards) = P!SumFunctionOnSet(f, D)
  <2>1. DOMAIN f = D /\ AlreadySpent(awards) = SumFunction(f)
    BY <1>1 DEF SpentIn, AlreadySpent
  <2> QED
    BY <2>1, SumAgrees DEF SumFunction
<1>11. Total(Clean) = P!SumFunctionOnSet(m, S)
  BY <1>1, SumAgrees DEF Total
<1> QED
  BY <1>6, <1>7, <1>8, <1>9, <1>10, <1>11

(***************************************************************************)
(* What the service does to the users nobody waits for.                     *)
(***************************************************************************)
LEMMA DueFalls ==
  ASSUME SquareInv, SquareInv', CreditMove, NEW u \in Clean, u \in Clean',
         \A w \in Workers : settlers[w].at = "pay" => settlers[w].ranking[settlers[w].row] # u
  PROVE  DueTo(u) \in Nat /\ DueTo(u)' \in Nat /\ DueTo(u)' <= DueTo(u)
<1>1. PICK K, f, g : K = KeysOf(u) /\ f = Dues /\ g = Dues'
  OBVIOUS
<1>2. P!PayoutOK /\ P!Move /\ K \subseteq Keys
  BY <1>1, MoveIsMove, KeysOfAreKeys DEF SquareInv, RankInv, AwardInv, Clean
<1>3. \A w \in Workers : calls[w] # P!Idle => calls[w].req.key \notin K
  <2>1. SUFFICES ASSUME NEW w \in Workers, calls[w] # P!Idle, calls[w].req.key \in K
                 PROVE  FALSE
    OBVIOUS
  <2>2. Pays(settlers[w], u) /\ settlers[w].at = "pay"
    BY <1>1, <2>1, CallsAreRows DEF SquareInv, RankInv, CallsPlaced, Clean
  <2> QED
    BY <2>2 DEF Pays
<1>4. ASSUME NEW k \in K
      PROVE  f[k] \in Nat /\ g[k] \in Nat /\ g[k] <= f[k]
  <2>1. PICK a \in Nat : P!Asked(k, a)
    BY <1>1, SlotsAsk
  <2>2. k \in Keys /\ f[k] = Due(k) /\ g[k] = Due(k)'
    BY <1>1, <1>2 DEF Dues
  <2>3. \A w \in Workers : ~P!Under(w, k)
    BY <1>2, <1>3, <2>2 DEF P!Under, P!PayoutOK, P!CallsOK, P!CallOK, UpKeyOf
  <2>4. P!Asked(k, a)'
    BY <1>2, <2>1, <2>2, <2>3, MappedHolds, P!AskedStays
  <2>5. Due(k) \in {0, a} /\ Due(k)' \in {0, a}
    <3>1. Due(k) \in {0, a}
      BY <2>1, DueOfAsked
    <3>2. Due(k)' \in {0, a}
      BY <2>4, DueNextOfAsked
    <3> QED
      BY <3>1, <3>2
  <2>6. Due(k) = 0 => Due(k)' = 0
    <3>1. SUFFICES ASSUME Due(k) = 0, a # 0 PROVE Due(k)' = 0
      BY <2>5
    <3>2. applied[k] = 0 /\ \A m \in sent : m.up # k
      <4>1. applied[k] = 0
        BY <3>1 DEF Due
      <4>2. ASSUME NEW m \in sent, m.up = k PROVE FALSE
        <5>1. PICK c : c = CHOOSE x \in sent : x.up = k
          OBVIOUS
        <5>2. c \in sent /\ c.up = k
          BY <4>2, <5>1
        <5>3. Due(k) = c.delta
          BY <4>1, <4>2, <5>1 DEF Due
        <5> QED
          BY <2>1, <3>1, <5>2, <5>3 DEF P!Asked
      <4> QED
        BY <4>1, <4>2
    <3>3. P!Calm(k)' /\ applied'[k] = 0
      BY <1>2, <2>2, <2>3, <3>2, MappedHolds, P!CalmStays DEF P!Calm
    <3> QED
      BY <3>3 DEF Due, P!Calm
  <2> QED
    BY <2>2, <2>5, <2>6
<1>5. P!IsFiniteSet(K)
  BY <1>1, KeysAreFinite, FiniteAgrees
<1>6. /\ P!SumFunctionOnSet(g, K) <= P!SumFunctionOnSet(f, K)
      /\ P!SumFunctionOnSet(g, K) \in Nat /\ P!SumFunctionOnSet(f, K) \in Nat
  BY <1>4, <1>5, P!SumBound, P!SumNat
<1> QED
  BY <1>1, <1>6, SumAgrees DEF DueTo, KeysOf

\* Nothing is paid when the money stays.
LEMMA NothingPaid ==
  ASSUME UNCHANGED <<applied, sent>>, NEW S, S \subseteq Users
  PROVE  Total(S)' = Total(S)
<1>1. \A u \in S : DueTo(u)' = DueTo(u)
  BY DEF DueTo, Dues, Due, KeysOf
<1> QED
  BY <1>1, TotalStays

LEMMA Alone ==
  ASSUME SquareInv, Clean # {}, NEW v \in Workers, NEW w \in Workers, Paying(v), Paying(w)
  PROVE  v = w
<1>1. PICK u : u \in Clean
  OBVIOUS
<1> QED
  BY <1>1 DEF SquareInv, RankInv, Clean, UserOK

LEMMA NewCapped ==
  ASSUME NEW D, Clean' = D, NEW F, settlers' = F, NEW L, caps' = L,
         (\A w \in Workers : F[w].at # "pay") => Fits(L, Total(D)'),
         \A w \in Workers : Within(F[w], D, L)'
  PROVE  Capped'
<1>1. Total(Clean)' = Total(D)'
  BY DEF Total
<1>2. ASSUME NEW w \in Workers
      PROVE  Within(settlers[w], Clean, caps)'
  BY DEF Within, Total
<1> QED
  BY <1>1, <1>2 DEF Capped, Fits

(***************************************************************************)
(* A step for each kind.                                                    *)
(***************************************************************************)
LEMMA ServesCapped ==
  ASSUME SquareInv, SquareInv', caps \subseteq caps', Clean # {}, Capped, Serves
  PROVE  Capped'
<1>1. PICK C, F, L : C = Clean /\ F = settlers /\ L = caps'
  OBVIOUS
<1>2. Clean' = C /\ settlers' = F /\ CreditMove /\ C \subseteq Users /\ caps \subseteq L
  BY <1>1 DEF Serves, CreditMove, Clean
<1>0. L \subseteq Nat
  BY <1>1 DEF SquareInv, Typed, CampaignTyped
<1>3. ASSUME \A w \in Workers : F[w].at # "pay"
      PROVE  Fits(L, Total(C)')
  <2>1. \A u \in C : DueTo(u) \in Nat /\ DueTo(u)' \in Nat /\ DueTo(u)' <= DueTo(u)
    BY <1>1, <1>2, <1>3, DueFalls
  <2>2. Total(C)' <= Total(C) /\ Total(C)' \in Nat /\ Total(C) \in Nat
    BY <1>2, <2>1, TotalFalls
  <2>3. Fits(L, Total(C))
    BY <1>1, <1>2, <1>3, FitsMore DEF Capped
  <2>4. PICK m, n : m = Total(C)' /\ n = Total(C)
    OBVIOUS
  <2> QED
    BY <1>0, <2>2, <2>3, <2>4, FitsBelow
<1>4. ASSUME NEW w \in Workers
      PROVE  Within(F[w], C, L)'
  <2>1. PICK s : s = F[w]
    OBVIOUS
  <2>2. Within(s, C, caps)
    BY <1>1, <2>1 DEF Capped
  <2>3. ASSUME s.at = "pay"
        PROVE  Fits(L, s.spent + AmountAt(s, s.row)) /\ Total(C \ {s.ranking[s.row]})' <= s.spent
    <3>1. PICK D : D = C \ {s.ranking[s.row]}
      OBVIOUS
    <3>2. ASSUME NEW v \in Workers, settlers[v].at = "pay"
          PROVE  v = w
      BY <1>1, <2>1, <2>3, <3>2, Alone DEF Paying
    <3>3. \A u \in D : DueTo(u) \in Nat /\ DueTo(u)' \in Nat /\ DueTo(u)' <= DueTo(u)
      BY <1>1, <1>2, <2>1, <3>1, <3>2, DueFalls
    <3>4. Total(D)' <= Total(D) /\ Total(D)' \in Nat /\ Total(D) \in Nat
      BY <1>2, <3>1, <3>3, TotalFalls
    <3>5. Fits(L, s.spent + AmountAt(s, s.row))
      BY <1>2, <2>2, <2>3, FitsMore DEF Within
    <3>6. s.spent \in Nat
      BY <1>1, <2>1, <2>3 DEF SquareInv, Typed, AllCount, Counts, Idle
    <3> QED
      BY <2>2, <2>3, <3>1, <3>4, <3>5, <3>6 DEF Within
  <2>4. ASSUME s.at = "award"
        PROVE  Total(C)' <= s.spent
    <3>1. ASSUME NEW v \in Workers
          PROVE  settlers[v].at # "pay"
      <4>1. SUFFICES ASSUME settlers[v].at = "pay" PROVE FALSE
        OBVIOUS
      <4>2. v = w
        BY <1>1, <2>1, <2>4, <4>1, Alone DEF Paying
      <4> QED
        BY <1>1, <2>1, <2>4, <4>1, <4>2
    <3>2. \A u \in C : DueTo(u) \in Nat /\ DueTo(u)' \in Nat /\ DueTo(u)' <= DueTo(u)
      BY <1>1, <1>2, <3>1, DueFalls
    <3>3. Total(C)' <= Total(C) /\ Total(C)' \in Nat /\ Total(C) \in Nat
      BY <1>2, <3>2, TotalFalls
    <3>4. s.spent \in Nat
      BY <1>1, <2>1, <2>4 DEF SquareInv, Typed, AllCount, Counts, Idle
    <3> QED
      BY <2>2, <2>4, <3>3, <3>4 DEF Within
  <2> QED
    BY <2>1, <2>3, <2>4 DEF Within, AmountAt, Fits
<1> QED
  BY <1>1, <1>2, <1>3, <1>4, NewCapped

LEMMA SpentIsAmount ==
  ASSUME SquareInv, NEW w \in Workers, settlers[w].at # "idle"
  PROVE  /\ settlers[w] # Idle /\ settlers[w].rules \in Rules /\ settlers[w].spent \in Nat
         /\ settlers[w].cap \in caps
         /\ \A i : AmountAt(settlers[w], i) \in Nat
<1>1. settlers[w] # Idle
  BY DEF Idle
<1>2. settlers[w].rules \in Rules /\ settlers[w].spent \in Nat /\ settlers[w].cap \in caps
  BY <1>1 DEF SquareInv, Typed, AllCount, Counts
<1> QED
  BY <1>1, <1>2, AmountIsNat DEF AmountAt

LEMMA QuietCapped ==
  ASSUME SquareInv, SquareInv', caps \subseteq caps', Clean' \subseteq Clean, Capped, NEW w \in Workers, Quiet(w)
  PROVE  Capped'
<1>1. PICK C, D, F, L : C = Clean /\ D = Clean' /\ F = settlers' /\ L = caps'
  OBVIOUS
<1>0. caps \subseteq L /\ L \subseteq Nat
  BY <1>1 DEF SquareInv, Typed, CampaignTyped
<1>2. C \subseteq Users /\ D \subseteq C
  BY <1>1 DEF Clean
<1>3. UNCHANGED <<applied, sent>>
  BY DEF Quiet, creditVars
<1>4. \A S \in SUBSET D : Total(S)' = Total(S)
  BY <1>2, <1>3, NothingPaid
<1>5. PICK t : /\ settlers' = [settlers EXCEPT ![w] = t] /\ t.at \notin {"pay", "award"}
               /\ settlers[w].at \notin {"pay", "award"}
  BY DEF Quiet
<1>6. F[w] = t /\ \A v \in Workers \ {w} : F[v] = settlers[v]
  BY <1>1, <1>5 DEF SquareInv, RankInv, AwardInv, SettlersOK
<1>7. Total(D) <= Total(C) /\ Total(D) \in Nat /\ Total(C) \in Nat
  BY <1>1, <1>2, Totals
<1>8. ASSUME \A v \in Workers : F[v].at # "pay"
      PROVE  Fits(L, Total(D)')
  <2>1. \A v \in Workers : settlers[v].at # "pay"
    BY <1>5, <1>6, <1>8
  <2>2. Fits(caps, Total(C)) /\ Total(D)' = Total(D)
    BY <1>1, <1>4, <2>1 DEF Capped
  <2>3. Fits(L, Total(C))
    BY <1>0, <2>2, FitsMore
  <2> QED
    BY <1>0, <1>7, <2>2, <2>3, FitsBelow
<1>9. ASSUME NEW v \in Workers
      PROVE  Within(F[v], D, L)'
  <2>1. CASE v = w
    BY <1>5, <1>6, <2>1 DEF Within
  <2>2. CASE v # w
    <3>1. PICK s : s = F[v]
      OBVIOUS
    <3>2. s = settlers[v] /\ Within(s, C, caps)
      BY <1>1, <1>6, <2>2, <3>1 DEF Capped
    <3>3. ASSUME s.at = "pay"
          PROVE  Fits(L, s.spent + AmountAt(s, s.row)) /\ Total(D \ {s.ranking[s.row]})' <= s.spent
      <4>1. PICK A, B : A = C \ {s.ranking[s.row]} /\ B = D \ {s.ranking[s.row]}
        OBVIOUS
      <4>2. B \subseteq A /\ A \subseteq Clean /\ B \subseteq Clean /\ B \in SUBSET D
        BY <1>1, <1>2, <4>1
      <4>3. Total(B) <= Total(A) /\ Total(A) \in Nat /\ Total(B) \in Nat
        BY <4>2, Totals
      <4>4. Total(B)' = Total(B)
        BY <1>4, <4>2
      <4>5. Total(A) <= s.spent /\ s.spent \in Nat
        BY <3>2, <3>3, <4>1, SpentIsAmount DEF Within
      <4>6. Fits(L, s.spent + AmountAt(s, s.row))
        BY <1>0, <3>2, <3>3, FitsMore DEF Within
      <4> QED
        BY <4>1, <4>3, <4>4, <4>5, <4>6
    <3>4. ASSUME s.at = "award"
          PROVE  Total(D)' <= s.spent
      <4>1. Total(C) <= s.spent /\ s.spent \in Nat
        BY <3>2, <3>4, SpentIsAmount DEF Within
      <4>2. Total(D)' = Total(D)
        BY <1>4
      <4> QED
        BY <1>7, <4>1, <4>2
    <3> QED
      BY <3>1, <3>3, <3>4 DEF Within, AmountAt, Fits
  <2> QED
    BY <2>1, <2>2
<1> QED
  BY <1>1, <1>8, <1>9, NewCapped

\* A settlement with room for what was paid goes on to a row there is room for.
LEMMA AdvanceCapped ==
  ASSUME SquareInv, NEW w \in Workers, \A v \in Workers \ {w} : ~Paying(v),
         NEW D, D \subseteq Clean, Clean' = D, NEW s,
         s = [f \in Fields |-> s[f]], s.ranking \in Rankings, s.row \in Nat,
         s.rules \in Rules, s.spent \in Nat, s.cap \in caps,
         Total(D) <= s.spent, 0 \notin caps, Fits(caps, Total(D)),
         Advance(w, s), UNCHANGED <<applied, sent, caps>>
  PROVE  Capped'
<1>1. PICK F, L : F = settlers' /\ L = caps
  OBVIOUS
<1>2. \A S \in SUBSET D : Total(S)' = Total(S)
  BY NothingPaid DEF Clean
<1>3. \A v \in Workers \ {w} : settlers[v].at \notin {"pay", "award"}
  BY DEF Paying
<1>4. ASSUME NEW t, F = [settlers EXCEPT ![w] = t]
      PROVE  F[w] = t /\ \A v \in Workers \ {w} : F[v] = settlers[v]
  BY <1>4 DEF SquareInv, RankInv, AwardInv, SettlersOK
<1>5. CASE NextRow(s) = 0
  <2>1. PICK t : t = [s EXCEPT !.at = "finish"]
    OBVIOUS
  <2>2. F = [settlers EXCEPT ![w] = t] /\ t.at = "finish"
    BY <1>1, <1>5, <2>1 DEF Advance, Fields
  <2>3. \A v \in Workers : F[v].at \notin {"pay", "award"}
    BY <1>3, <1>4, <2>2
  <2>4. \A v \in Workers : Within(F[v], D, L)'
    BY <2>3 DEF Within
  <2>5. Fits(L, Total(D)')
    BY <1>1, <1>2
  <2> QED
    BY <1>1, <2>4, <2>5, NewCapped
<1>6. CASE NextRow(s) # 0
  <2>1. PICK n : n = NextRow(s)
    OBVIOUS
  <2>2. n \in Nat /\ n # 0 /\ ~CutByBudget(s, n)
    BY <1>6, <2>1, NextRowIsPayable
  <2>3. PICK t : t = [s EXCEPT !.at = "pay", !.row = n]
    OBVIOUS
  <2>4. /\ t.at = "pay" /\ t.row = n /\ t.ranking = s.ranking /\ t.rules = s.rules
        /\ t.spent = s.spent
    BY <2>3 DEF Fields
  <2>5. F = [settlers EXCEPT ![w] = t]
    BY <1>1, <1>6, <2>1, <2>3 DEF Advance
  <2>6. AmountAt(t, n) = AmountAt(s, n) /\ AmountAt(s, n) \in Nat
    BY <2>4, AmountIsNat DEF AmountAt
  <2>7. Fits(L, s.spent + AmountAt(t, n))
    <3>1. s.cap \in Nat /\ s.cap > 0
      BY CapsAreNat
    <3>2. s.spent + AmountAt(t, n) <= s.cap
      BY <2>2, <2>6, <3>1 DEF CutByBudget
    <3> QED
      BY <1>1, <3>2 DEF Fits
  <2>8. PICK B : B = D \ {t.ranking[t.row]}
    OBVIOUS
  <2>9. B \subseteq D /\ Total(B) <= Total(D) /\ Total(B) \in Nat /\ Total(D) \in Nat
    BY <2>8, Totals
  <2>10. Total(B)' <= t.spent
    BY <1>2, <2>4, <2>9
  <2>11. Within(t, D, L)'
    BY <2>4, <2>7, <2>8, <2>10 DEF Within, AmountAt, Fits
  <2>12. \A v \in Workers \ {w} : Within(F[v], D, L)'
    <3>1. \A v \in Workers \ {w} : F[v].at \notin {"pay", "award"}
      BY <1>3, <1>4, <2>5
    <3> QED
      BY <3>1 DEF Within
  <2>13. F[w] = t
    BY <1>4, <2>5
  <2>14. \A v \in Workers : Within(F[v], D, L)'
    BY <2>11, <2>12, <2>13
  <2>15. F[w].at = "pay"
    BY <2>4, <2>13
  <2> QED
    BY <1>1, <2>14, <2>15, NewCapped
<1> QED
  BY <1>5, <1>6

LEMMA PlanCapped ==
  ASSUME SquareInv, SquareInv', Clean # {}, 0 \notin caps, Capped, NEW w \in Workers, Plan(w)
  PROVE  Capped'
<1>1. settlers[w].at = "read" /\ UNCHANGED <<final, applied, sent, troubled, awards, caps>>
  BY DEF Plan, historyVars, adminVars
<1>2. \A v \in Workers \ {w} : ~Paying(v)
  BY <1>1, Alone DEF Paying
<1>3. \A v \in Workers : settlers[v].at \notin {"pay", "award"}
  BY <1>1, <1>2 DEF Paying
<1>4. PICK C : C = Clean
  OBVIOUS
<1>5. Clean' = C /\ C \subseteq Users
  BY <1>1, <1>4 DEF Clean
<1>6. Total(C) <= AlreadySpent(awards) /\ Fits(caps, Total(C))
  BY <1>3, <1>4, AwardsCount DEF Capped
<1>7. AlreadySpent(awards) \in Nat
  BY SpentIsNat DEF SquareInv, Typed
<1>8. /\ settlers[w] = [f \in Fields |-> settlers[w][f]] /\ settlers[w].row \in Nat
      /\ settlers[w].rules \in Rules /\ settlers[w].cap \in caps
  BY <1>1, SpentIsAmount DEF SquareInv, RankInv, AwardInv, SettlersOK, SettlerOK, Shape
<1>9. PICK ranking, s :
         /\ ranking \in Rankings
         /\ s = [settlers[w] EXCEPT !.ranking = ranking,
                                    !.existing = awards, !.spent = AlreadySpent(awards)]
         /\ \/ Advance(w, s)
            \/ Goto(w, "empty") /\ UNCHANGED calls
  BY DEF Plan
<1>10. /\ s = [f \in Fields |-> s[f]] /\ s.ranking = ranking /\ s.row = settlers[w].row
       /\ s.rules = settlers[w].rules /\ s.spent = AlreadySpent(awards)
       /\ s.cap = settlers[w].cap
  BY <1>8, <1>9 DEF Fields
<1>11. CASE Advance(w, s)
  BY <1>1, <1>2, <1>4, <1>5, <1>6, <1>7, <1>8, <1>9, <1>10, <1>11, AdvanceCapped
<1>12. CASE Goto(w, "empty") /\ UNCHANGED calls
  <2>1. PICK t : t = [settlers[w] EXCEPT !.at = "empty"]
    OBVIOUS
  <2>2. settlers' = [settlers EXCEPT ![w] = t] /\ t.at = "empty"
    BY <1>8, <1>12, <2>1 DEF Goto, Fields
  <2>3. Quiet(w)
    BY <1>1, <1>12, <2>2 DEF Quiet, creditVars
  <2>4. Clean' \subseteq Clean
    BY <1>4, <1>5
  <2> QED
    BY <1>1, <2>3, <2>4, QuietCapped
<1> QED
  BY <1>9, <1>11, <1>12

LEMMA WriteCapped ==
  ASSUME SquareInv, Clean' \subseteq Clean, Clean # {}, 0 \notin caps, Capped,
         NEW w \in Workers, WriteAward(w)
  PROVE  Capped'
<1>1. settlers[w].at = "award" /\ Advance(w, settlers[w]) /\ UNCHANGED <<applied, sent, caps>>
  BY DEF WriteAward, adminVars
<1>2. \A v \in Workers \ {w} : ~Paying(v)
  BY <1>1, Alone DEF Paying
<1>3. PICK C, D, s : C = Clean /\ D = Clean' /\ s = settlers[w]
  OBVIOUS
<1>4. Total(C) <= s.spent /\ Fits(caps, Total(C))
  <2>1. \A v \in Workers : settlers[v].at # "pay"
    BY <1>1, <1>2 DEF Paying
  <2> QED
    BY <1>1, <1>3, <2>1 DEF Capped, Within
<1>5. Total(D) <= Total(C) /\ Total(D) \in Nat /\ Total(C) \in Nat
  BY <1>3, Totals
<1>6. s.rules \in Rules /\ s.spent \in Nat /\ s.cap \in caps
  BY <1>1, <1>3, SpentIsAmount
<1>7. s = [f \in Fields |-> s[f]] /\ s.row \in Nat /\ s.ranking \in Rankings
  BY <1>1, <1>3 DEF SquareInv, RankInv, AwardInv, SettlersOK, SettlerOK, Shape, OnBoard, Idle
<1>8. Total(D) <= s.spent /\ Fits(caps, Total(D))
  BY <1>4, <1>5, <1>6, CapsAreNat, FitsBelow
<1> QED
  BY <1>1, <1>2, <1>3, <1>6, <1>7, <1>8, AdvanceCapped

\* What a settlement has spent after the payment covers what the user was paid.
LEMMA GrantCapped ==
  ASSUME SquareInv, Clean' \subseteq Clean, Clean # {}, Capped,
         NEW w \in Workers, GrantEnds(w)
  PROVE  Capped'
<1>1. /\ settlers[w].at = "pay" /\ calls[w].pc \in Credit!Returned
      /\ UNCHANGED <<final, applied, sent, awards, caps>>
  BY DEF GrantEnds, adminVars
<1>2. PICK C, D, s, F, u, L : L = caps /\ C = Clean /\ D = Clean' /\ s = settlers[w] /\ F = settlers'
                           /\ u = s.ranking[s.row]
  OBVIOUS
<1>3. PICK r, fl, sp, a, t :
         /\ a = AmountAt(s, s.row)
         /\ sp = IF calls[w].pc = "ok" THEN s.spent + a ELSE s.spent
         /\ t = [s EXCEPT !.at = "award", !.result = r, !.spent = sp, !.failed = fl]
         /\ F = [settlers EXCEPT ![w] = t]
  BY <1>2 DEF GrantEnds
<1>4. s.spent \in Nat /\ a \in Nat
  BY <1>1, <1>2, <1>3, SpentIsAmount
<1>5. s = [f \in Fields |-> s[f]]
  BY <1>1, <1>2 DEF SquareInv, RankInv, AwardInv, SettlersOK, SettlerOK, Shape, Idle
<1>6. t.at = "award" /\ t.spent = sp
  BY <1>3, <1>5 DEF Fields
<1>7. F[w] = t /\ \A v \in Workers \ {w} : F[v] = settlers[v]
  BY <1>3 DEF SquareInv, RankInv, AwardInv, SettlersOK
<1>8. \A v \in Workers \ {w} : settlers[v].at \notin {"pay", "award"}
  BY <1>1, Alone DEF Paying
<1>9. /\ Fits(L, s.spent + a)
      /\ Total(C \ {u}) <= s.spent
  BY <1>1, <1>2, <1>3 DEF Capped, Within
<1>9a. L \subseteq Nat
  BY <1>2, CapsAreNat
<1>10. PICK B : B = C \ {u}
  OBVIOUS
<1>11. /\ Total(B) \in Nat /\ Total(C) \in Nat /\ Total(D) \in Nat /\ Total(D) <= Total(C)
       /\ u \in C => Total(C) = DueTo(u) + Total(B)
  BY <1>2, <1>10, Totals
<1>12. u \in C => DueTo(u) \in {0, a}
  <2>1. u \in C => Pays(settlers[w], u)
    BY <1>1, <1>2 DEF Pays
  <2> QED
    BY <1>2, <1>3, <2>1, DueOfRow
<1>13. Total(D) <= sp /\ sp \in Nat /\ Fits(L, sp)
  <2>1. CASE calls[w].pc = "ok"
    <3>1. sp = s.spent + a
      BY <1>3, <2>1
    <3>2. CASE u \in C
      BY <1>4, <1>9, <1>10, <1>11, <1>12, <3>1, <3>2, <1>9a
    <3>3. CASE u \notin C
      <4>1. B = C
        BY <1>10, <3>3
      <4>2. Total(C) <= s.spent
        BY <1>9, <1>10, <4>1
      <4> QED
        BY <1>4, <1>9, <1>11, <3>1, <4>2
    <3> QED
      BY <3>2, <3>3
  <2>2. CASE calls[w].pc # "ok"
    <3>1. sp = s.spent
      BY <1>3, <2>2
    <3>2. u \notin D
      <4>1. CASE calls[w].pc = "error"
        BY <1>2, <4>1 DEF GrantEnds, UserAt, Clean
      <4>2. CASE calls[w].pc = "skipped"
        <5>1. SUFFICES ASSUME u \in C PROVE FALSE
          BY <1>2
        <5>2. Pays(settlers[w], u) /\ RightFor(u)
          BY <1>1, <1>2, <5>1 DEF Pays, SquareInv, Clean
        <5> QED
          BY <1>1, <4>2, <5>2 DEF RightFor, PayRight
      <4> QED
        BY <1>1, <2>2, <4>1, <4>2 DEF Credit!Returned
    <3>3. D \subseteq B /\ B \subseteq Clean
      BY <1>2, <1>10, <3>2
    <3>4. Total(D) <= Total(B)
      BY <3>3, Totals
    <3>5. Fits(L, sp)
      <4>1. PICK n \in Nat : n = s.spent + a /\ s.spent <= n
        BY <1>4
      <4> QED
        BY <1>4, <1>9, <1>9a, <3>1, <4>1, FitsBelow
    <3> QED
      BY <1>4, <1>9, <1>10, <1>11, <3>1, <3>4, <3>5
  <2> QED
    BY <2>1, <2>2
<1>14. Total(D)' = Total(D)
  BY <1>1, <1>2, NothingPaid DEF Clean
<1>15. Within(t, D, L)'
  BY <1>6, <1>13, <1>14 DEF Within
<1>16. ASSUME NEW v \in Workers
       PROVE  Within(F[v], D, L)'
  <2>1. CASE v = w
    BY <1>7, <1>15, <2>1
  <2>2. CASE v # w
    <3>1. F[v].at \notin {"pay", "award"}
      BY <1>7, <1>8, <2>2
    <3> QED
      BY <3>1 DEF Within
  <2> QED
    BY <2>1, <2>2
<1>17. Fits(L, Total(D)')
  BY <1>9a, <1>11, <1>13, <1>14, FitsBelow
<1> QED
  BY <1>1, <1>2, <1>16, <1>17, NewCapped

LEMMA CrashCapped ==
  ASSUME SquareInv, Clean' \subseteq Clean, Clean # {}, Capped, Crash
  PROVE  Capped'
<1>1. /\ settlers' = [w \in Workers |-> Idle] /\ UNCHANGED <<applied, sent, caps>>
      /\ troubled' = troubled \cup {UserAt(w) : w \in {v \in Workers : settlers[v].at \in {"pay", "award"}}}
  BY DEF Crash, Credit!Crash
<1>2. PICK C, D, F, L : L = caps /\ C = Clean /\ D = Clean' /\ F = settlers'
  OBVIOUS
<1>3. Total(D)' = Total(D)
  BY <1>1, <1>2, NothingPaid DEF Clean
<1>4. Total(D) \in Nat /\ Total(C) \in Nat /\ Total(D) <= Total(C)
  BY <1>2, Totals
<1>4a. L \subseteq Nat
  BY <1>2, CapsAreNat
<1>5. Fits(L, Total(D))
  <2>1. CASE \A w \in Workers : settlers[w].at # "pay"
    BY <1>2, <1>4, <1>4a, <2>1, FitsBelow DEF Capped
  <2>2. ASSUME NEW w \in Workers, settlers[w].at = "pay"
        PROVE  Fits(L, Total(D))
    <3>1. PICK s, a, B : s = settlers[w] /\ a = AmountAt(s, s.row) /\ B = C \ {s.ranking[s.row]}
      OBVIOUS
    <3>2. Fits(L, s.spent + a) /\ Total(B) <= s.spent
      BY <1>2, <2>2, <3>1 DEF Capped, Within
    <3>3. s.spent \in Nat /\ a \in Nat
      BY <2>2, <3>1, SpentIsAmount
    <3>4. s.ranking[s.row] \in troubled'
      BY <1>1, <2>2, <3>1 DEF UserAt
    <3>5. D \subseteq B /\ B \subseteq Clean
      BY <1>2, <3>1, <3>4 DEF Clean
    <3>6. Total(D) <= Total(B) /\ Total(B) \in Nat
      BY <3>5, Totals
    <3>7. Total(D) <= s.spent + a /\ s.spent + a \in Nat
      BY <1>4, <3>2, <3>3, <3>6
    <3> QED
      BY <1>4, <1>4a, <3>2, <3>7, FitsBelow
  <2> QED
    BY <2>1, <2>2
<1>6. \A w \in Workers : F[w].at = "idle"
  BY <1>1, <1>2 DEF Idle
<1>7. \A w \in Workers : Within(F[w], D, L)'
  BY <1>6 DEF Within
<1> QED
  BY <1>1, <1>2, <1>3, <1>5, <1>7, NewCapped

-----------------------------------------------------------------------------
(***************************************************************************)
(* The cap holds.                                                           *)
(***************************************************************************)
LEMMA CapInit == ASSUME Init PROVE CapInv
<1>1. RankInv /\ Typed
  BY RankInit, TypedInit
<1>2. /\ settlers = [w \in Workers |-> Idle] /\ sent = {} /\ final = {}
      /\ \A k \in Keys : applied[k] = 0
  BY DEF Init, Credit!Init
<1>3. \A w \in Workers : settlers[w].at = "idle"
  BY <1>2 DEF Idle
<1>4. \A u \in Users : Rests(KeysOf(u))
  BY <1>2, KeysOfAreKeys DEF Rests, P!Calm, P!Final
<1>5. \A u \in Users : RightFor(u)
  BY <1>3, <1>4 DEF RightFor, PayRight, Pays, Squared
<1>6. PICK m, C : m = Money /\ C = Clean
  OBVIOUS
<1>7. \A u \in C : m[u] = 0
  BY <1>4, <1>6, DueNothing DEF Money, Clean
<1>8. P!IsFiniteSet(C)
  BY <1>6, CampaignAssumption, FS_Subset, FiniteAgrees DEF Clean
<1>9. P!SumFunctionOnSet(m, C) = 0
  BY <1>7, <1>8, P!SumOfNothing
<1>10. Total(Clean) = 0
  BY <1>6, <1>9, SumAgrees DEF Total
<1>11. Fits(caps, Total(Clean))
  BY <1>10 DEF Fits
<1> QED
  BY <1>1, <1>3, <1>5, <1>11 DEF CapInv, SquareInv, Capped, Within

LEMMA CapStep ==
  ASSUME CapInv, [Next]_vars
  PROVE  CapInv'
<1>1. SquareInv /\ RankInv /\ Typed /\ AwardInv
  BY DEF CapInv, SquareInv, RankInv
<1>2. SquareInv'
  BY <1>1, RankStep, TypedStep, RightStep DEF SquareInv
<1>3. Clean' \subseteq Clean
  BY TroubleStays DEF Clean
<1>3a. caps \subseteq caps'
  BY CapsStay
<1>4. ASSUME 0 \notin caps', Clean' # {}
      PROVE  Capped'
  <2>1. Clean # {} /\ Capped /\ 0 \notin caps
    BY <1>3, <1>3a, <1>4 DEF CapInv
  <2>2. CASE Serves
    BY <1>1, <1>2, <1>3a, <2>1, <2>2, ServesCapped
  <2>3. CASE Crash
    BY <1>1, <1>3, <1>4, <2>1, <2>3, CrashCapped
  <2>4. ASSUME NEW w \in Workers, Quiet(w) \/ Plan(w) \/ GrantEnds(w) \/ WriteAward(w)
        PROVE  Capped'
    BY <1>1, <1>2, <1>3, <1>3a, <1>4, <2>1, <2>4, QuietCapped, PlanCapped, GrantCapped, WriteCapped
  <2> QED
    BY <1>1, <2>2, <2>3, <2>4, Kinds
<1> QED
  BY <1>2, <1>4 DEF CapInv

LEMMA CapHolds == ASSUME CapInv PROVE BudgetIsKept
<1>1. SUFFICES ASSUME 0 \notin caps
               PROVE  Fits(caps, SumFunctionOnSet([u \in Users |-> PaidTo(u)], Clean))
  BY DEF BudgetIsKept, Fits, Clean
<1>2. PICK C, L : C = Clean /\ L = caps
  OBVIOUS
<1>3. SquareInv /\ L \subseteq Nat
  BY <1>2, CapsAreNat DEF CapInv
<1>3a. SUFFICES Fits(L, Total(C))
  <2>1. PICK m, p : m = Money /\ p = [u \in Users |-> PaidTo(u)]
    OBVIOUS
  <2>2. \A u \in C : p[u] \in Nat /\ m[u] \in Nat /\ p[u] <= m[u]
    BY <1>2, <1>3, <2>1, PaidIsDue, DueIsNat DEF Money, Clean
  <2>3. P!IsFiniteSet(C)
    BY <1>2, CampaignAssumption, FS_Subset, FiniteAgrees DEF Clean
  <2>4. /\ P!SumFunctionOnSet(p, C) <= P!SumFunctionOnSet(m, C)
        /\ P!SumFunctionOnSet(p, C) \in Nat /\ P!SumFunctionOnSet(m, C) \in Nat
    BY <2>2, <2>3, P!SumBound, P!SumNat
  <2>5. PICK x, y : x = SumFunctionOnSet(p, C) /\ y = Total(C)
    OBVIOUS
  <2>6. x \in Nat /\ y \in Nat /\ x <= y
    BY <2>1, <2>4, <2>5, SumAgrees DEF Total
  <2> QED
    BY <1>2, <1>3, <2>1, <2>5, <2>6, FitsBelow
<1>4. CASE C = {}
  <2>1. PICK m : m = Money
    OBVIOUS
  <2>2. P!SumFunctionOnSet(m, {}) = 0
    BY P!SumNone
  <2>3. Total(C) = 0
    BY <1>4, <2>1, <2>2, SumAgrees DEF Total
  <2> QED
    BY <2>3 DEF Fits
<1>5. CASE C # {}
  <2>1. Capped
    BY <1>1, <1>2, <1>5 DEF CapInv
  <2>2. CASE \A w \in Workers : settlers[w].at # "pay"
    BY <1>2, <2>1, <2>2 DEF Capped
  <2>3. ASSUME NEW w \in Workers, settlers[w].at = "pay"
        PROVE  Fits(L, Total(C))
    <3>1. PICK s, a, u, B : /\ s = settlers[w] /\ a = AmountAt(s, s.row)
                            /\ u = s.ranking[s.row] /\ B = C \ {u}
      OBVIOUS
    <3>2. Fits(L, s.spent + a) /\ Total(B) <= s.spent
      BY <1>2, <2>1, <2>3, <3>1 DEF Capped, Within
    <3>3. s.spent \in Nat /\ a \in Nat
      BY <1>3, <2>3, <3>1, SpentIsAmount
    <3>4. /\ Total(B) \in Nat /\ Total(C) \in Nat
          /\ u \in C => Total(C) = DueTo(u) + Total(B)
      BY <1>2, <1>3, <3>1, Totals
    <3>5. CASE u \in C
      <4>1. Pays(settlers[w], u)
        BY <2>3, <3>1 DEF Pays
      <4>2. DueTo(u) \in {0, a}
        BY <1>2, <1>3, <3>1, <3>5, <4>1, DueOfRow
      <4>3. Total(C) <= s.spent + a /\ s.spent + a \in Nat
        BY <3>2, <3>3, <3>4, <3>5, <4>2
      <4> QED
        BY <1>3, <3>2, <3>4, <4>3, FitsBelow
    <3>6. CASE u \notin C
      <4>1. B = C
        BY <3>1, <3>6
      <4>2. Total(C) <= s.spent + a /\ s.spent + a \in Nat
        BY <3>2, <3>3, <3>4, <4>1
      <4> QED
        BY <1>3, <3>2, <3>4, <4>2, FitsBelow
    <3> QED
      BY <3>5, <3>6
  <2> QED
    BY <1>2, <2>2, <2>3
<1> QED
  BY <1>2, <1>4, <1>5

\* However often a period is settled, and wherever settlements stop or overlap, the
\* users whose payments and awards went well are together paid within the largest
\* cap the campaign has had, as long as it always had one: a
\* settlement starts from what the awards say, counts what it pays before it goes on
\* (settleCampaignPeriod), and leaves out a row the cap has no room for.
THEOREM BudgetStaysKept == Spec => []BudgetIsKept
<1>1. Init => CapInv
  BY CapInit
<1>2. CapInv /\ [Next]_vars => CapInv'
  BY CapStep
<1>3. CapInv => BudgetIsKept
  BY CapHolds
<1> QED
  BY <1>1, <1>2, <1>3, PTL DEF Spec
====
