---------------------------- MODULE Pool_proofs -----------------------------
(***************************************************************************)
(* For any workers, users, lots and amounts, and whatever the payout       *)
(* service does.  A lot's counters stay within what was put into it: a     *)
(* reservation takes at most what remains, a reset only gives back, and    *)
(* the amount it gives back is read from a row that is still there.  What  *)
(* a lot has set aside belongs to rows: the gap between the two is moved   *)
(* by resets alone.  A reset for a row in progress, under whose key        *)
(* nothing has been paid nor can be, leaves no gap; as long as all resets  *)
(* were of that kind, upstream pays for a lot what its rows took, and so   *)
(* no more than was put into it.                                           *)
(***************************************************************************)
EXTENDS Pool, FiniteSetTheorems, TLAPS

P == INSTANCE Payout_proofs WITH
    UpKeys <- {UpKeyOf[k] : k \in Keys},
    Mistakable <- {UpKeyOf[k] : k \in {x \in Keys : x[2] \in Lookalikes}},
    Requests <- [key : Keys, delta : Amounts]

\* The rows, as the constructors make them.
LotOK(r) == \E c, f \in Nat : r = [consumed |-> c, refunded |-> f]

DrawOK(d) ==
    d = Absent \/ \E s \in {"processing", "success"}, a \in Nat, t \in [{0} \cup Lots -> Nat] :
                      d = Row(s, a, t)

Marks == {"processing", "success", "failed"}
RefundOK(r) == r = Absent \/ \E s \in Marks, a \in Nat : r = Refund(s, a)

ReqOK(q) ==
    \/ q = Free
    \/ \E at \in DrawSteps, u \in Users, a \in Nat, b \in BOOLEAN : q = DrawReq(at, u, a, b)
    \/ \E at \in RefundSteps, k \in Kinds : \E todo : q = Refunding(at, k, todo)

\* Past its reservation a request finds the row it has reserved, unless the
\* row was deleted behind its back.
DrawHeld(q) ==
    q.at \in {"pay_draw", "complete_draw", "reset_draw"} /\ q.row => draws[q.user] # Absent

RefundHeld(q) ==
    /\ q.at \in {"pay_refund", "complete_refund", "reset_refund"}
    /\ Min(q.todo) \in Lots
    => refunds[Min(q.todo)][q.kind] # Absent

ReqsOK ==
    /\ reqs = [w \in Workers |-> reqs[w]]
    /\ \A w \in Workers : ReqOK(reqs[w]) /\ DrawHeld(reqs[w]) /\ RefundHeld(reqs[w])

DrawsOK == draws = [u \in Users |-> draws[u]] /\ \A u \in Users : DrawOK(draws[u])

RefundsOK ==
    /\ refunds = [l \in Lots |-> [k \in Kinds |-> refunds[l][k]]]
    /\ \A l \in Lots, k \in Kinds : RefundOK(refunds[l][k])

LotsOK == lots = [l \in Lots |-> lots[l]] /\ \A l \in Lots : LotOK(lots[l])

CountersFit == \A l \in Lots : lots[l].consumed + lots[l].refunded <= Original[l]

LotInv == ReqsOK /\ DrawsOK /\ RefundsOK /\ LotsOK /\ CountersFit

-----------------------------------------------------------------------------
(***************************************************************************)
(* Nothing is reserved at the start.                                        *)
(***************************************************************************)
LEMMA LotInit == Init => LotInv
<1> SUFFICES ASSUME Init PROVE LotInv
  OBVIOUS
<1>1. ReqsOK
  BY DEF Init, ReqsOK, ReqOK, DrawHeld, RefundHeld, Free
<1>2. DrawsOK /\ RefundsOK
  BY DEF Init, DrawsOK, RefundsOK, DrawOK, RefundOK
<1>3. LotsOK
  BY DEF Init, LotsOK, LotOK
<1>4. CountersFit
  BY PoolAssumption DEF Init, CountersFit
<1>5. QED
  BY <1>1, <1>2, <1>3, <1>4 DEF LotInv

(***************************************************************************)
(* The step a request is at says which of the three kinds it is.            *)
(***************************************************************************)
LEMMA ReqShape ==
  ASSUME NEW p, ReqOK(p)
  PROVE  \/ p = Free /\ p.at \notin DrawSteps /\ p.at \notin RefundSteps
         \/ /\ p.at \in DrawSteps /\ p.at \notin RefundSteps /\ p.user \in Users
            /\ \E u \in Users, a \in Nat, b \in BOOLEAN : p = DrawReq(p.at, u, a, b)
         \/ /\ p.at \in RefundSteps /\ p.at \notin DrawSteps /\ p.kind \in Kinds
            /\ \E k \in Kinds : \E todo : p = Refunding(p.at, k, todo)
<1>1. DrawSteps \cap RefundSteps = {} /\ "free" \notin DrawSteps /\ "free" \notin RefundSteps
  BY DEF DrawSteps, RefundSteps
<1>2. CASE p = Free
  BY <1>1, <1>2 DEF Free
<1>3. ASSUME NEW at \in DrawSteps, NEW u \in Users, NEW a \in Nat, NEW b \in BOOLEAN,
             p = DrawReq(at, u, a, b)
      PROVE  /\ p.at \in DrawSteps /\ p.at \notin RefundSteps /\ p.user \in Users
             /\ p = DrawReq(p.at, u, a, b)
  BY <1>1, <1>3 DEF DrawReq
<1>4. ASSUME NEW at \in RefundSteps, NEW k \in Kinds, NEW todo, p = Refunding(at, k, todo)
      PROVE  /\ p.at \in RefundSteps /\ p.at \notin DrawSteps /\ p.kind \in Kinds
             /\ p = Refunding(p.at, k, todo)
  BY <1>1, <1>4 DEF Refunding
<1>5. QED
  BY <1>2, <1>3, <1>4 DEF ReqOK

(***************************************************************************)
(* A step that only changes the request of one worker.                      *)
(***************************************************************************)
LEMMA RequestStep ==
  ASSUME ReqsOK, NEW w \in Workers, NEW q, ReqOK(q),
         reqs' = [reqs EXCEPT ![w] = q],
         DrawHeld(q)', RefundHeld(q)',
         \A u \in Users : draws[u] # Absent => draws'[u] # Absent,
         \A l \in Lots, k \in Kinds : refunds[l][k] # Absent => refunds'[l][k] # Absent
  PROVE  ReqsOK'
<1>1. reqs' = [v \in Workers |-> reqs'[v]]
  BY DEF ReqsOK
<1>2. \A v \in Workers : reqs'[v] = IF v = w THEN q ELSE reqs[v]
  BY DEF ReqsOK
<1>3. ASSUME NEW v \in Workers, v # w, NEW p, p = reqs[v]
      PROVE  ReqOK(p) /\ DrawHeld(p)' /\ RefundHeld(p)'
  <2>1. ReqOK(p) /\ DrawHeld(p) /\ RefundHeld(p)
    BY <1>3 DEF ReqsOK
  <2>2. DrawHeld(p)'
    <3>1. p.at \in DrawSteps => p.user \in Users
      BY <2>1, ReqShape
    <3>2. QED
      BY <2>1, <3>1 DEF DrawHeld, DrawSteps
  <2>3. RefundHeld(p)'
    <3>1. p.at \in RefundSteps => p.kind \in Kinds
      BY <2>1, ReqShape
    <3>2. QED
      BY <2>1, <3>1 DEF RefundHeld, RefundSteps
  <2>4. QED
    BY <2>1, <2>2, <2>3
<1>4. ASSUME NEW v \in Workers
      PROVE  (ReqOK(reqs[v]) /\ DrawHeld(reqs[v]) /\ RefundHeld(reqs[v]))'
  <2>1. PICK p : p = reqs[v]
    OBVIOUS
  <2>2. CASE v = w
    BY <1>2, <2>2 DEF DrawHeld, RefundHeld, ReqOK
  <2>3. CASE v # w
    BY <1>2, <1>3, <2>1, <2>3 DEF DrawHeld, RefundHeld, ReqOK
  <2>4. QED
    BY <2>2, <2>3
<1>5. QED
  BY <1>1, <1>4 DEF ReqsOK

(***************************************************************************)
(* When no row changes, only the request has to be right.                   *)
(***************************************************************************)
LEMMA QuietStep ==
  ASSUME LotInv, NEW w \in Workers, NEW q, ReqOK(q), DrawHeld(q), RefundHeld(q),
         reqs' = [reqs EXCEPT ![w] = q], UNCHANGED rows
  PROVE  LotInv'
<1>1. DrawHeld(q)' /\ RefundHeld(q)'
  BY DEF DrawHeld, RefundHeld, rows
<1>2. ReqsOK'
  BY <1>1, RequestStep DEF LotInv, rows
<1>3. QED
  BY <1>2 DEF LotInv, DrawsOK, RefundsOK, LotsOK, CountersFit, rows, DrawOK, RefundOK

(***************************************************************************)
(* Moving a request on changes its step and nothing else.                   *)
(***************************************************************************)
LEMMA DrawMoves ==
  \A r, at, o, u, a, b : r = DrawReq(o, u, a, b) => [r EXCEPT !.at = at] = DrawReq(at, u, a, b)
BY DEF DrawReq

(***************************************************************************)
(* The same for a request that works through a list of refunds.             *)
(***************************************************************************)
LEMMA RefundMoves ==
  \A r, at, o, k, todo :
      r = Refunding(o, k, todo) => [r EXCEPT !.at = at] = Refunding(at, k, todo)
BY DEF Refunding

(***************************************************************************)
(* An answered request holds nothing, and the next lot of a round starts    *)
(* before its reservation.                                                  *)
(***************************************************************************)
LEMMA FreeHolds == ReqOK(Free) /\ DrawHeld(Free) /\ RefundHeld(Free)
  BY DEF ReqOK, DrawHeld, RefundHeld, Free

(***************************************************************************)
(* A request at the head of its list holds no refund yet.                   *)
(***************************************************************************)
LEMMA ListHolds ==
  ASSUME NEW k \in Kinds, NEW todo
  PROVE  LET q == Refunding("reserve_refund", k, todo)
         IN ReqOK(q) /\ DrawHeld(q) /\ RefundHeld(q)
  BY DEF ReqOK, DrawHeld, RefundHeld, Refunding, RefundSteps

(***************************************************************************)
(* After a lot, a request is answered or starts on the rest of its list.    *)
(***************************************************************************)
LEMMA GivesUpOrGoesOn ==
  ASSUME ReqsOK, NEW w \in Workers, reqs[w].at \in RefundSteps, GiveUp(w) \/ NextLot(w) \/ Reply(w)
  PROVE  \E q : /\ reqs' = [reqs EXCEPT ![w] = q]
                /\ ReqOK(q) /\ DrawHeld(q) /\ RefundHeld(q)
                /\ q.at \in {"free", "reserve_refund"}
<1>1. PICK k \in Kinds : \E todo : reqs[w] = Refunding(reqs[w].at, k, todo)
  <2>1. PICK p : p = reqs[w]
    OBVIOUS
  <2>2. ReqOK(p)
    BY <2>1 DEF ReqsOK
  <2>3. QED
    BY <2>1, <2>2, ReqShape
<1>2. reqs[w].kind = k
  BY <1>1 DEF Refunding
<1>3. CASE Reply(w)
  <2>1. Free.at = "free"
    BY DEF Free
  <2>2. QED
    BY <1>3, <2>1, FreeHolds DEF Reply
<1>4. CASE NextLot(w) /\ ~Reply(w)
  <2>1. PICK todo : reqs' = [reqs EXCEPT ![w] = Refunding("reserve_refund", k, todo)]
    BY <1>2, <1>4 DEF NextLot
  <2>2. Refunding("reserve_refund", k, todo).at = "reserve_refund"
    BY DEF Refunding
  <2>3. QED
    BY <2>1, <2>2, ListHolds
<1>5. Reply(w) \/ NextLot(w)
  BY DEF GiveUp
<1>6. QED
  BY <1>3, <1>4, <1>5

(***************************************************************************)
(* Answering a request, or going on with its list, keeps the invariant when *)
(* the rows stay.                                                           *)
(***************************************************************************)
LEMMA AnsweredStep ==
  ASSUME LotInv, NEW w \in Workers, Reply(w), UNCHANGED rows
  PROVE  LotInv'
BY FreeHolds, QuietStep DEF Reply

(***************************************************************************)
(* So does going on with the next lot of a list, or giving up.              *)
(***************************************************************************)
LEMMA ListStep ==
  ASSUME LotInv, NEW w \in Workers, reqs[w].at \in RefundSteps, UNCHANGED rows,
         GiveUp(w) \/ NextLot(w) \/ Reply(w)
  PROVE  LotInv'
<1>1. ReqsOK
  BY DEF LotInv
<1>2. PICK q : /\ reqs' = [reqs EXCEPT ![w] = q]
               /\ ReqOK(q) /\ DrawHeld(q) /\ RefundHeld(q)
  BY <1>1, GivesUpOrGoesOn
<1>3. QED
  BY <1>2, QuietStep

(***************************************************************************)
(* The request at a step of Draw, with its parts named.                     *)
(***************************************************************************)
LEMMA DrawParts ==
  ASSUME ReqsOK, NEW w \in Workers, reqs[w].at \in DrawSteps
  PROVE  \E u \in Users, a \in Nat, b \in BOOLEAN :
            /\ reqs[w] = DrawReq(reqs[w].at, u, a, b)
            /\ reqs[w].user = u /\ UserOf(w) = u /\ reqs[w].amount = a /\ reqs[w].row = b
<1>1. PICK p : p = reqs[w]
  OBVIOUS
<1>2. ReqOK(p)
  BY <1>1 DEF ReqsOK
<1>3. PICK u \in Users, a \in Nat, b \in BOOLEAN : p = DrawReq(p.at, u, a, b)
  BY <1>1, <1>2, ReqShape
<1>4. p.user = u /\ p.amount = a /\ p.row = b
  BY <1>3 DEF DrawReq
<1>5. QED
  BY <1>1, <1>3, <1>4 DEF UserOf

(***************************************************************************)
(* The request at a step of a refund, with its parts named.                 *)
(***************************************************************************)
LEMMA RefundParts ==
  ASSUME ReqsOK, NEW w \in Workers, reqs[w].at \in RefundSteps
  PROVE  \E k \in Kinds : \E todo :
            /\ reqs[w] = Refunding(reqs[w].at, k, todo)
            /\ reqs[w].kind = k /\ LotOf(w) = Min(todo)
<1>1. PICK p : p = reqs[w]
  OBVIOUS
<1>2. ReqOK(p)
  BY <1>1 DEF ReqsOK
<1>3. PICK k \in Kinds : \E todo : p = Refunding(p.at, k, todo)
  BY <1>1, <1>2, ReqShape
<1>4. PICK todo : p = Refunding(p.at, k, todo)
  BY <1>3
<1>5. p.kind = k /\ p.todo = todo
  BY <1>4 DEF Refunding
<1>6. QED
  BY <1>1, <1>4, <1>5 DEF LotOf

-----------------------------------------------------------------------------
(***************************************************************************)
(* Draw up to its reservation, and the payout: no row changes.              *)
(***************************************************************************)
LEMMA BeforeDraw ==
  ASSUME LotInv, NEW w \in Workers,
         (\E u \in Users : BeginDraw(w, u)) \/ LookupDraw(w) \/ ChooseAmount(w) \/ DrawRefused(w)
  PROVE  LotInv'
<1>inv. ReqsOK /\ DrawsOK
  BY DEF LotInv
<1>1. ASSUME NEW u \in Users, NEW at \in {"look", "pool", "reserve_draw"}, NEW a \in Nat,
             NEW b \in BOOLEAN, UNCHANGED rows, reqs' = [reqs EXCEPT ![w] = DrawReq(at, u, a, b)]
      PROVE  LotInv'
  <2> DEFINE q == DrawReq(at, u, a, b)
  <2>1. ReqOK(q)
    BY DEF ReqOK, DrawSteps
  <2>2. DrawHeld(q) /\ RefundHeld(q)
    BY DEF DrawHeld, RefundHeld, DrawReq
  <2>3. QED
    BY <1>1, <2>1, <2>2, QuietStep
<1>2. ASSUME NEW u \in Users, BeginDraw(w, u) PROVE LotInv'
  BY <1>1, <1>2 DEF BeginDraw, Drawing
<1>3. CASE LookupDraw(w)
  <2>0. reqs[w].at = "look" /\ UNCHANGED rows
    BY <1>3 DEF LookupDraw
  <2>1. PICK u \in Users, a \in Nat, b \in BOOLEAN :
           /\ reqs[w] = DrawReq(reqs[w].at, u, a, b)
           /\ reqs[w].user = u /\ UserOf(w) = u /\ reqs[w].amount = a /\ reqs[w].row = b
    BY <1>inv, <2>0, DrawParts DEF DrawSteps
  <2>2. CASE Goto(w, "pool")
    <3>1. reqs[w] = DrawReq("look", u, a, b)
      BY <2>0, <2>1
    <3>2. [reqs[w] EXCEPT !.at = "pool"] = DrawReq("pool", u, a, b)
      BY <3>1, DrawMoves, SMT
    <3>3. reqs' = [reqs EXCEPT ![w] = DrawReq("pool", u, a, b)]
      BY <2>2, <3>2 DEF Goto
    <3>4. QED
      BY <1>1, <2>0, <3>3
  <2>3. CASE Reply(w)
    BY <2>0, <2>3, AnsweredStep
  <2>4. CASE /\ draws[u].status = "processing"
             /\ reqs' = [reqs EXCEPT ![w] = DrawReq("pay_draw", u, draws[u].amount, TRUE)]
    <3>1. PICK d : d = draws[u]
      OBVIOUS
    <3>2. d # Absent /\ d.amount \in Nat
      <4>1. DrawOK(d) /\ d.status = "processing"
        BY <1>inv, <2>4, <3>1 DEF DrawsOK
      <4>2. d # Absent
        BY <4>1 DEF Absent
      <4>3. QED
        BY <4>1, <4>2 DEF DrawOK, Row
    <3> DEFINE q == DrawReq("pay_draw", u, d.amount, TRUE)
    <3>3. ReqOK(q)
      BY <3>2 DEF ReqOK, DrawSteps
    <3>4. DrawHeld(q) /\ RefundHeld(q)
      BY <3>1, <3>2 DEF DrawHeld, RefundHeld, DrawReq
    <3>5. reqs' = [reqs EXCEPT ![w] = q]
      BY <2>4, <3>1
    <3>6. QED
      BY <2>0, <3>3, <3>4, <3>5, QuietStep
  <2>5. QED
    BY <1>3, <2>1, <2>2, <2>3, <2>4 DEF LookupDraw, Drawing
<1>4. CASE ChooseAmount(w)
  <2>0. reqs[w].at = "pool" /\ UNCHANGED rows
    BY <1>4 DEF ChooseAmount
  <2>1. PICK u \in Users : UserOf(w) = u
    BY <1>inv, <2>0, DrawParts DEF DrawSteps
  <2>2. PICK a \in DrawAmounts : reqs' = [reqs EXCEPT ![w] = DrawReq("reserve_draw", u, a, TRUE)]
    BY <1>4, <2>1 DEF ChooseAmount, Drawing
  <2>3. QED
    BY <1>1, <2>0, <2>2, PoolAssumption
<1>5. CASE DrawRefused(w)
  BY <1>5, AnsweredStep DEF DrawRefused
<1>6. QED
  BY <1>2, <1>3, <1>4, <1>5

(***************************************************************************)
(* A reserved draw takes from each lot at most what remains in it.          *)
(***************************************************************************)
LEMMA DrawReserved ==
  ASSUME LotInv, NEW w \in Workers, ReserveDraw(w)
  PROVE  LotInv'
<1>inv. ReqsOK /\ DrawsOK /\ RefundsOK /\ LotsOK /\ CountersFit
  BY DEF LotInv
<1>0. reqs[w].at = "reserve_draw" /\ refunds' = refunds
  BY DEF ReserveDraw
<1>1. PICK u \in Users, a \in Nat, b \in BOOLEAN :
         /\ reqs[w] = DrawReq("reserve_draw", u, a, b)
         /\ reqs[w].user = u /\ UserOf(w) = u /\ reqs[w].amount = a /\ reqs[w].row = b
  BY <1>inv, <1>0, DrawParts DEF DrawSteps
<1>2. reqs' = [reqs EXCEPT ![w] = DrawReq("pay_draw", u, a, TRUE)]
  BY <1>1 DEF ReserveDraw, Drawing
<1>3. PICK takes \in Splits(a) :
         /\ draws' = [draws EXCEPT ![u] = Row("processing", a, takes)]
         /\ lots' = [l \in Lots |-> [lots[l] EXCEPT !.consumed = @ + takes[l]]]
  BY <1>1 DEF ReserveDraw
<1>4. takes \in [{0} \cup Lots -> Nat] /\ \A l \in Lots : takes[l] <= Usable(l)
  <2>1. takes \in [{0} \cup Lots -> 0..a] /\ \A l \in Lots : takes[l] <= Usable(l)
    BY DEF Splits
  <2>2. 0..a \subseteq Nat
    OBVIOUS
  <2>3. QED
    BY <2>1, <2>2
<1>5. \A v \in Users : draws'[v] = IF v = u THEN Row("processing", a, takes) ELSE draws[v]
  BY <1>inv, <1>3 DEF DrawsOK
<1>6. Row("processing", a, takes) # Absent /\ DrawOK(Row("processing", a, takes))
  BY <1>1, <1>4 DEF Row, Absent, DrawOK
<1>7. DrawsOK'
  <2>1. draws' = [v \in Users |-> draws'[v]]
    BY <1>inv, <1>3 DEF DrawsOK
  <2>2. QED
    BY <1>inv, <1>5, <1>6, <2>1 DEF DrawsOK, DrawOK
<1>8. ReqsOK'
  <2> DEFINE q == DrawReq("pay_draw", u, a, TRUE)
  <2>2. reqs' = [reqs EXCEPT ![w] = q]
    BY <1>2
  <2>3. ReqOK(q)
    BY DEF ReqOK, DrawSteps
  <2>4. DrawHeld(q)' /\ RefundHeld(q)'
    BY <1>5, <1>6 DEF DrawHeld, RefundHeld, DrawReq
  <2>5. \A v \in Users : draws[v] # Absent => draws'[v] # Absent
    BY <1>5, <1>6
  <2> HIDE DEF q
  <2>6. QED
    BY <1>inv, <1>0, <2>2, <2>3, <2>4, <2>5, RequestStep
<1>9. ASSUME NEW l \in Lots
      PROVE  /\ LotOK(lots'[l])
             /\ lots'[l].consumed + lots'[l].refunded <= Original[l]
  <2>1. PICK c \in Nat, f \in Nat : lots[l] = [consumed |-> c, refunded |-> f]
    BY <1>inv DEF LotsOK, LotOK
  <2>2. takes[l] \in Nat /\ takes[l] <= Usable(l)
    BY <1>4
  <2>3. lots'[l] = [consumed |-> c + takes[l], refunded |-> f]
    BY <1>3, <2>1
  <2>4. c + f <= Original[l] /\ Original[l] \in Nat
    BY <1>inv, <2>1, PoolAssumption DEF CountersFit
  <2>5. takes[l] <= Original[l] - c - f
    BY <2>1, <2>2, <2>4 DEF Usable, Remaining, Positive
  <2>6. c + takes[l] \in Nat /\ (c + takes[l]) + f <= Original[l]
    BY <2>2, <2>4, <2>5
  <2>7. QED
    BY <2>3, <2>6 DEF LotOK
<1>10. LotsOK' /\ CountersFit'
  BY <1>3, <1>9 DEF LotsOK, CountersFit, LotOK
<1>11. RefundsOK'
  BY <1>inv, <1>0 DEF RefundsOK, RefundOK
<1>12. QED
  BY <1>7, <1>8, <1>10, <1>11 DEF LotInv

(***************************************************************************)
(* Completing a draw changes its status only.                               *)
(***************************************************************************)
LEMMA DrawCompleted ==
  ASSUME LotInv, NEW w \in Workers, CompleteDraw(w)
  PROVE  LotInv'
<1>inv. ReqsOK /\ DrawsOK /\ RefundsOK /\ LotsOK /\ CountersFit
  BY DEF LotInv
<1>0. reqs[w].at = "complete_draw" /\ lots' = lots /\ refunds' = refunds /\ Reply(w)
  BY DEF CompleteDraw
<1>1. PICK u \in Users, a \in Nat, b \in BOOLEAN :
         /\ reqs[w] = DrawReq(reqs[w].at, u, a, b)
         /\ reqs[w].user = u /\ UserOf(w) = u /\ reqs[w].amount = a /\ reqs[w].row = b
  BY <1>inv, <1>0, DrawParts DEF DrawSteps
<1>2. CASE draws' = draws
  BY <1>0, <1>2, AnsweredStep DEF rows
<1>3. CASE b /\ draws' = [draws EXCEPT ![u].status = "success"]
  <2>1. DrawHeld(reqs[w])
    BY <1>inv DEF ReqsOK
  <2>2. draws[u] # Absent
    BY <1>0, <1>1, <1>3, <2>1 DEF DrawHeld
  <2>3. PICK s \in {"processing", "success"}, m \in Nat, t \in [{0} \cup Lots -> Nat] : draws[u] = Row(s, m, t)
    BY <1>inv, <2>2 DEF DrawsOK, DrawOK
  <2>4. [draws[u] EXCEPT !.status = "success"] = Row("success", m, t)
    BY <2>3 DEF Row
  <2>5. draws' = [draws EXCEPT ![u] = Row("success", m, t)]
    BY <1>3, <2>4
  <2>6. \A v \in Users : draws'[v] = IF v = u THEN Row("success", m, t) ELSE draws[v]
    BY <1>inv, <2>5 DEF DrawsOK
  <2>7. Row("success", m, t) # Absent /\ DrawOK(Row("success", m, t))
    BY DEF Row, Absent, DrawOK
  <2>8. DrawsOK'
    <3>1. draws' = [v \in Users |-> draws'[v]]
      BY <1>inv, <2>5 DEF DrawsOK
    <3>2. \A v \in Users : DrawOK(draws'[v])
      BY <1>inv, <2>6, <2>7 DEF DrawsOK
    <3>3. QED
      BY <3>1, <3>2 DEF DrawsOK, DrawOK
  <2>9. ReqsOK'
    <3>1. DrawHeld(Free)' /\ RefundHeld(Free)'
      BY DEF DrawHeld, RefundHeld, Free
    <3>2. reqs' = [reqs EXCEPT ![w] = Free]
      BY <1>0 DEF Reply
    <3>3. \A v \in Users : draws[v] # Absent => draws'[v] # Absent
      BY <2>6, <2>7
    <3>4. QED
      BY <1>inv, <1>0, <3>1, <3>2, <3>3, FreeHolds, RequestStep
  <2>10. QED
    BY <1>inv, <1>0, <2>8, <2>9 DEF LotInv, LotsOK, LotOK, CountersFit, RefundsOK, RefundOK
<1>4. QED
  BY <1>1, <1>2, <1>3 DEF CompleteDraw

(***************************************************************************)
(* Giving back what a draw took leaves every lot within its amount.         *)
(***************************************************************************)
LEMMA ReleasedIsLess ==
  ASSUME LotInv, NEW takes \in [{0} \cup Lots -> Nat], lots' = Released(takes)
  PROVE  LotsOK' /\ CountersFit'
<1>1. ASSUME NEW l \in Lots
      PROVE  /\ LotOK(lots'[l])
             /\ lots'[l].consumed + lots'[l].refunded <= Original[l]
  <2>1. PICK c \in Nat, f \in Nat : lots[l] = [consumed |-> c, refunded |-> f]
    BY DEF LotInv, LotsOK, LotOK
  <2>2. PICK t \in Nat : t = takes[l]
    OBVIOUS
  <2>3. lots'[l] = [consumed |-> Positive(c - t), refunded |-> f]
    BY <2>1, <2>2 DEF Released
  <2>4. c + f <= Original[l] /\ Original[l] \in Nat
    BY <2>1, PoolAssumption DEF LotInv, CountersFit
  <2>5. Positive(c - t) \in Nat /\ Positive(c - t) <= c
    BY DEF Positive
  <2>6. Positive(c - t) + f <= Original[l]
    BY <2>4, <2>5
  <2>7. QED
    BY <2>3, <2>5, <2>6 DEF LotOK
<1>2. lots' = [l \in Lots |-> lots'[l]]
  BY DEF Released
<1>3. QED
  BY <1>1, <1>2 DEF LotsOK, CountersFit, LotOK

(***************************************************************************)
(* Deleting a draw row takes it away from every request that holds its id.  *)
(***************************************************************************)
LEMMA DrawDeleted ==
  ASSUME LotInv, NEW w \in Workers, NEW u \in Users, UserOf(w) = u, DeleteDraw(w), refunds' = refunds
  PROVE  ReqsOK' /\ DrawsOK' /\ RefundsOK'
<1>inv. ReqsOK /\ DrawsOK /\ RefundsOK
  BY DEF LotInv
<1>1. draws' = [draws EXCEPT ![u] = Absent]
  BY DEF DeleteDraw
<1>2. \A x \in Users : draws'[x] = IF x = u THEN Absent ELSE draws[x]
  BY <1>inv, <1>1 DEF DrawsOK
<1>3. DrawsOK'
  <2>1. draws' = [x \in Users |-> draws'[x]]
    BY <1>inv, <1>1 DEF DrawsOK
  <2>2. \A x \in Users : DrawOK(draws'[x])
    BY <1>inv, <1>2 DEF DrawsOK, DrawOK
  <2>3. QED
    BY <2>1, <2>2 DEF DrawsOK, DrawOK
<1>4. RefundsOK'
  BY <1>inv DEF RefundsOK, RefundOK
<1>5. ASSUME NEW v \in Workers, NEW p, p = reqs[v], NEW q, q = reqs'[v]
      PROVE  ReqOK(q) /\ DrawHeld(q)' /\ RefundHeld(q)'
  <2>1. ReqOK(p) /\ DrawHeld(p) /\ RefundHeld(p)
    BY <1>inv, <1>5 DEF ReqsOK
  <2>2. CASE v = w
    <3>1. q = Free
      BY <1>5, <2>2 DEF DeleteDraw
    <3>2. QED
      BY <3>1, FreeHolds DEF DrawHeld, RefundHeld, Free
  <2>3. CASE v # w /\ p.at \in DrawSteps /\ p.user = u
    <3>1. q = DrawReq(p.at, p.user, p.amount, FALSE)
      BY <1>5, <2>3 DEF DeleteDraw, UserOf
    <3>2. PICK a \in Nat : p.amount = a
      <4>1. PICK x \in Users, a \in Nat, b \in BOOLEAN : p = DrawReq(p.at, x, a, b)
        BY <2>1, <2>3, ReqShape
      <4>2. QED
        BY <4>1 DEF DrawReq
    <3>3. ReqOK(q)
      BY <2>3, <3>1, <3>2 DEF ReqOK
    <3>4. ~q.row /\ q.at \notin {"pay_refund", "complete_refund", "reset_refund"}
      BY <2>3, <3>1 DEF DrawReq, DrawSteps
    <3>5. QED
      BY <3>3, <3>4 DEF DrawHeld, RefundHeld
  <2>4. CASE v # w /\ ~(p.at \in DrawSteps /\ p.user = u)
    <3>1. q = p
      BY <1>5, <2>4 DEF DeleteDraw, UserOf
    <3>2. DrawHeld(p)'
      <4>1. p.at \in DrawSteps => p.user \in Users
        BY <2>1, ReqShape
      <4>2. QED
        BY <1>2, <2>1, <2>4, <4>1 DEF DrawHeld, DrawSteps
    <3>3. RefundHeld(p)'
      BY <2>1 DEF RefundHeld
    <3>4. QED
      BY <2>1, <3>1, <3>2, <3>3
  <2>5. QED
    BY <2>2, <2>3, <2>4
<1>6. reqs' = [v \in Workers |-> reqs'[v]]
  BY DEF DeleteDraw
<1>7. ASSUME NEW v \in Workers
      PROVE  (ReqOK(reqs[v]) /\ DrawHeld(reqs[v]) /\ RefundHeld(reqs[v]))'
  <2>1. PICK p : p = reqs[v]
    OBVIOUS
  <2>2. PICK q : q = reqs'[v]
    OBVIOUS
  <2>3. ReqOK(q) /\ DrawHeld(q)' /\ RefundHeld(q)'
    BY <1>5, <2>1, <2>2
  <2>4. QED
    BY <2>2, <2>3 DEF ReqOK, DrawHeld, RefundHeld
<1>8. QED
  BY <1>3, <1>4, <1>6, <1>7 DEF ReqsOK

(***************************************************************************)
(* Resetting a draw gives back what its row says it took.                   *)
(***************************************************************************)
LEMMA DrawReset ==
  ASSUME LotInv, NEW w \in Workers, ResetDraw(w)
  PROVE  LotInv'
<1>inv. ReqsOK /\ DrawsOK /\ RefundsOK
  BY DEF LotInv
<1>0. reqs[w].at = "reset_draw" /\ refunds' = refunds
  BY DEF ResetDraw
<1>1. PICK u \in Users, a \in Nat, b \in BOOLEAN :
         /\ reqs[w] = DrawReq(reqs[w].at, u, a, b)
         /\ reqs[w].user = u /\ UserOf(w) = u /\ reqs[w].amount = a /\ reqs[w].row = b
  BY <1>inv, <1>0, DrawParts DEF DrawSteps
<1>2. CASE Reply(w) /\ UNCHANGED <<lots, draws>>
  BY <1>0, <1>2, AnsweredStep DEF rows
<1>3. ASSUME b, lots' = Released(draws[u].takes), DeleteDraw(w) \/ (Reply(w) /\ draws' = draws)
      PROVE  LotInv'
  <2>1. DrawHeld(reqs[w])
    BY <1>inv DEF ReqsOK
  <2>2. draws[u] # Absent
    BY <1>0, <1>1, <1>3, <2>1 DEF DrawHeld
  <2>3. PICK s \in {"processing", "success"}, m \in Nat, t \in [{0} \cup Lots -> Nat] :
           draws[u] = Row(s, m, t)
    BY <1>inv, <2>2 DEF DrawsOK, DrawOK
  <2>4. draws[u].takes = t
    BY <2>3 DEF Row
  <2>5. LotsOK' /\ CountersFit'
    BY <1>3, <2>4, ReleasedIsLess
  <2>6. CASE DeleteDraw(w)
    BY <1>0, <1>1, <2>5, <2>6, DrawDeleted DEF LotInv
  <2>7. CASE Reply(w) /\ draws' = draws
    <3>1. DrawHeld(Free)' /\ RefundHeld(Free)'
      BY DEF DrawHeld, RefundHeld, Free
    <3>2. reqs' = [reqs EXCEPT ![w] = Free]
      BY <2>7 DEF Reply
    <3>3. ReqsOK'
      BY <1>inv, <1>0, <2>7, <3>1, <3>2, FreeHolds, RequestStep
    <3>4. QED
      BY <1>inv, <1>0, <2>5, <2>7, <3>3 DEF LotInv, DrawsOK, DrawOK, RefundsOK, RefundOK
  <2>8. QED
    BY <1>3, <2>6, <2>7
<1>4. QED
  BY <1>1, <1>2, <1>3 DEF ResetDraw

-----------------------------------------------------------------------------
(***************************************************************************)
(* Writing one refund row.  (The lot is a minimum of a set; when it is not  *)
(* a lot, the update changes nothing.)                                      *)
(***************************************************************************)
LEMMA RefundWritten ==
  ASSUME LotInv, NEW l, NEW k \in Kinds, NEW s \in Marks, NEW a \in Nat,
         refunds' = [refunds EXCEPT ![l][k] = Refund(s, a)]
  PROVE  /\ RefundsOK'
         /\ l \in Lots => refunds'[l][k] # Absent
         /\ \A m \in Lots, j \in Kinds : refunds[m][j] # Absent => refunds'[m][j] # Absent
<1>inv. RefundsOK
  BY DEF LotInv
<1>1. \A m \in Lots, j \in Kinds :
         refunds'[m][j] = IF m = l /\ j = k THEN Refund(s, a) ELSE refunds[m][j]
  <2>1. ASSUME NEW m \in Lots, NEW j \in Kinds
        PROVE  refunds'[m][j] = IF m = l /\ j = k THEN Refund(s, a) ELSE refunds[m][j]
    <3>1. refunds'[m] = IF m = l THEN [refunds[m] EXCEPT ![k] = Refund(s, a)] ELSE refunds[m]
      BY <1>inv DEF RefundsOK
    <3>2. refunds[m] = [i \in Kinds |-> refunds[m][i]]
      BY <1>inv DEF RefundsOK
    <3>3. QED
      BY <3>1, <3>2
  <2>2. QED
    BY <2>1
<1>2. Refund(s, a) # Absent /\ RefundOK(Refund(s, a))
  BY DEF Refund, Absent, RefundOK
<1>3. refunds' = [m \in Lots |-> [j \in Kinds |-> refunds'[m][j]]]
  <2>1. refunds' = [m \in Lots |-> refunds'[m]]
    BY <1>inv DEF RefundsOK
  <2>2. ASSUME NEW m \in Lots PROVE refunds'[m] = [j \in Kinds |-> refunds'[m][j]]
    <3>1. refunds'[m] = IF m = l THEN [refunds[m] EXCEPT ![k] = Refund(s, a)] ELSE refunds[m]
      BY <1>inv DEF RefundsOK
    <3>2. refunds[m] = [i \in Kinds |-> refunds[m][i]]
      BY <1>inv DEF RefundsOK
    <3>3. QED
      BY <3>1, <3>2
  <2>3. QED
    BY <2>1, <2>2
<1>4. \A m \in Lots, j \in Kinds : RefundOK(refunds'[m][j])
  BY <1>inv, <1>1, <1>2 DEF RefundsOK
<1>5. RefundsOK'
  BY <1>3, <1>4 DEF RefundsOK, RefundOK
<1>6. QED
  BY <1>1, <1>2, <1>5

(***************************************************************************)
(* Writing what a lot has refunded, within what its draws have left.        *)
(***************************************************************************)
LEMMA LotRefunded ==
  ASSUME LotInv, NEW l, NEW n, lots' = [lots EXCEPT ![l].refunded = n],
         l \in Lots => n \in Nat /\ lots[l].consumed + n <= Original[l]
  PROVE  LotsOK' /\ CountersFit'
<1>1. ASSUME NEW m \in Lots
      PROVE  LotOK(lots'[m]) /\ lots'[m].consumed + lots'[m].refunded <= Original[m]
  <2>1. PICK c \in Nat, f \in Nat : lots[m] = [consumed |-> c, refunded |-> f]
    BY DEF LotInv, LotsOK, LotOK
  <2>2. CASE m = l
    <3>1. lots'[m] = [lots[m] EXCEPT !.refunded = n]
      BY <2>2 DEF LotInv, LotsOK
    <3>2. lots'[m] = [consumed |-> c, refunded |-> n]
      BY <2>1, <3>1
    <3>3. n \in Nat /\ c + n <= Original[m]
      BY <2>1, <2>2
    <3>4. QED
      BY <3>2, <3>3 DEF LotOK
  <2>3. CASE m # l
    <3>1. lots'[m] = lots[m]
      BY <2>3 DEF LotInv, LotsOK
    <3>2. QED
      BY <3>1 DEF LotInv, LotsOK, CountersFit
  <2>4. QED
    BY <2>2, <2>3
<1>2. lots' = [m \in Lots |-> lots'[m]]
  BY DEF LotInv, LotsOK
<1>3. QED
  BY <1>1, <1>2 DEF LotsOK, CountersFit, LotOK

(***************************************************************************)
(* A reserved refund takes exactly what remains of its lot.                 *)
(***************************************************************************)
LEMMA RefundReserved ==
  ASSUME LotInv, NEW w \in Workers, ReserveRefund(w)
  PROVE  LotInv'
<1>inv. ReqsOK /\ DrawsOK /\ RefundsOK
  BY DEF LotInv
<1>0. reqs[w].at = "reserve_refund" /\ draws' = draws
  BY DEF ReserveRefund
<1>1. PICK k \in Kinds : \E todo :
         reqs[w] = Refunding(reqs[w].at, k, todo) /\ reqs[w].kind = k /\ LotOf(w) = Min(todo)
  BY <1>inv, <1>0, RefundParts DEF RefundSteps
<1>2. PICK todo :
         reqs[w] = Refunding("reserve_refund", k, todo) /\ reqs[w].kind = k /\ LotOf(w) = Min(todo)
  BY <1>0, <1>1
<1>3. PICK l : l = Min(todo)
  OBVIOUS
<1> DEFINE q == Refunding("pay_refund", k, todo)
<1>4. reqs' = [reqs EXCEPT ![w] = q]
  <2>1. [reqs[w] EXCEPT !.at = "pay_refund"] = q
    BY <1>2, RefundMoves
  <2>2. QED
    BY <2>1 DEF ReserveRefund, Goto
<1>5. ReqOK(q) /\ DrawHeld(q) /\ DrawHeld(q)' /\ q.kind = k /\ q.todo = todo
  BY DEF ReqOK, DrawHeld, Refunding, RefundSteps
<1> HIDE DEF q
<1>6. CASE RefundOf(w).status = "success" /\ UNCHANGED <<lots, refunds>>
  <2>1. refunds[l][k] # Absent
    BY <1>2, <1>3, <1>6 DEF RefundOf, Absent
  <2>2. RefundHeld(q)
    BY <1>3, <1>5, <2>1 DEF RefundHeld
  <2>3. UNCHANGED rows
    BY <1>0, <1>6 DEF rows
  <2>4. QED
    BY <1>4, <1>5, <2>2, <2>3, QuietStep
<1>7. CASE /\ refunds' = [refunds EXCEPT ![l][k] = Refund("processing", Remaining(l))]
           /\ lots' = [lots EXCEPT ![l].refunded = @ + Remaining(l)]
  <2>1. l \in Lots => /\ Remaining(l) \in Nat
                       /\ lots[l].refunded + Remaining(l) \in Nat
                       /\ lots[l].consumed + (lots[l].refunded + Remaining(l)) <= Original[l]
    <3>1. SUFFICES ASSUME l \in Lots
                   PROVE  /\ Remaining(l) \in Nat
                          /\ lots[l].refunded + Remaining(l) \in Nat
                          /\ lots[l].consumed + (lots[l].refunded + Remaining(l)) <= Original[l]
      OBVIOUS
    <3>2. PICK c \in Nat, f \in Nat : lots[l] = [consumed |-> c, refunded |-> f]
      BY <3>1 DEF LotInv, LotsOK, LotOK
    <3>3. c + f <= Original[l] /\ Original[l] \in Nat
      BY <3>1, <3>2, PoolAssumption DEF LotInv, CountersFit
    <3>4. Remaining(l) = Original[l] - c - f
      BY <3>2 DEF Remaining
    <3>5. QED
      BY <3>2, <3>3, <3>4
  <2>2. LotsOK' /\ CountersFit'
    BY <1>7, <2>1, LotRefunded
  <2>3. /\ RefundsOK'
        /\ l \in Lots => refunds'[l][k] # Absent
        /\ \A m \in Lots, j \in Kinds : refunds[m][j] # Absent => refunds'[m][j] # Absent
    <3>1. CASE l \in Lots
      <4>1. "processing" \in Marks
        BY DEF Marks
      <4>2. QED
        BY <1>7, <2>1, <3>1, <4>1, RefundWritten
    <3>2. CASE l \notin Lots
      <4>1. refunds' = refunds
        BY <1>inv, <1>7, <3>2 DEF RefundsOK
      <4>2. QED
        BY <1>inv, <3>2, <4>1 DEF RefundsOK, RefundOK
    <3>3. QED
      BY <3>1, <3>2
  <2>4. RefundHeld(q)'
    BY <1>3, <1>5, <2>3 DEF RefundHeld
  <2>5. ReqsOK'
    BY <1>inv, <1>0, <1>4, <1>5, <2>3, <2>4, RequestStep
  <2>6. QED
    BY <1>inv, <1>0, <2>2, <2>3, <2>5 DEF LotInv, DrawsOK, DrawOK
<1>8. QED
  BY <1>2, <1>3, <1>6, <1>7 DEF ReserveRefund

(***************************************************************************)
(* The end of a refund: its rows are right, and the request goes on.        *)
(***************************************************************************)
LEMMA RefundEnds ==
  ASSUME LotInv, NEW w \in Workers, reqs[w].at \in RefundSteps,
         GiveUp(w) \/ NextLot(w) \/ Reply(w),
         draws' = draws, RefundsOK', LotsOK', CountersFit',
         \A m \in Lots, j \in Kinds : refunds[m][j] # Absent => refunds'[m][j] # Absent
  PROVE  LotInv'
<1>inv. ReqsOK /\ DrawsOK
  BY DEF LotInv
<1>1. PICK q : /\ reqs' = [reqs EXCEPT ![w] = q]
               /\ ReqOK(q) /\ DrawHeld(q) /\ RefundHeld(q)
               /\ q.at \in {"free", "reserve_refund"}
  BY <1>inv, GivesUpOrGoesOn
<1>2. DrawHeld(q)' /\ RefundHeld(q)'
  BY <1>1 DEF DrawHeld, RefundHeld
<1>3. ReqsOK'
  BY <1>inv, <1>1, <1>2, RequestStep
<1>4. QED
  BY <1>inv, <1>3 DEF LotInv, DrawsOK, DrawOK

\* The lot, if it is one, has a refund row of the kind.
RowThere(l, k) == l \in Lots => \E s \in Marks, a \in Nat : refunds[l][k] = Refund(s, a)

(***************************************************************************)
(* The refund row that a request past its reservation works on.             *)
(***************************************************************************)
LEMMA RefundInHand ==
  ASSUME LotInv, NEW w \in Workers, reqs[w].at \in {"complete_refund", "reset_refund"}
  PROVE  \E k \in Kinds : \E l :
            /\ reqs[w].kind = k /\ LotOf(w) = l /\ RefundOf(w) = refunds[l][k]
            /\ RowThere(l, k)
<1>inv. ReqsOK /\ RefundsOK
  BY DEF LotInv
<1>1. reqs[w].at \in RefundSteps
  BY DEF RefundSteps
<1>2. PICK k \in Kinds : \E todo :
         reqs[w] = Refunding(reqs[w].at, k, todo) /\ reqs[w].kind = k /\ LotOf(w) = Min(todo)
  BY <1>inv, <1>1, RefundParts
<1>3. PICK l : l = LotOf(w)
  OBVIOUS
<1>4. l \in Lots => refunds[l][k] # Absent
  <2>1. RefundHeld(reqs[w])
    BY <1>inv DEF ReqsOK
  <2>2. QED
    BY <1>2, <1>3, <2>1 DEF RefundHeld, LotOf
<1>5. RowThere(l, k)
  BY <1>inv, <1>4 DEF RefundsOK, RefundOK, RowThere
<1>6. QED
  BY <1>2, <1>3, <1>5 DEF RefundOf

StatusSet(l, k, mark) == refunds' = [refunds EXCEPT ![l][k].status = mark]

(***************************************************************************)
(* A change of a refund row's status only, or of nothing.                   *)
(***************************************************************************)
LEMMA RefundMarked ==
  ASSUME LotInv, NEW l, NEW k \in Kinds, NEW mark \in Marks,
         StatusSet(l, k, mark),
         RowThere(l, k)
  PROVE  /\ RefundsOK'
         /\ \A m \in Lots, j \in Kinds : refunds[m][j] # Absent => refunds'[m][j] # Absent
<1>1. CASE l \in Lots
  <2>1. PICK s \in Marks, a \in Nat : refunds[l][k] = Refund(s, a)
    BY <1>1 DEF RowThere
  <2>2. [refunds[l][k] EXCEPT !.status = mark] = Refund(mark, a)
    BY <2>1 DEF Refund
  <2>3. refunds' = [refunds EXCEPT ![l][k] = Refund(mark, a)]
    BY <2>2 DEF StatusSet
  <2>4. QED
    BY <2>3, RefundWritten
<1>2. CASE l \notin Lots
  <2>1. refunds' = refunds
    BY <1>2 DEF LotInv, RefundsOK, StatusSet
  <2>2. QED
    BY <2>1 DEF LotInv, RefundsOK, RefundOK
<1>3. QED
  BY <1>1, <1>2

(***************************************************************************)
(* Completing a refund changes its status only.                             *)
(***************************************************************************)
LEMMA RefundCompleted ==
  ASSUME LotInv, NEW w \in Workers, CompleteRefund(w)
  PROVE  LotInv'
<1>0. reqs[w].at = "complete_refund" /\ lots' = lots /\ draws' = draws
  BY DEF CompleteRefund
<1>1. NextLot(w) \/ Reply(w)
  BY DEF CompleteRefund
<1>2. CASE refunds' = refunds
  BY <1>0, <1>1, <1>2, ListStep DEF rows, RefundSteps
<1>3. CASE refunds' = [refunds EXCEPT ![LotOf(w)][reqs[w].kind].status = "success"]
  <2>1. PICK k \in Kinds : \E l :
            /\ reqs[w].kind = k /\ LotOf(w) = l
            /\ RowThere(l, k)
    BY <1>0, RefundInHand
  <2>2. PICK l : /\ reqs[w].kind = k /\ LotOf(w) = l
                 /\ RowThere(l, k)
    BY <2>1
  <2>3. "success" \in Marks /\ StatusSet(l, k, "success")
    BY <1>3, <2>2 DEF Marks, StatusSet
  <2>4. /\ RefundsOK'
        /\ \A m \in Lots, j \in Kinds : refunds[m][j] # Absent => refunds'[m][j] # Absent
    BY <2>2, <2>3, RefundMarked
  <2>5. LotsOK' /\ CountersFit'
    BY <1>0 DEF LotInv, LotsOK, LotOK, CountersFit
  <2>6. QED
    BY <1>0, <1>1, <2>4, <2>5, RefundEnds DEF RefundSteps
<1>4. QED
  BY <1>2, <1>3 DEF CompleteRefund

(***************************************************************************)
(* Resetting a refund gives back what its row says it took.                 *)
(***************************************************************************)
LEMMA RefundReset ==
  ASSUME LotInv, NEW w \in Workers, ResetRefund(w)
  PROVE  LotInv'
<1>0. reqs[w].at = "reset_refund" /\ draws' = draws /\ GiveUp(w)
  BY DEF ResetRefund
<1>1. CASE UNCHANGED <<lots, refunds>>
  BY <1>0, <1>1, ListStep DEF rows, RefundSteps
<1>2. CASE /\ lots' = [lots EXCEPT ![LotOf(w)].refunded = Positive(@ - RefundOf(w).amount)]
           /\ refunds' = [refunds EXCEPT ![LotOf(w)][reqs[w].kind].status = "failed"]
  <2>1. PICK k \in Kinds : \E l :
            /\ reqs[w].kind = k /\ LotOf(w) = l /\ RefundOf(w) = refunds[l][k]
            /\ RowThere(l, k)
    BY <1>0, RefundInHand
  <2>2. PICK l : /\ reqs[w].kind = k /\ LotOf(w) = l /\ RefundOf(w) = refunds[l][k]
                 /\ RowThere(l, k)
    BY <2>1
  <2>3. "failed" \in Marks /\ StatusSet(l, k, "failed")
    BY <1>2, <2>2 DEF Marks, StatusSet
  <2>4. /\ RefundsOK'
        /\ \A m \in Lots, j \in Kinds : refunds[m][j] # Absent => refunds'[m][j] # Absent
    BY <2>2, <2>3, RefundMarked
  <2> DEFINE n == Positive(lots[l].refunded - refunds[l][k].amount)
  <2>5. lots' = [lots EXCEPT ![l].refunded = n]
    BY <1>2, <2>2
  <2>6. l \in Lots => n \in Nat /\ lots[l].consumed + n <= Original[l]
    <3>1. SUFFICES ASSUME l \in Lots PROVE n \in Nat /\ lots[l].consumed + n <= Original[l]
      OBVIOUS
    <3>2. PICK c \in Nat, f \in Nat : lots[l] = [consumed |-> c, refunded |-> f]
      BY <3>1 DEF LotInv, LotsOK, LotOK
    <3>3. c + f <= Original[l] /\ Original[l] \in Nat
      BY <3>1, <3>2, PoolAssumption DEF LotInv, CountersFit
    <3>4. PICK a \in Nat : refunds[l][k].amount = a
      <4>1. PICK s \in Marks, a \in Nat : refunds[l][k] = Refund(s, a)
        BY <2>2, <3>1 DEF RowThere
      <4>2. QED
        BY <4>1 DEF Refund
    <3>5. n = Positive(f - a)
      BY <3>2, <3>4
    <3>6. Positive(f - a) \in Nat /\ Positive(f - a) <= f
      BY DEF Positive
    <3> HIDE DEF n
    <3>7. QED
      BY <3>2, <3>3, <3>5, <3>6
  <2> HIDE DEF n
  <2>7. LotsOK' /\ CountersFit'
    BY <2>5, <2>6, LotRefunded
  <2>8. QED
    BY <1>0, <2>4, <2>7, RefundEnds DEF RefundSteps
<1>3. QED
  BY <1>1, <1>2 DEF ResetRefund

-----------------------------------------------------------------------------
(***************************************************************************)
(* The answer of the payout moves the request on and changes no row.        *)
(***************************************************************************)
LEMMA PayoutAnswered ==
  ASSUME LotInv, NEW w \in Workers, Paid(w) \/ PayoutFailed(w)
  PROVE  LotInv'
<1>inv. ReqsOK
  BY DEF LotInv
<1>0. UNCHANGED rows
  BY DEF Paid, PayoutFailed
<1>held. DrawHeld(reqs[w]) /\ RefundHeld(reqs[w])
  BY <1>inv DEF ReqsOK
<1>1. CASE reqs[w].at = "pay_draw"
  <2>1. PICK at \in {"complete_draw", "reset_draw"} : Goto(w, at)
    BY <1>1 DEF Paid, PayoutFailed
  <2>2. PICK u \in Users, a \in Nat, b \in BOOLEAN :
           /\ reqs[w] = DrawReq("pay_draw", u, a, b)
           /\ reqs[w].user = u /\ UserOf(w) = u /\ reqs[w].amount = a /\ reqs[w].row = b
    BY <1>inv, <1>1, DrawParts DEF DrawSteps
  <2>3. [reqs[w] EXCEPT !.at = at] = DrawReq(at, u, a, b)
    <3>1. reqs[w] = DrawReq("pay_draw", u, a, b)
      BY <2>2
    <3>2. QED
      BY <3>1, DrawMoves
  <2>4. reqs' = [reqs EXCEPT ![w] = DrawReq(at, u, a, b)]
    BY <2>1, <2>3 DEF Goto
  <2>5. ReqOK(DrawReq(at, u, a, b))
    BY DEF ReqOK, DrawSteps
  <2>6. b => draws[u] # Absent
    BY <1>held, <1>1, <2>2 DEF DrawHeld
  <2>7. DrawHeld(DrawReq(at, u, a, b)) /\ RefundHeld(DrawReq(at, u, a, b))
    BY <2>6 DEF DrawHeld, RefundHeld, DrawReq
  <2>8. QED
    BY <1>0, <2>4, <2>5, <2>7, QuietStep
<1>2. CASE reqs[w].at = "pay_refund"
  <2>1. PICK at \in {"complete_refund", "reset_refund"} : Goto(w, at)
    BY <1>2 DEF Paid, PayoutFailed
  <2>2. PICK k \in Kinds : \E todo :
           reqs[w] = Refunding(reqs[w].at, k, todo) /\ reqs[w].kind = k /\ LotOf(w) = Min(todo)
    BY <1>inv, <1>2, RefundParts DEF RefundSteps
  <2>3. PICK todo : reqs[w] = Refunding("pay_refund", k, todo)
    BY <1>2, <2>2
  <2>4. [reqs[w] EXCEPT !.at = at] = Refunding(at, k, todo)
    BY <2>3, RefundMoves
  <2>5. reqs' = [reqs EXCEPT ![w] = Refunding(at, k, todo)]
    BY <2>1, <2>4 DEF Goto
  <2>6. ReqOK(Refunding(at, k, todo))
    BY DEF ReqOK, RefundSteps
  <2>7. Min(todo) \in Lots => refunds[Min(todo)][k] # Absent
    BY <1>held, <2>3 DEF RefundHeld, Refunding
  <2>8. DrawHeld(Refunding(at, k, todo)) /\ RefundHeld(Refunding(at, k, todo))
    BY <2>7 DEF DrawHeld, RefundHeld, Refunding
  <2>9. QED
    BY <1>0, <2>5, <2>6, <2>8, QuietStep
<1>3. QED
  BY <1>1, <1>2 DEF Paid, PayoutFailed

(***************************************************************************)
(* Nothing moves but the clock, the payout service or a row nobody holds.   *)
(***************************************************************************)
LEMMA NothingMoves ==
  ASSUME LotInv, UNCHANGED <<rows, reqs>>
  PROVE  LotInv'
<1>1. lots' = lots /\ draws' = draws /\ refunds' = refunds /\ reqs' = reqs
  BY DEF rows
<1>2. ReqsOK'
  <2>1. ASSUME NEW w \in Workers PROVE (ReqOK(reqs[w]) /\ DrawHeld(reqs[w]) /\ RefundHeld(reqs[w]))'
    <3>1. PICK p : p = reqs[w]
      OBVIOUS
    <3>2. ReqOK(p) /\ DrawHeld(p) /\ RefundHeld(p)
      BY <3>1 DEF LotInv, ReqsOK
    <3>3. QED
      BY <1>1, <3>1, <3>2 DEF ReqOK, DrawHeld, RefundHeld
  <2>2. QED
    BY <1>1, <2>1 DEF LotInv, ReqsOK
<1>3. DrawsOK' /\ RefundsOK'
  BY <1>1 DEF LotInv, DrawsOK, DrawOK, RefundsOK, RefundOK
<1>4. LotsOK' /\ CountersFit'
  BY <1>1 DEF LotInv, LotsOK, LotOK, CountersFit
<1>5. QED
  BY <1>2, <1>3, <1>4 DEF LotInv

(***************************************************************************)
(* After a crash no request holds anything.                                 *)
(***************************************************************************)
LEMMA AllCrash ==
  ASSUME LotInv, Crash
  PROVE  LotInv'
<1>1. reqs' = [w \in Workers |-> Free] /\ UNCHANGED rows
  BY DEF Crash
<1>2. ReqsOK'
  BY <1>1 DEF ReqsOK, ReqOK, DrawHeld, RefundHeld, Free
<1>3. QED
  BY <1>1, <1>2 DEF LotInv, DrawsOK, DrawOK, RefundsOK, RefundOK, LotsOK, LotOK,
                    CountersFit, rows

(***************************************************************************)
(* A round of refunds starts with its list.                                 *)
(***************************************************************************)
LEMMA RefundsBegun ==
  ASSUME LotInv, NEW w \in Workers, BeginRecover(w) \/ BeginExpiry(w)
  PROVE  LotInv'
<1>1. PICK k \in Kinds : \E todo : BeginRefunds(w, k, todo)
  BY DEF BeginRecover, BeginExpiry, Kinds
<1>2. PICK todo : BeginRefunds(w, k, todo)
  BY <1>1
<1>3. reqs' = [reqs EXCEPT ![w] = Refunding("reserve_refund", k, todo)] /\ UNCHANGED rows
  BY <1>2 DEF BeginRefunds
<1>4. QED
  BY <1>3, ListHolds, QuietStep

(***************************************************************************)
(* Every step keeps the invariant.                                          *)
(***************************************************************************)
LEMMA LotStep == LotInv /\ [Next]_vars => LotInv'
<1> SUFFICES ASSUME LotInv, [Next]_vars PROVE LotInv'
  OBVIOUS
<1>1. ASSUME NEW w \in Workers, NEW u \in Users, BeginDraw(w, u) PROVE LotInv'
  BY <1>1, BeforeDraw
<1>2. ASSUME NEW w \in Workers, BeginRecover(w) \/ BeginExpiry(w) PROVE LotInv'
  BY <1>2, RefundsBegun
<1>3. ASSUME NEW w \in Workers, Step(w) PROVE LotInv'
  <2>1. CASE LookupDraw(w) \/ ChooseAmount(w) \/ DrawRefused(w)
    BY <2>1, BeforeDraw
  <2>2. CASE ReserveDraw(w)
    BY <2>2, DrawReserved
  <2>3. CASE CompleteDraw(w)
    BY <2>3, DrawCompleted
  <2>4. CASE ResetDraw(w)
    BY <2>4, DrawReset
  <2>5. CASE ReserveRefund(w)
    BY <2>5, RefundReserved
  <2>6. CASE RefundRefused(w)
    BY <2>6, ListStep DEF RefundRefused, RefundSteps
  <2>7. CASE CompleteRefund(w)
    BY <2>7, RefundCompleted
  <2>8. CASE ResetRefund(w)
    BY <2>8, RefundReset
  <2>9. CASE CreditStep(w)
    BY <2>9, NothingMoves DEF CreditStep
  <2>10. CASE Paid(w) \/ PayoutFailed(w)
    BY <2>10, PayoutAnswered
  <2>11. QED
    BY <1>3, <2>1, <2>2, <2>3, <2>4, <2>5, <2>6, <2>7, <2>8, <2>9, <2>10 DEF Step
<1>4. CASE Upstream \/ Expire
  BY <1>4, NothingMoves DEF Upstream, Expire
<1>5. CASE Crash
  BY <1>5, AllCrash
<1>6. CASE UNCHANGED vars
  BY <1>6, NothingMoves DEF vars, rows
<1>7. QED
  BY <1>1, <1>2, <1>3, <1>4, <1>5, <1>6 DEF Next

-----------------------------------------------------------------------------
(***************************************************************************)
(* What a lot has set aside.  The gap between what the rows took and what   *)
(* the lot shows is the same after every step but a reset, and a reset may  *)
(* only widen it.                                                           *)
(***************************************************************************)
LEMMA FiniteAgrees == \A S : IsFiniteSet(S) <=> P!IsFiniteSet(S)
  BY DEF IsFiniteSet, P!IsFiniteSet

LEMMA SumAgrees == \A f, S : SumFunctionOnSet(f, S) = P!SumFunctionOnSet(f, S)
  BY DEF SumFunctionOnSet, FoldFunctionOnSet, MapThenFoldSet,
     P!SumFunctionOnSet, P!FoldFunctionOnSet, P!MapThenFoldSet

TakesOf(l) == [u \in Users |-> TakenBy(draws[u], l)]

LEMMA TakesAre ==
  ASSUME DrawsOK, NEW l \in Lots
  PROVE  /\ TakenFrom(l) = SumFunctionOnSet(TakesOf(l), Users)
         /\ \A u \in Users : TakesOf(l)[u] = TakenBy(draws[u], l) /\ TakenBy(draws[u], l) \in Nat
         /\ TakenFrom(l) \in Nat
         /\ \A u \in Users : TakenBy(draws[u], l) <= TakenFrom(l)
<1>1. \A u \in Users : TakesOf(l)[u] = TakenBy(draws[u], l)
  BY DEF TakesOf
<1>2. ASSUME NEW u \in Users
      PROVE  TakenBy(draws[u], l) \in Nat
  <2>1. PICK d : d = draws[u] /\ DrawOK(d)
    BY DEF DrawsOK
  <2>2. CASE d = Absent
    BY <2>1, <2>2 DEF TakenBy
  <2>3. ASSUME NEW s \in {"processing", "success"}, NEW a \in Nat, NEW t \in [{0} \cup Lots -> Nat],
               d = Row(s, a, t)
        PROVE  TakenBy(draws[u], l) \in Nat
    BY <2>1, <2>3 DEF TakenBy, Row
  <2>4. QED
    BY <2>1, <2>2, <2>3 DEF DrawOK
<1>3. TakenFrom(l) = SumFunctionOnSet(TakesOf(l), Users)
  BY DEF TakenFrom, TakesOf, SumFunction
<1>4. TakenFrom(l) \in Nat /\ \A u \in Users : TakenBy(draws[u], l) <= TakenFrom(l)
  BY <1>1, <1>2, <1>3, FiniteAgrees, SumAgrees, P!SumNat, P!SumPart, PoolAssumption
<1>5. QED
  BY <1>1, <1>2, <1>3, <1>4

\* The row of one user changes, and so much the sum.
LEMMA TakenChanges ==
  ASSUME DrawsOK, NEW u \in Users, NEW d, DrawOK(d), draws' = [draws EXCEPT ![u] = d], NEW l \in Lots
  PROVE  TakenFrom(l)' = TakenFrom(l) - TakenBy(draws[u], l) + TakenBy(d, l)
<1>1. draws'[u] = d /\ \A v \in Users \ {u} : draws'[v] = draws[v]
  BY DEF DrawsOK
<1>2. PICK f : f = TakesOf(l)
  OBVIOUS
<1>3. PICK g : g = TakesOf(l)'
  OBVIOUS
<1>4. /\ TakenFrom(l) = SumFunctionOnSet(f, Users)
      /\ \A v \in Users : f[v] = TakenBy(draws[v], l) /\ f[v] \in Nat
  BY <1>2, TakesAre
<1>5. \A v \in Users : g[v] = TakenBy(draws'[v], l)
  BY <1>3 DEF TakesOf, TakenBy
<1>6. TakenFrom(l)' = SumFunctionOnSet(g, Users)
  BY <1>3 DEF TakenFrom, TakesOf, SumFunction, TakenBy
<1>7. \A v \in Users : g[v] \in Nat
  <2>1. ASSUME NEW v \in Users
        PROVE  TakenBy(draws'[v], l) \in Nat
    <3>1. PICK e : e = draws'[v]
      OBVIOUS
    <3>2. DrawOK(e)
      BY <1>1, <3>1 DEF DrawsOK
    <3>3. CASE e = Absent
      BY <3>1, <3>3 DEF TakenBy
    <3>4. ASSUME NEW s \in {"processing", "success"}, NEW a \in Nat, NEW t \in [{0} \cup Lots -> Nat],
                 e = Row(s, a, t)
          PROVE  TakenBy(draws'[v], l) \in Nat
      BY <3>1, <3>4 DEF TakenBy, Row
    <3>5. QED
      BY <3>2, <3>3, <3>4 DEF DrawOK
  <2>2. QED
    BY <1>5, <2>1
<1>8. SumFunctionOnSet(g, Users) = SumFunctionOnSet(f, Users) - f[u] + g[u]
  <2>1. \A v \in Users : f[v] \in Int /\ g[v] \in Int
    BY <1>4, <1>7
  <2>2. \A v \in Users \ {u} : f[v] = g[v]
    BY <1>1, <1>4, <1>5
  <2>3. IsFiniteSet(Users)
    BY PoolAssumption
  <2>4. QED
    BY <2>1, <2>2, <2>3, FiniteAgrees, SumAgrees, P!SumUpdate
<1>9. QED
  BY <1>1, <1>4, <1>5, <1>6, <1>8

LEMMA RefundsAre ==
  ASSUME RefundsOK, NEW l \in Lots
  PROVE  /\ \A k \in Kinds : RefundedBy(refunds[l][k]) \in Nat
         /\ RefundedFrom(l) \in Nat
         /\ \A k \in Kinds : RefundedBy(refunds[l][k]) <= RefundedFrom(l)
<1>1. ASSUME NEW k \in Kinds
      PROVE  RefundedBy(refunds[l][k]) \in Nat
  <2>1. PICK d : d = refunds[l][k] /\ RefundOK(d)
    BY DEF RefundsOK
  <2>2. CASE d = Absent
    BY <2>1, <2>2 DEF RefundedBy, Absent
  <2>3. ASSUME NEW s \in Marks, NEW a \in Nat, d = Refund(s, a)
        PROVE  RefundedBy(refunds[l][k]) \in Nat
    BY <2>1, <2>3 DEF RefundedBy, Refund
  <2>4. QED
    BY <2>1, <2>2, <2>3 DEF RefundOK
<1>2. Kinds = {"manual", "auto"}
  BY DEF Kinds
<1>3. PICK x \in Nat, y \in Nat : x = RefundedBy(refunds[l]["manual"]) /\ y = RefundedBy(refunds[l]["auto"])
  BY <1>1, <1>2
<1>4. RefundedFrom(l) = x + y
  BY <1>3 DEF RefundedFrom
<1>5. QED
  BY <1>1, <1>2, <1>3, <1>4

RowSet(l, k, s, a) == refunds' = [refunds EXCEPT ![l][k] = Refund(s, a)]
RefundedSet(l, n) == lots' = [lots EXCEPT ![l].refunded = n]

\* One refund row of a lot changes, and so much what the lot's rows took.
LEMMA RefundChanges ==
  ASSUME RefundsOK, NEW l \in Lots, NEW k \in Kinds, NEW s \in Marks, NEW a \in Nat,
         RowSet(l, k, s, a)
  PROVE  /\ RefundedFrom(l)' = RefundedFrom(l) - RefundedBy(refunds[l][k]) + RefundedBy(Refund(s, a))
         /\ RefundedBy(Refund(s, a)) = IF s = "failed" THEN 0 ELSE a
         /\ \A m \in Lots \ {l} : RefundedFrom(m)' = RefundedFrom(m)
<1>1. /\ refunds'[l] = [refunds[l] EXCEPT ![k] = Refund(s, a)]
      /\ refunds[l] = [i \in Kinds |-> refunds[l][i]]
      /\ \A m \in Lots \ {l} : refunds'[m] = refunds[m]
  BY DEF RefundsOK, RowSet
<1>2. /\ refunds'[l][k] = Refund(s, a)
      /\ \A j \in Kinds \ {k} : refunds'[l][j] = refunds[l][j]
  BY <1>1
<1>3. RefundedBy(Refund(s, a)) = IF s = "failed" THEN 0 ELSE a
  BY DEF RefundedBy, Refund, Marks
<1>4. \A m \in Lots \ {l} : RefundedFrom(m)' = RefundedFrom(m)
  BY <1>1 DEF RefundedFrom, RefundedBy
<1>5. /\ "manual" \in Kinds /\ "auto" \in Kinds /\ (k = "manual" \/ k = "auto")
  BY DEF Kinds
<1>6. PICK x \in Nat, y \in Nat, n \in Nat :
          /\ x = RefundedBy(refunds[l]["manual"]) /\ y = RefundedBy(refunds[l]["auto"])
          /\ n = RefundedBy(Refund(s, a))
  BY <1>3, <1>5, RefundsAre
<1>7. RefundedFrom(l)' = IF k = "manual" THEN n + y ELSE x + n
  <2>1. RefundedFrom(l)' = RefundedBy(refunds'[l]["manual"]) + RefundedBy(refunds'[l]["auto"])
    BY DEF RefundedFrom, RefundedBy
  <2>2. CASE k = "manual"
    BY <1>2, <1>5, <1>6, <2>1, <2>2
  <2>3. CASE k = "auto"
    BY <1>2, <1>5, <1>6, <2>1, <2>3
  <2>4. QED
    BY <1>5, <2>2, <2>3
<1>8. RefundedFrom(l) = x + y
  BY <1>6 DEF RefundedFrom
<1>9. RefundedFrom(l)' = RefundedFrom(l) - RefundedBy(refunds[l][k]) + n
  BY <1>5, <1>6, <1>7, <1>8
<1>10. QED
  BY <1>3, <1>4, <1>6, <1>9

DrawGap(l) == TakenFrom(l) - lots[l].consumed
RefundGap(l) == RefundedFrom(l) - lots[l].refunded

LEMMA GapTypes ==
  ASSUME LotInv, NEW l \in Lots
  PROVE  /\ TakenFrom(l) \in Nat /\ RefundedFrom(l) \in Nat
         /\ lots[l].consumed \in Nat /\ lots[l].refunded \in Nat
  BY TakesAre, RefundsAre DEF LotInv, LotsOK, LotOK

LEMMA ReservedDrawKeepsGaps ==
  ASSUME LotInv, NEW w \in Workers, ReserveDraw(w), NEW l \in Lots
  PROVE  DrawGap(l)' = DrawGap(l) /\ RefundGap(l)' = RefundGap(l)
<1>0. ReqsOK /\ DrawsOK /\ reqs[w].at \in DrawSteps /\ refunds' = refunds
  BY DEF LotInv, ReserveDraw, DrawSteps
<1>1. PICK u \in Users, a \in Nat : UserOf(w) = u /\ reqs[w].amount = a
  BY <1>0, DrawParts
<1>2. PICK takes \in Splits(a) :
         /\ draws' = [draws EXCEPT ![u] = Row("processing", a, takes)]
         /\ lots' = [m \in Lots |-> [lots[m] EXCEPT !.consumed = @ + takes[m]]]
  BY <1>1 DEF ReserveDraw
<1>3. draws[u] = Absent
  BY <1>1 DEF ReserveDraw
<1>4. takes \in [{0} \cup Lots -> Nat]
  <2>1. takes \in [{0} \cup Lots -> 0..a]
    BY DEF Splits
  <2>2. 0..a \subseteq Nat
    OBVIOUS
  <2>3. QED
    BY <2>1, <2>2
<1>5. DrawOK(Row("processing", a, takes)) /\ Row("processing", a, takes) # Absent
  BY <1>4 DEF Row, Absent, DrawOK
<1>6. /\ TakenBy(draws[u], l) = 0
      /\ TakenBy(Row("processing", a, takes), l) = takes[l]
  BY <1>3, <1>5 DEF TakenBy, Row
<1>7. TakenFrom(l)' = TakenFrom(l) + takes[l]
  <2>1. TakenFrom(l)' = TakenFrom(l) - 0 + takes[l]
    BY <1>0, <1>2, <1>5, <1>6, TakenChanges
  <2>2. TakenFrom(l) \in Nat
    BY GapTypes
  <2>3. QED
    BY <1>4, <2>1, <2>2
<1>8. lots'[l].consumed = lots[l].consumed + takes[l] /\ lots'[l].refunded = lots[l].refunded
  <2>1. PICK c \in Nat, f \in Nat : lots[l] = [consumed |-> c, refunded |-> f]
    BY DEF LotInv, LotsOK, LotOK
  <2>2. lots'[l] = [consumed |-> c + takes[l], refunded |-> f]
    BY <1>2, <2>1
  <2>3. QED
    BY <2>1, <2>2
<1>9. RefundedFrom(l)' = RefundedFrom(l)
  BY <1>0 DEF RefundedFrom, RefundedBy
<1>10. QED
  BY <1>4, <1>7, <1>8, <1>9, GapTypes DEF DrawGap, RefundGap

LEMMA CompletedDrawKeepsGaps ==
  ASSUME LotInv, NEW w \in Workers, CompleteDraw(w), NEW l \in Lots
  PROVE  DrawGap(l)' = DrawGap(l) /\ RefundGap(l)' = RefundGap(l)
<1>0. /\ ReqsOK /\ DrawsOK /\ reqs[w].at \in DrawSteps /\ reqs[w].at = "complete_draw"
      /\ refunds' = refunds /\ lots' = lots
  BY DEF LotInv, CompleteDraw, DrawSteps
<1>1. PICK u \in Users, a \in Nat, b \in BOOLEAN :
         /\ reqs[w] = DrawReq(reqs[w].at, u, a, b)
         /\ reqs[w].user = u /\ UserOf(w) = u /\ reqs[w].amount = a /\ reqs[w].row = b
  BY <1>0, DrawParts
<1>2. TakenFrom(l)' = TakenFrom(l)
  <2>1. CASE draws' = draws
    BY <2>1 DEF TakenFrom, TakenBy
  <2>2. CASE b /\ draws' = [draws EXCEPT ![u].status = "success"]
    <3>1. draws[u] # Absent
      BY <1>0, <1>1, <2>2 DEF ReqsOK, DrawHeld
    <3>2. PICK s \in {"processing", "success"}, m \in Nat, t \in [{0} \cup Lots -> Nat] :
              draws[u] = Row(s, m, t)
      BY <1>0, <3>1 DEF DrawsOK, DrawOK
    <3>3. [draws[u] EXCEPT !.status = "success"] = Row("success", m, t)
      BY <3>2 DEF Row
    <3>4. draws' = [draws EXCEPT ![u] = Row("success", m, t)]
      BY <2>2, <3>3
    <3>5. DrawOK(Row("success", m, t))
      BY DEF DrawOK
    <3>6. TakenBy(draws[u], l) = t[l] /\ TakenBy(Row("success", m, t), l) = t[l] /\ t[l] \in Nat
      BY <3>2 DEF TakenBy, Row, Absent
    <3>7. TakenFrom(l)' = TakenFrom(l) - t[l] + t[l]
      BY <1>0, <3>4, <3>5, <3>6, TakenChanges
    <3>8. QED
      BY <3>6, <3>7, GapTypes
  <2>3. QED
    BY <1>1, <2>1, <2>2 DEF CompleteDraw
<1>3. RefundedFrom(l)' = RefundedFrom(l)
  BY <1>0 DEF RefundedFrom, RefundedBy
<1>4. QED
  BY <1>0, <1>2, <1>3 DEF DrawGap, RefundGap

\* A lot's refunded amount and its refund row change together.
LEMMA GapsElsewhere ==
  ASSUME LotInv, NEW j, NEW k \in Kinds, NEW s, NEW a, NEW n,
         RowSet(j, k, s, a), RefundedSet(j, n), draws' = draws, NEW l \in Lots, l # j
  PROVE  DrawGap(l)' = DrawGap(l) /\ RefundGap(l)' = RefundGap(l)
<1>1. lots'[l] = lots[l] /\ refunds'[l] = refunds[l]
  BY DEF LotInv, LotsOK, RefundsOK, RowSet, RefundedSet
<1>2. TakenFrom(l)' = TakenFrom(l) /\ RefundedFrom(l)' = RefundedFrom(l)
  BY <1>1 DEF TakenFrom, TakenBy, RefundedFrom, RefundedBy
<1>3. QED
  BY <1>1, <1>2 DEF DrawGap, RefundGap

LEMMA GapsHere ==
  ASSUME LotInv, NEW l \in Lots, NEW k \in Kinds, NEW s \in Marks, NEW a \in Nat, NEW n \in Nat,
         RowSet(l, k, s, a), RefundedSet(l, n), draws' = draws
  PROVE  /\ DrawGap(l)' = DrawGap(l)
         /\ RefundGap(l)' = RefundedFrom(l) - RefundedBy(refunds[l][k]) + RefundedBy(Refund(s, a)) - n
<1>1. PICK c \in Nat, f \in Nat : lots[l] = [consumed |-> c, refunded |-> f]
  BY DEF LotInv, LotsOK, LotOK
<1>2. lots'[l] = [consumed |-> c, refunded |-> n]
  BY <1>1 DEF LotInv, LotsOK, RefundedSet
<1>3. TakenFrom(l)' = TakenFrom(l)
  BY DEF TakenFrom, TakenBy
<1>4. RefundedFrom(l)' = RefundedFrom(l) - RefundedBy(refunds[l][k]) + RefundedBy(Refund(s, a))
  BY RefundChanges DEF LotInv
<1>5. DrawGap(l)' = DrawGap(l)
  BY <1>1, <1>2, <1>3 DEF DrawGap
<1>6. RefundGap(l)' = RefundedFrom(l)' - n
  BY <1>2 DEF RefundGap
<1>7. PICK x \in Nat, y \in Nat, z \in Nat :
          x = RefundedFrom(l) /\ y = RefundedBy(refunds[l][k]) /\ z = RefundedBy(Refund(s, a))
  <2>1. RefundedBy(Refund(s, a)) \in Nat
    BY DEF RefundedBy, Refund
  <2>2. QED
    BY <2>1, GapTypes, RefundsAre DEF LotInv
<1>8. QED
  BY <1>4, <1>5, <1>6, <1>7

LEMMA ReservedRefundKeepsGaps ==
  ASSUME LotInv, NEW w \in Workers, ReserveRefund(w), NEW l \in Lots
  PROVE  DrawGap(l)' = DrawGap(l) /\ RefundGap(l)' = RefundGap(l)
<1>0. ReqsOK /\ RefundsOK /\ reqs[w].at \in RefundSteps /\ draws' = draws
  BY DEF LotInv, ReserveRefund, RefundSteps
<1>1. PICK k \in Kinds : reqs[w].kind = k
  BY <1>0, RefundParts
<1>2. PICK j : j = LotOf(w)
  OBVIOUS
<1>3. CASE UNCHANGED <<lots, refunds>>
  BY <1>0, <1>3 DEF DrawGap, RefundGap, TakenFrom, TakenBy, RefundedFrom, RefundedBy
<1>4. CASE ~UNCHANGED <<lots, refunds>>
  <2>1. /\ refunds' = [refunds EXCEPT ![j][k] = Refund("processing", Remaining(j))]
        /\ lots' = [lots EXCEPT ![j].refunded = @ + Remaining(j)]
        /\ \A i \in Kinds : refunds[j][i].status # "processing"
        /\ refunds[j][k].status # "success"
    BY <1>1, <1>2, <1>4 DEF ReserveRefund, RefundOf
  <2>2. j \in Lots
    <3>1. SUFFICES ASSUME j \notin Lots PROVE UNCHANGED <<lots, refunds>>
      BY <1>4
    <3>2. QED
      BY <2>1, <3>1 DEF LotInv, LotsOK, RefundsOK
  <2>3. PICK c \in Nat, f \in Nat : lots[j] = [consumed |-> c, refunded |-> f]
    BY <2>2 DEF LotInv, LotsOK, LotOK
  <2>4. PICK r \in Nat : r = Remaining(j)
    BY <2>2, <2>3, PoolAssumption DEF Remaining, LotInv, CountersFit
  <2>5. lots' = [lots EXCEPT ![j].refunded = f + r]
    BY <2>1, <2>3, <2>4
  <2>6. RefundedBy(refunds[j][k]) = 0
    BY <2>1 DEF RefundedBy
  <2>7. /\ "processing" \in Marks /\ RowSet(j, k, "processing", r) /\ RefundedSet(j, f + r)
        /\ f + r \in Nat
    <3>1. RowSet(j, k, "processing", r)
      BY <2>1, <2>4 DEF RowSet
    <3>2. RefundedSet(j, f + r)
      BY <2>5 DEF RefundedSet
    <3>3. QED
      BY <3>1, <3>2 DEF Marks
  <2>8. RefundedBy(Refund("processing", r)) = r
    BY DEF RefundedBy, Refund
  <2>9. /\ DrawGap(j)' = DrawGap(j)
        /\ RefundGap(j)' = RefundedFrom(j) - 0 + r - (f + r)
    BY <1>0, <2>2, <2>6, <2>7, <2>8, GapsHere
  <2>10. RefundGap(j)' = RefundGap(j)
    BY <2>2, <2>3, <2>9, GapTypes DEF RefundGap
  <2>11. QED
    BY <1>0, <2>7, <2>9, <2>10, GapsElsewhere
<1>5. QED
  BY <1>3, <1>4

LEMMA CompletedRefundKeepsGaps ==
  ASSUME LotInv, NEW w \in Workers, CompleteRefund(w), NEW l \in Lots
  PROVE  DrawGap(l)' = DrawGap(l) /\ RefundGap(l)' = RefundGap(l)
<1>0. RefundsOK /\ reqs[w].at = "complete_refund" /\ draws' = draws /\ lots' = lots
  BY DEF LotInv, CompleteRefund
<1>1. PICK k \in Kinds : \E j :
          /\ reqs[w].kind = k /\ LotOf(w) = j /\ RefundOf(w) = refunds[j][k]
          /\ RowThere(j, k)
  BY <1>0, RefundInHand
<1>2. PICK j : /\ reqs[w].kind = k /\ LotOf(w) = j /\ RefundOf(w) = refunds[j][k]
               /\ RowThere(j, k)
  BY <1>1
<1>3. CASE refunds' = refunds
  BY <1>0, <1>3 DEF DrawGap, RefundGap, TakenFrom, TakenBy, RefundedFrom, RefundedBy
<1>4. CASE refunds' # refunds
  <2>1. /\ refunds[j][k].status = "processing"
        /\ refunds' = [refunds EXCEPT ![j][k].status = "success"]
    BY <1>2, <1>4 DEF CompleteRefund
  <2>2. j \in Lots
    BY <1>0, <1>4, <2>1 DEF RefundsOK
  <2>3. PICK s \in Marks, a \in Nat : refunds[j][k] = Refund(s, a)
    BY <1>2, <2>2 DEF RowThere
  <2>4. s = "processing" /\ [refunds[j][k] EXCEPT !.status = "success"] = Refund("success", a)
    BY <2>1, <2>3 DEF Refund
  <2>5. refunds' = [refunds EXCEPT ![j][k] = Refund("success", a)]
    BY <2>1, <2>4
  <2>6. RefundedBy(refunds[j][k]) = a
    BY <2>3, <2>4 DEF RefundedBy, Refund
  <2>7. CASE l = j
    <3>1. "success" \in Marks /\ RowSet(j, k, "success", a)
      BY <2>5 DEF Marks, RowSet
    <3>2. RefundedFrom(l)' = RefundedFrom(l) - a + a
      BY <1>0, <2>2, <2>6, <2>7, <3>1, RefundChanges
    <3>3. RefundedFrom(l)' = RefundedFrom(l)
      BY <3>2, GapTypes
    <3>4. QED
      BY <1>0, <3>3 DEF DrawGap, RefundGap, TakenFrom, TakenBy
  <2>8. CASE l # j
    <3>1. refunds'[l] = refunds[l]
      BY <1>0, <2>5, <2>8 DEF RefundsOK
    <3>2. QED
      BY <1>0, <3>1 DEF DrawGap, RefundGap, TakenFrom, TakenBy, RefundedFrom, RefundedBy
  <2>9. QED
    BY <2>7, <2>8
<1>5. QED
  BY <1>3, <1>4

(***************************************************************************)
(* A reset gives back no more than its row took, and the row that it leaves *)
(* behind no longer counts; when it counted, so much less is set aside.     *)
(***************************************************************************)
Covered(l) == DrawGap(l) >= 0 /\ RefundGap(l) >= 0

LEMMA ResetRefundCovers ==
  ASSUME LotInv, NEW w \in Workers, ResetRefund(w), NEW l \in Lots, Covered(l)
  PROVE  Covered(l)'
<1>0. RefundsOK /\ reqs[w].at = "reset_refund" /\ draws' = draws
  BY DEF LotInv, ResetRefund
<1>1. PICK k \in Kinds : \E j :
          /\ reqs[w].kind = k /\ LotOf(w) = j /\ RefundOf(w) = refunds[j][k]
          /\ RowThere(j, k)
  BY <1>0, RefundInHand
<1>2. PICK j : /\ reqs[w].kind = k /\ LotOf(w) = j /\ RefundOf(w) = refunds[j][k]
               /\ RowThere(j, k)
  BY <1>1
<1>3. CASE UNCHANGED <<lots, refunds>>
  BY <1>0, <1>3 DEF Covered, DrawGap, RefundGap, TakenFrom, TakenBy, RefundedFrom, RefundedBy
<1>4. CASE ~UNCHANGED <<lots, refunds>>
  <2>1. /\ lots' = [lots EXCEPT ![j].refunded = Positive(@ - refunds[j][k].amount)]
        /\ refunds' = [refunds EXCEPT ![j][k].status = "failed"]
    BY <1>2, <1>4 DEF ResetRefund
  <2>2. j \in Lots
    <3>1. SUFFICES ASSUME j \notin Lots PROVE UNCHANGED <<lots, refunds>>
      BY <1>4
    <3>2. QED
      BY <1>0, <2>1, <3>1 DEF LotInv, LotsOK, RefundsOK
  <2>3. PICK s \in Marks, a \in Nat : refunds[j][k] = Refund(s, a)
    BY <1>2, <2>2 DEF RowThere
  <2>4. refunds[j][k].amount = a /\ [refunds[j][k] EXCEPT !.status = "failed"] = Refund("failed", a)
    BY <2>3 DEF Refund
  <2>5. refunds' = [refunds EXCEPT ![j][k] = Refund("failed", a)]
    BY <2>1, <2>4
  <2>6. RefundedBy(refunds[j][k]) \in {0, a} /\ RefundedBy(refunds[j][k]) <= RefundedFrom(j)
    <3>1. RefundedBy(Refund(s, a)) \in {0, a}
      BY DEF RefundedBy, Refund
    <3>2. QED
      BY <1>0, <2>2, <2>3, <3>1, RefundsAre
  <2>7. PICK c \in Nat, f \in Nat : lots[j] = [consumed |-> c, refunded |-> f]
    BY <2>2 DEF LotInv, LotsOK, LotOK
  <2>8. PICK n \in Nat : n = Positive(f - a) /\ (n = f - a \/ n = 0) /\ n <= f
    BY DEF Positive
  <2>9. lots' = [lots EXCEPT ![j].refunded = n]
    BY <2>1, <2>4, <2>7, <2>8
  <2>10. "failed" \in Marks /\ RowSet(j, k, "failed", a) /\ RefundedSet(j, n)
    BY <2>5, <2>9 DEF Marks, RowSet, RefundedSet
  <2>11. RefundedBy(Refund("failed", a)) = 0
    BY DEF RefundedBy, Refund
  <2>12. /\ DrawGap(j)' = DrawGap(j)
         /\ RefundGap(j)' = RefundedFrom(j) - RefundedBy(refunds[j][k]) + 0 - n
    BY <1>0, <2>2, <2>10, <2>11, GapsHere
  <2>13. CASE l = j
    <3>1. PICK x \in Nat, y \in Nat : x = RefundedFrom(j) /\ y = RefundedBy(refunds[j][k]) /\ y <= x
      BY <2>2, <2>6, GapTypes
    <3>2. Covered(j)
      BY <2>13
    <3>3. x - f >= 0 /\ DrawGap(j) >= 0
      BY <2>7, <3>1, <3>2 DEF Covered, RefundGap
    <3>4. x - y + 0 - n >= 0
      BY <2>6, <2>8, <3>1, <3>3
    <3>5. Covered(j)'
      BY <2>12, <3>1, <3>3, <3>4 DEF Covered
    <3>6. QED
      BY <2>13, <3>5
  <2>14. CASE l # j
    <3>1. DrawGap(l)' = DrawGap(l) /\ RefundGap(l)' = RefundGap(l)
      BY <1>0, <2>10, <2>14, GapsElsewhere
    <3>2. QED
      BY <3>1 DEF Covered
  <2>15. QED
    BY <2>13, <2>14
<1>5. QED
  BY <1>3, <1>4

LEMMA ResetDrawCovers ==
  ASSUME LotInv, NEW w \in Workers, ResetDraw(w), NEW l \in Lots, Covered(l)
  PROVE  Covered(l)'
<1>0. ReqsOK /\ DrawsOK /\ reqs[w].at = "reset_draw" /\ reqs[w].at \in DrawSteps /\ refunds' = refunds
  BY DEF LotInv, ResetDraw, DrawSteps
<1>1. PICK u \in Users, a \in Nat, b \in BOOLEAN :
         /\ reqs[w] = DrawReq(reqs[w].at, u, a, b)
         /\ reqs[w].user = u /\ UserOf(w) = u /\ reqs[w].amount = a /\ reqs[w].row = b
  BY <1>0, DrawParts
<1>2. CASE UNCHANGED <<lots, draws>>
  BY <1>0, <1>2 DEF Covered, DrawGap, RefundGap, TakenFrom, TakenBy, RefundedFrom, RefundedBy
<1>3. CASE ~UNCHANGED <<lots, draws>>
  <2>1. b /\ lots' = Released(draws[u].takes) /\ (draws' = [draws EXCEPT ![u] = Absent] \/ draws' = draws)
    BY <1>1, <1>3 DEF ResetDraw, DeleteDraw
  <2>2. draws[u] # Absent
    BY <1>0, <1>1, <2>1 DEF ReqsOK, DrawHeld
  <2>3. PICK s \in {"processing", "success"}, m \in Nat, t \in [{0} \cup Lots -> Nat] :
            draws[u] = Row(s, m, t)
    BY <1>0, <2>2 DEF DrawsOK, DrawOK
  <2>4. draws[u].takes = t /\ TakenBy(draws[u], l) = t[l] /\ t[l] \in Nat
    BY <2>2, <2>3 DEF Row, TakenBy
  <2>5. PICK c \in Nat, f \in Nat : lots[l] = [consumed |-> c, refunded |-> f]
    BY DEF LotInv, LotsOK, LotOK
  <2>6. PICK n \in Nat : n = Positive(c - t[l]) /\ (n = c - t[l] \/ n = 0) /\ n <= c
    BY <2>4 DEF Positive
  <2>7. lots'[l] = [consumed |-> n, refunded |-> f]
    BY <2>1, <2>4, <2>5, <2>6 DEF Released
  <2>8. TakenFrom(l)' = TakenFrom(l) \/ TakenFrom(l)' = TakenFrom(l) - t[l]
    <3>1. CASE draws' = draws
      BY <3>1 DEF TakenFrom, TakenBy
    <3>2. CASE draws' = [draws EXCEPT ![u] = Absent]
      <4>1. DrawOK(Absent) /\ TakenBy(Absent, l) = 0
        BY DEF DrawOK, TakenBy
      <4>2. TakenFrom(l)' = TakenFrom(l) - t[l] + 0
        BY <1>0, <2>4, <3>2, <4>1, TakenChanges
      <4>3. QED
        BY <2>4, <4>2, GapTypes
    <3>3. QED
      BY <2>1, <3>1, <3>2
  <2>9. PICK x \in Nat : x = TakenFrom(l) /\ t[l] <= x
    BY <1>0, <2>4, TakesAre
  <2>10. x - c >= 0
    BY <2>5, <2>9 DEF Covered, DrawGap
  <2>11. DrawGap(l)' >= 0
    BY <2>4, <2>6, <2>7, <2>8, <2>9, <2>10 DEF DrawGap
  <2>12. RefundGap(l)' = RefundGap(l)
    BY <1>0, <2>5, <2>7 DEF RefundGap, RefundedFrom, RefundedBy
  <2>13. QED
    BY <2>11, <2>12 DEF Covered
<1>4. QED
  BY <1>2, <1>3

(***************************************************************************)
(* Every step but a reset keeps the gaps.                                   *)
(***************************************************************************)
Resets == \E w \in Workers : ResetDraw(w) \/ ResetRefund(w)

LEMMA GapsStay ==
  ASSUME LotInv, [Next]_vars, ~Resets, NEW l \in Lots
  PROVE  DrawGap(l)' = DrawGap(l) /\ RefundGap(l)' = RefundGap(l)
<1>1. CASE UNCHANGED rows
  BY <1>1 DEF rows, DrawGap, RefundGap, TakenFrom, TakenBy, RefundedFrom, RefundedBy
<1>2. CASE ~UNCHANGED rows
  <2>1. PICK w \in Workers : ReserveDraw(w) \/ CompleteDraw(w) \/ ReserveRefund(w) \/ CompleteRefund(w)
    BY <1>2 DEF Resets, Next, Step, vars, rows, BeginDraw, BeginRecover, BeginExpiry, BeginRefunds,
       LookupDraw, ChooseAmount, DrawRefused, RefundRefused, CreditStep, Paid, PayoutFailed, Upstream,
       Expire, Crash
  <2>2. QED
    BY <2>1, ReservedDrawKeepsGaps, CompletedDrawKeepsGaps, ReservedRefundKeepsGaps,
       CompletedRefundKeepsGaps
<1>3. QED
  BY <1>1, <1>2

AsideInv == LotInv /\ \A l \in Lots : Covered(l)

LEMMA GapsInit ==
  ASSUME Init, NEW l \in Lots
  PROVE  DrawGap(l) = 0 /\ RefundGap(l) = 0
<1>1. lots[l].consumed = 0 /\ lots[l].refunded = 0
  BY DEF Init
<1>2. RefundedFrom(l) = 0
  BY DEF Init, RefundedFrom, RefundedBy, Absent, Kinds
<1>3. TakenFrom(l) = 0
  <2>1. \A u \in Users : TakesOf(l)[u] = 0
    BY DEF Init, TakesOf, TakenBy
  <2>2. SumFunctionOnSet(TakesOf(l), Users) = 0
    BY <2>1, FiniteAgrees, SumAgrees, P!SumOfNothing, PoolAssumption
  <2>3. QED
    BY <2>2 DEF TakenFrom, TakesOf, SumFunction
<1>4. QED
  BY <1>1, <1>2, <1>3 DEF DrawGap, RefundGap

(***************************************************************************)
(* What a lot has set aside belongs to rows that exist, through any order   *)
(* of reservations, resets, repeated payouts, expiry rounds and crashes.    *)
(***************************************************************************)
THEOREM NothingIsLockedAway == Spec => []SetAsideForSomebody
<1>1. Init => AsideInv
  BY LotInit, GapsInit DEF AsideInv, Covered
<1>2. AsideInv /\ [Next]_vars => AsideInv'
  <2> SUFFICES ASSUME AsideInv, [Next]_vars PROVE AsideInv'
    OBVIOUS
  <2>1. LotInv /\ LotInv'
    BY LotStep DEF AsideInv
  <2>2. ASSUME NEW l \in Lots
        PROVE  Covered(l)'
    <3>1. CASE Resets
      BY <2>1, <3>1, ResetDrawCovers, ResetRefundCovers DEF Resets, AsideInv
    <3>2. CASE ~Resets
      BY <2>1, <3>2, GapsStay DEF AsideInv, Covered
    <3>3. QED
      BY <3>1, <3>2
  <2>3. QED
    BY <2>1, <2>2 DEF AsideInv
<1>3. AsideInv => SetAsideForSomebody
  BY GapTypes DEF AsideInv, Covered, DrawGap, RefundGap, SetAsideForSomebody
<1>4. QED
  BY <1>1, <1>2, <1>3, PTL DEF Spec

-----------------------------------------------------------------------------
(***************************************************************************)
(* The books while nothing doubtful was given back.  The gaps stay zero,    *)
(* and every call, request and movement under the key of a draw is for the  *)
(* amount of its row, under that of a lot's refunds for no more than the    *)
(* lot's rows took.  A reset finds no call, request or movement there.      *)
(***************************************************************************)
UpDraw(u) == <<"draw", u>>
UpRefund(l) == <<"refund", l>>
UpKeysHere == {UpKeyOf[k] : k \in Keys}
Own(u, a) == draws[u] # Absent /\ draws[u].amount = a
OwnNext(u, a) == draws'[u] # Absent /\ draws'[u].amount = a

CallOK(c) == c = Credit!Idle \/ \E pc : \E r : c = [pc |-> pc, req |-> r] /\ r.key \in Keys

MoneyOK ==
    /\ calls = [w \in Workers |-> calls[w]]
    /\ \A w \in Workers : CallOK(calls[w])
    /\ applied = [x \in {UpKeyOf[k] : k \in Keys} |-> applied[x]]

\* A request works through lots.
Listed(q) == q.at \in RefundSteps => q.todo # {} /\ q.todo \in SUBSET Lots
ListsOK == \A w \in Workers : Listed(reqs[w])

Calls(w, u) == calls[w] # Credit!Idle /\ calls[w].req.key = DrawKey(u)

PaidRight(u) ==
    /\ applied[UpDraw(u)] # 0 => Own(u, applied[UpDraw(u)])
    /\ \A m \in sent : m.up = UpDraw(u) => Own(u, m.delta)
    /\ \A w \in Workers : Calls(w, u) => Own(u, calls[w].req.delta)

\* No more than the refund rows of the lot have taken.
Covers(l, n) == n \in Nat /\ n <= RefundedFrom(l)
CoversNext(l, n) == n \in Nat /\ n <= RefundedFrom(l)'
CallsUp(w, x) == calls[w] # Credit!Idle /\ UpKeyOf[calls[w].req.key] = x

RefundRight(l) ==
    /\ Covers(l, applied[UpRefund(l)])
    /\ \A m \in sent : m.up = UpRefund(l) => Covers(l, m.delta)
    /\ \A w \in Workers : CallsUp(w, UpRefund(l)) => Covers(l, calls[w].req.delta)

\* Only a request that pays has a call.
PaySteps == {"pay_draw", "pay_refund"}
CallsPlaced == \A w \in Workers : calls[w] # Credit!Idle => reqs[w].at \in PaySteps

NoGaps == \A l \in Lots : DrawGap(l) = 0 /\ RefundGap(l) = 0

BooksInv ==
    /\ LotInv
    /\ ListsOK
    /\ MoneyOK
    /\ CallsPlaced
    /\ ~doubtful =>
          /\ NoGaps
          /\ \A u \in Users : PaidRight(u)
          /\ \A l \in Lots : RefundRight(l)

LEMMA KeysAre ==
  /\ \A u \in Users : DrawKey(u) \in Keys /\ UpKeyOf[DrawKey(u)] = UpDraw(u)
  /\ \A k \in Keys, u \in Users : UpKeyOf[k] = UpDraw(u) => k = DrawKey(u)
  /\ \A l \in Lots, k \in Kinds : RefundKey(l, k) \in Keys /\ UpKeyOf[RefundKey(l, k)] = UpRefund(l)
  /\ \A u \in Users : \A l, k : RefundKey(l, k) # DrawKey(u)
<1>1. \A u \in Users : DrawKey(u) \in Keys
  BY DEF Keys
<1>2. \A l \in Lots, k \in Kinds : RefundKey(l, k) \in Keys
  BY DEF Keys
<1>3. \A k \in Keys : UpKeyOf[k] = <<k[1], k[2]>>
  BY DEF UpKeyOf
<1>4. \A u \in Users : UpKeyOf[DrawKey(u)] = UpDraw(u)
  BY <1>1, <1>3 DEF DrawKey, UpDraw
<1>5. \A l, k : RefundKey(l, k)[1] = "refund" /\ \A u : DrawKey(u)[1] = "draw"
  BY DEF RefundKey, DrawKey
<1>6. ASSUME NEW k \in Keys, NEW u \in Users, UpKeyOf[k] = UpDraw(u)
      PROVE  k = DrawKey(u)
  <2>1. <<k[1], k[2]>> = <<"draw", u>>
    BY <1>3, <1>6 DEF UpDraw
  <2>2. k[1] = "draw" /\ k[2] = u
    BY <2>1
  <2>3. PICK v \in Users : k = DrawKey(v)
    BY <1>5, <2>2 DEF Keys
  <2>4. v = u
    BY <2>2, <2>3 DEF DrawKey
  <2>5. QED
    BY <2>3, <2>4
<1>7. ASSUME NEW l \in Lots, NEW k \in Kinds
      PROVE  UpKeyOf[RefundKey(l, k)] = UpRefund(l)
  <2>1. PICK key \in Keys : key = RefundKey(l, k)
    BY <1>2
  <2>2. key[1] = "refund" /\ key[2] = l
    BY <2>1 DEF RefundKey
  <2>3. QED
    BY <1>3, <2>1, <2>2 DEF UpRefund
<1>8. QED
  BY <1>1, <1>2, <1>4, <1>5, <1>6, <1>7

LEMMA BooksInit == ASSUME Init PROVE BooksInv
<1>1. LotInv
  BY LotInit
<1>2. ListsOK
  BY DEF Init, ListsOK, Listed, Free, RefundSteps
<1>3. MoneyOK
  BY DEF Init, Credit!Init, MoneyOK, CallOK
<1>4. CallsPlaced
  BY DEF Init, Credit!Init, CallsPlaced
<1>5. NoGaps
  BY GapsInit DEF NoGaps
<1>6. ASSUME NEW u \in Users PROVE PaidRight(u)
  <2>1. UpDraw(u) \in {UpKeyOf[k] : k \in Keys}
    BY KeysAre
  <2>2. QED
    BY <2>1 DEF Init, Credit!Init, PaidRight, Calls
<1>7. ASSUME NEW l \in Lots PROVE RefundRight(l)
  <2>1. UpRefund(l) \in UpKeysHere
    <3>1. "auto" \in Kinds
      BY DEF Kinds
    <3>2. QED
      BY <3>1, KeysAre DEF UpKeysHere
  <2>2. applied[UpRefund(l)] = 0 /\ sent = {} /\ \A w \in Workers : calls[w] = Credit!Idle
    BY <2>1 DEF Init, Credit!Init, UpKeysHere
  <2>3. RefundedFrom(l) \in Nat
    BY <1>1, GapTypes
  <2>4. QED
    BY <2>2, <2>3 DEF RefundRight, Covers, CallsUp
<1>8. QED
  BY <1>1, <1>2, <1>3, <1>4, <1>5, <1>6, <1>7 DEF BooksInv

\* A draw row stays as long as nothing is reset.
LEMMA OwnStays ==
  ASSUME LotInv, [Next]_vars, ~Resets, NEW u \in Users, NEW a, Own(u, a)
  PROVE  OwnNext(u, a)
<1>1. CASE draws' = draws
  BY <1>1 DEF Own, OwnNext
<1>2. CASE draws' # draws
  <2>1. PICK w \in Workers : ReserveDraw(w) \/ CompleteDraw(w)
    BY <1>2 DEF Resets, Next, Step, vars, rows, BeginDraw, BeginRecover, BeginExpiry, BeginRefunds,
       LookupDraw, ChooseAmount, DrawRefused, RefundRefused, ReserveRefund, CompleteRefund, CreditStep,
       Paid, PayoutFailed, Upstream, Expire, Crash
  <2>2. ReqsOK /\ DrawsOK /\ reqs[w].at \in DrawSteps
    BY <2>1 DEF LotInv, ReserveDraw, CompleteDraw, DrawSteps
  <2>3. PICK v \in Users, b \in BOOLEAN : UserOf(w) = v /\ reqs[w].row = b /\ reqs[w].user = v
    BY <2>2, DrawParts
  <2>4. CASE v = u
    <3>1. CompleteDraw(w) /\ draws' = [draws EXCEPT ![u].status = "success"]
      BY <1>2, <2>1, <2>3, <2>4 DEF Own, ReserveDraw, CompleteDraw
    <3>2. PICK s \in {"processing", "success"}, m \in Nat, t \in [{0} \cup Lots -> Nat] :
              draws[u] = Row(s, m, t)
      BY <2>2 DEF Own, DrawsOK, DrawOK
    <3>3. draws'[u] = Row("success", m, t) /\ m = a
      BY <2>2, <3>1, <3>2 DEF DrawsOK, Row, Own
    <3>4. QED
      BY <3>3 DEF OwnNext, Row, Absent
  <2>5. CASE v # u
    <3>1. draws'[u] = draws[u]
      BY <1>2, <2>1, <2>2, <2>3, <2>5 DEF ReserveDraw, CompleteDraw, DrawsOK
    <3>2. QED
      BY <3>1 DEF Own, OwnNext
  <2>6. QED
    BY <2>4, <2>5
<1>3. QED
  BY <1>1, <1>2

(***************************************************************************)
(* What the payout may do: a call keeps its request to its end, a request   *)
(* is sent for a call, and upstream moves what was sent.                    *)
(***************************************************************************)
CallStays(v) == calls'[v] # Credit!Idle => calls[v] # Credit!Idle /\ calls'[v].req = calls[v].req
SentFor(m) == \E v \in Workers : calls[v] # Credit!Idle /\ m = Credit!Request(calls[v].req)
MovedBy(x) == applied'[x] # applied[x] => \E m \in sent : m.up = x /\ applied'[x] = m.delta

LEMMA RightStays ==
  ASSUME MoneyOK, NEW u \in Users, PaidRight(u),
         \A a : Own(u, a) => OwnNext(u, a),
         \A v \in Workers : Calls(v, u)' => CallStays(v) \/ OwnNext(u, calls'[v].req.delta),
         \A m \in sent' : m \in sent \/ SentFor(m),
         MovedBy(UpDraw(u))
  PROVE  PaidRight(u)'
<1>1. ASSUME applied'[UpDraw(u)] # 0
      PROVE  OwnNext(u, applied'[UpDraw(u)])
  BY <1>1 DEF MovedBy, PaidRight
<1>2. ASSUME NEW m \in sent', m.up = UpDraw(u)
      PROVE  OwnNext(u, m.delta)
  <2>1. CASE m \in sent
    BY <1>2, <2>1 DEF PaidRight
  <2>2. CASE m \notin sent
    <3>1. PICK v \in Workers : calls[v] # Credit!Idle /\ m = Credit!Request(calls[v].req)
      BY <2>2 DEF SentFor
    <3>2. calls[v].req.key \in Keys
      BY <3>1 DEF MoneyOK, CallOK
    <3>3. UpKeyOf[calls[v].req.key] = UpDraw(u) /\ m.delta = calls[v].req.delta
      BY <1>2, <3>1 DEF Credit!Request
    <3>4. Calls(v, u)
      BY <3>1, <3>2, <3>3, KeysAre DEF Calls
    <3>5. QED
      BY <3>3, <3>4 DEF PaidRight
  <2>3. QED
    BY <2>1, <2>2
<1>3. ASSUME NEW v \in Workers, Calls(v, u)'
      PROVE  OwnNext(u, calls'[v].req.delta)
  <2>1. CASE CallStays(v)
    <3>1. Calls(v, u) /\ calls'[v].req = calls[v].req
      BY <1>3, <2>1 DEF CallStays, Calls
    <3>2. Own(u, calls[v].req.delta)
      BY <3>1 DEF PaidRight
    <3>3. QED
      BY <3>1, <3>2
  <2>2. QED
    BY <1>3, <2>1
<1>4. QED
  BY <1>1, <1>2, <1>3 DEF PaidRight, Own, OwnNext, Calls

\* The same for the refunds of a lot.
LEMMA CoverStays ==
  ASSUME MoneyOK, NEW l \in Lots, RefundRight(l),
         \A n : Covers(l, n) => CoversNext(l, n),
         \A v \in Workers :
            CallsUp(v, UpRefund(l))' => CallStays(v) \/ CoversNext(l, calls'[v].req.delta),
         \A m \in sent' : m \in sent \/ SentFor(m),
         MovedBy(UpRefund(l))
  PROVE  RefundRight(l)'
<1>1. CoversNext(l, applied'[UpRefund(l)])
  BY DEF MovedBy, RefundRight
<1>2. ASSUME NEW m \in sent', m.up = UpRefund(l)
      PROVE  CoversNext(l, m.delta)
  <2>1. CASE m \in sent
    BY <1>2, <2>1 DEF RefundRight
  <2>2. CASE m \notin sent
    <3>1. PICK v \in Workers : calls[v] # Credit!Idle /\ m = Credit!Request(calls[v].req)
      BY <2>2 DEF SentFor
    <3>2. UpKeyOf[calls[v].req.key] = UpRefund(l) /\ m.delta = calls[v].req.delta
      BY <1>2, <3>1 DEF Credit!Request
    <3>3. CallsUp(v, UpRefund(l))
      BY <3>1, <3>2 DEF CallsUp
    <3>4. QED
      BY <3>2, <3>3 DEF RefundRight
  <2>3. QED
    BY <2>1, <2>2
<1>3. ASSUME NEW v \in Workers, CallsUp(v, UpRefund(l))'
      PROVE  CoversNext(l, calls'[v].req.delta)
  <2>1. CASE CallStays(v)
    <3>1. CallsUp(v, UpRefund(l)) /\ calls'[v].req = calls[v].req
      BY <1>3, <2>1 DEF CallStays, CallsUp
    <3>2. Covers(l, calls[v].req.delta)
      BY <3>1 DEF RefundRight
    <3>3. QED
      BY <3>1, <3>2
  <2>2. QED
    BY <1>3, <2>1
<1>4. QED
  BY <1>1, <1>2, <1>3 DEF RefundRight, Covers, CoversNext, CallsUp

LEMMA RefundsNext ==
  ASSUME LotInv', NEW l \in Lots
  PROVE  RefundedFrom(l)' \in Nat
<1>1. ASSUME NEW d, RefundOK(d)
      PROVE  RefundedBy(d) \in Nat
  BY <1>1 DEF RefundOK, RefundedBy, Absent, Refund
<1>2. \A k \in Kinds : RefundOK(refunds'[l][k])
  BY DEF LotInv, RefundsOK, RefundOK
<1>3. RefundedBy(refunds'[l]["manual"]) \in Nat /\ RefundedBy(refunds'[l]["auto"]) \in Nat
  BY <1>1, <1>2 DEF Kinds
<1>4. PICK x \in Nat, y \in Nat :
          x = RefundedBy(refunds'[l]["manual"]) /\ y = RefundedBy(refunds'[l]["auto"])
  BY <1>3
<1>5. RefundedFrom(l)' = x + y
  BY <1>4 DEF RefundedFrom, RefundedBy
<1>6. QED
  BY <1>5

\* What the refund rows of a lot took only a reset takes back.
LEMMA RefundsGrow ==
  ASSUME LotInv, LotInv', [Next]_vars, ~Resets, NEW l \in Lots
  PROVE  RefundedFrom(l)' >= RefundedFrom(l)
<1>0. PICK x \in Nat, y \in Nat : x = RefundedFrom(l) /\ y = RefundedFrom(l)'
  BY GapTypes, RefundsNext
<1>1. CASE refunds' = refunds
  <2>1. y = x
    BY <1>0, <1>1 DEF RefundedFrom, RefundedBy
  <2>2. QED
    BY <1>0, <2>1
<1>2. CASE refunds' # refunds
  <2>1. PICK w \in Workers : ReserveRefund(w) \/ CompleteRefund(w)
    BY <1>2 DEF Resets, Next, Step, vars, rows, BeginDraw, BeginRecover, BeginExpiry, BeginRefunds,
       LookupDraw, ChooseAmount, ReserveDraw, DrawRefused, CompleteDraw, RefundRefused, CreditStep,
       Paid, PayoutFailed, Upstream, Expire, Crash
  <2>2. RefundGap(l)' = RefundGap(l)
    BY <2>1, ReservedRefundKeepsGaps, CompletedRefundKeepsGaps
  <2>3. PICK c \in Nat, f \in Nat : lots[l] = [consumed |-> c, refunded |-> f]
    BY DEF LotInv, LotsOK, LotOK
  <2>4. PICK n \in Nat : n = lots'[l].refunded /\ n >= f
    <3>1. CASE lots' = lots
      BY <2>3, <3>1
    <3>2. CASE lots' # lots
      <4>1. lots' = [lots EXCEPT ![LotOf(w)].refunded = @ + Remaining(LotOf(w))]
        BY <2>1, <3>2 DEF ReserveRefund, CompleteRefund
      <4>2. CASE LotOf(w) = l
        <5>1. Remaining(l) \in Nat
          BY <2>3, PoolAssumption DEF Remaining, LotInv, CountersFit
        <5>2. PICK n \in Nat : n = Remaining(l)
          BY <5>1
        <5>3. lots'[l].refunded = f + n
          BY <2>3, <4>1, <4>2, <5>2 DEF LotInv, LotsOK
        <5>4. QED
          BY <5>2, <5>3
      <4>3. CASE LotOf(w) # l
        <5>1. lots'[l] = lots[l]
          BY <4>1, <4>3 DEF LotInv, LotsOK
        <5>2. QED
          BY <2>3, <5>1
      <4>4. QED
        BY <4>2, <4>3
    <3>3. QED
      BY <3>1, <3>2
  <2>5. y - n = x - f
    BY <1>0, <2>2, <2>3, <2>4 DEF RefundGap
  <2>6. y >= x
    BY <2>4, <2>5
  <2>7. QED
    BY <1>0, <2>6
<1>3. QED
  BY <1>1, <1>2

(***************************************************************************)
(* Requests go through their lots.                                          *)
(***************************************************************************)
LEMMA GotoDoes ==
  ASSUME ReqsOK, NEW w \in Workers, NEW p, Goto(w, p), reqs[w].at \in DrawSteps \cup RefundSteps
  PROVE  \E q : /\ reqs' = [reqs EXCEPT ![w] = q] /\ q.at = p
                /\ reqs[w].at \in RefundSteps => q.todo = reqs[w].todo
<1>1. CASE reqs[w].at \in DrawSteps
  <2>1. PICK u \in Users, a \in Nat, b \in BOOLEAN : reqs[w] = DrawReq(reqs[w].at, u, a, b)
    BY <1>1, DrawParts
  <2>2. PICK o : o = reqs[w].at
    OBVIOUS
  <2>3. [reqs[w] EXCEPT !.at = p] = DrawReq(p, u, a, b) /\ DrawReq(p, u, a, b).at = p
    BY <2>1, <2>2 DEF DrawReq
  <2>4. reqs[w].at \notin RefundSteps
    BY <1>1 DEF DrawSteps, RefundSteps
  <2>5. reqs' = [reqs EXCEPT ![w] = DrawReq(p, u, a, b)]
    BY <2>3 DEF Goto
  <2>6. QED
    BY <2>3, <2>4, <2>5
<1>2. CASE reqs[w].at \in RefundSteps
  <2>1. PICK k \in Kinds : \E todo : reqs[w] = Refunding(reqs[w].at, k, todo)
    BY <1>2, RefundParts
  <2>2. PICK todo : reqs[w] = Refunding(reqs[w].at, k, todo)
    BY <2>1
  <2>3. /\ [reqs[w] EXCEPT !.at = p] = Refunding(p, k, todo)
        /\ Refunding(p, k, todo).at = p /\ Refunding(p, k, todo).todo = reqs[w].todo
    <3>1. PICK o : o = reqs[w].at
      OBVIOUS
    <3>2. reqs[w] = Refunding(o, k, todo)
      BY <2>2, <3>1
    <3>3. QED
      BY <3>2 DEF Refunding
  <2>4. reqs' = [reqs EXCEPT ![w] = Refunding(p, k, todo)]
    BY <2>3 DEF Goto
  <2>5. QED
    BY <2>3, <2>4
<1>3. QED
  BY <1>1, <1>2

LEMMA OneRequest ==
  ASSUME BooksInv, NEW w \in Workers, NEW q, reqs' = [reqs EXCEPT ![w] = q], Listed(q)
  PROVE  ListsOK'
<1>1. \A v \in Workers : reqs'[v] = IF v = w THEN q ELSE reqs[v]
  BY DEF BooksInv, LotInv, ReqsOK
<1>2. QED
  BY <1>1 DEF BooksInv, ListsOK, Listed

LEMMA NextLotIsListed ==
  ASSUME BooksInv, NEW w \in Workers, reqs[w].at \in RefundSteps,
         GiveUp(w) \/ NextLot(w) \/ Reply(w)
  PROVE  \E q : reqs' = [reqs EXCEPT ![w] = q] /\ Listed(q)
<1>1. Listed(Free)
  BY DEF Listed, Free, RefundSteps
<1>2. CASE Reply(w)
  BY <1>1, <1>2 DEF Reply
<1>3. CASE NextLot(w) /\ ~Reply(w)
  <2>1. PICK rest, k : /\ rest = reqs[w].todo \ {LotOf(w)} /\ rest # {}
                       /\ reqs' = [reqs EXCEPT ![w] = Refunding("reserve_refund", k, rest)]
    BY <1>3 DEF NextLot
  <2>2. rest \in SUBSET Lots
    BY <2>1 DEF BooksInv, ListsOK, Listed
  <2>3. PICK q : q = Refunding("reserve_refund", k, rest)
    OBVIOUS
  <2>4. q.at = "reserve_refund" /\ q.todo = rest
    BY <2>3 DEF Refunding
  <2>5. Listed(q)
    BY <2>1, <2>2, <2>4 DEF Listed
  <2>6. QED
    BY <2>1, <2>3, <2>5
<1>4. QED
  BY <1>2, <1>3 DEF GiveUp

LEMMA RequestsStay ==
  ASSUME BooksInv, [Next]_vars
  PROVE  ListsOK' /\ (doubtful => doubtful')
<1>0. doubtful => doubtful'
  BY DEF Next, Step, vars, BeginDraw, BeginRecover, BeginExpiry, BeginRefunds,
     LookupDraw, ChooseAmount, ReserveDraw, DrawRefused, CompleteDraw, ResetDraw, ReserveRefund,
     RefundRefused, CompleteRefund, ResetRefund, GiveBack, CreditStep, Paid, PayoutFailed, Upstream,
     Expire, Crash
<1>1. CASE UNCHANGED reqs
  BY <1>0, <1>1 DEF BooksInv, ListsOK, Listed
<1>free. Listed(Free)
  BY DEF Listed, Free, RefundSteps
<1>2. ASSUME NEW w \in Workers, Reply(w)
      PROVE  ListsOK'
  BY <1>0, <1>2, <1>free, OneRequest DEF Reply
<1>3. ASSUME NEW w \in Workers, NEW p, Goto(w, p), reqs[w].at \in DrawSteps \cup RefundSteps,
             reqs[w].at \in RefundSteps \/ p \notin RefundSteps
      PROVE  ListsOK'
  <2>1. PICK q : /\ reqs' = [reqs EXCEPT ![w] = q] /\ q.at = p
                 /\ reqs[w].at \in RefundSteps => q.todo = reqs[w].todo
    BY <1>3, GotoDoes DEF BooksInv, LotInv
  <2>2. Listed(q)
    BY <1>3, <2>1 DEF Listed, BooksInv, ListsOK
  <2>3. QED
    BY <1>0, <2>1, <2>2, OneRequest
<1>4. ASSUME NEW w \in Workers, NEW p \in {"look", "pool", "reserve_draw", "pay_draw"}, NEW u, NEW a,
             reqs' = [reqs EXCEPT ![w] = Drawing(p, u, a)]
      PROVE  ListsOK'
  <2>1. PICK q : q = Drawing(p, u, a)
    OBVIOUS
  <2>2. q.at = p
    BY <2>1 DEF Drawing, DrawReq
  <2>3. Listed(q)
    BY <2>2 DEF Listed, RefundSteps
  <2>4. QED
    BY <1>0, <1>4, <2>1, <2>3, OneRequest
<1>5. ASSUME NEW w \in Workers, NEW k, NEW listed \in SUBSET Lots, BeginRefunds(w, k, listed)
      PROVE  ListsOK'
  <2>1. PICK q : q = Refunding("reserve_refund", k, listed)
    OBVIOUS
  <2>2. q.at = "reserve_refund" /\ q.todo = listed
    BY <2>1 DEF Refunding
  <2>3. Listed(q)
    BY <1>5, <2>2 DEF Listed, BeginRefunds
  <2>4. QED
    BY <1>0, <1>5, <2>1, <2>3, OneRequest DEF BeginRefunds
<1>6. ASSUME NEW w \in Workers, BeginRecover(w) \/ BeginExpiry(w)
      PROVE  ListsOK'
  <2>1. \A owner : {l \in Lots : OwnerOf[l] = owner /\ Remaining(l) > 0 /\ l > expired} \in SUBSET Lots
    OBVIOUS
  <2>2. {l \in Lots : Remaining(l) > 0 /\ l <= expired} \in SUBSET Lots
    OBVIOUS
  <2>3. QED
    BY <1>5, <1>6, <2>1, <2>2 DEF BeginRecover, BeginExpiry
<1>7. ASSUME NEW w \in Workers, NEW u \in Users, BeginDraw(w, u)
      PROVE  ListsOK'
  BY <1>4, <1>7 DEF BeginDraw
<1>8. ASSUME NEW w \in Workers, LookupDraw(w) \/ ChooseAmount(w) \/ ReserveDraw(w)
      PROVE  ListsOK'
  <2>1. reqs[w].at \in DrawSteps
    BY <1>8 DEF LookupDraw, ChooseAmount, ReserveDraw, DrawSteps
  <2>2. \/ Reply(w)
        \/ Goto(w, "pool")
        \/ Goto(w, "pay_draw")
        \/ \E p \in {"reserve_draw", "pay_draw"} : \E u, a : reqs' = [reqs EXCEPT ![w] = Drawing(p, u, a)]
    BY <1>8 DEF LookupDraw, ChooseAmount, ReserveDraw
  <2>3. CASE Goto(w, "pool")
    BY <1>3, <2>1, <2>3 DEF RefundSteps
  <2>4. CASE Goto(w, "pay_draw")
    BY <1>3, <2>1, <2>4 DEF RefundSteps
  <2>5. QED
    BY <1>2, <1>4, <2>2, <2>3, <2>4
<1>9. ASSUME NEW w \in Workers, ReserveRefund(w)
      PROVE  ListsOK'
  BY <1>3, <1>9 DEF ReserveRefund, RefundSteps
<1>10. ASSUME NEW w \in Workers, Paid(w) \/ PayoutFailed(w)
       PROVE  ListsOK'
  <2>1. PICK p : /\ Goto(w, p)
                 /\ \/ reqs[w].at = "pay_draw" /\ p \in {"complete_draw", "reset_draw"}
                    \/ reqs[w].at = "pay_refund"
    BY <1>10 DEF Paid, PayoutFailed
  <2>2. /\ reqs[w].at \in DrawSteps \cup RefundSteps
        /\ reqs[w].at \in RefundSteps \/ p \notin RefundSteps
    BY <2>1 DEF DrawSteps, RefundSteps
  <2>3. QED
    BY <1>3, <2>1, <2>2
<1>11. ASSUME NEW w \in Workers, RefundRefused(w) \/ CompleteRefund(w) \/ ResetRefund(w)
       PROVE  ListsOK'
  <2>1. reqs[w].at \in RefundSteps /\ (GiveUp(w) \/ NextLot(w) \/ Reply(w))
    BY <1>11 DEF RefundRefused, CompleteRefund, ResetRefund, RefundSteps
  <2>2. QED
    BY <1>0, <2>1, NextLotIsListed, OneRequest
<1>12. ASSUME NEW w \in Workers, ResetDraw(w)
       PROVE  ListsOK'
  <2>1. CASE Reply(w)
    BY <1>2, <2>1
  <2>2. CASE DeleteDraw(w)
    <3>1. ASSUME NEW v \in Workers
          PROVE  reqs'[v] = reqs[v] \/ (reqs'[v].at \notin RefundSteps /\ reqs'[v].at \in {"free", reqs[v].at})
      <4>1. CASE reqs'[v] = Free
        BY <4>1 DEF Free, RefundSteps
      <4>2. CASE /\ reqs[v].at \in DrawSteps
                 /\ reqs'[v] = DrawReq(reqs[v].at, UserOf(v), reqs[v].amount, FALSE)
        <5>1. PICK o \in DrawSteps : o = reqs[v].at
          BY <4>2
        <5>2. reqs'[v].at = o
          BY <4>2, <5>1 DEF DrawReq
        <5>3. QED
          BY <5>1, <5>2 DEF DrawSteps, RefundSteps
      <4>3. QED
        BY <2>2, <4>1, <4>2 DEF DeleteDraw
    <3>2. ListsOK'
      BY <3>1 DEF BooksInv, ListsOK, Listed
    <3>3. QED
      BY <3>2
  <2>3. QED
    BY <1>12, <2>1, <2>2 DEF ResetDraw
<1>13. CASE Crash
  BY <1>13 DEF Crash, ListsOK, Listed, Free, RefundSteps
<1>14. ASSUME NEW w \in Workers, DrawRefused(w) \/ CompleteDraw(w)
       PROVE  ListsOK'
  BY <1>2, <1>14 DEF DrawRefused, CompleteDraw
<1>15. CASE UNCHANGED vars \/ Upstream \/ Expire \/ \E w \in Workers : CreditStep(w)
  BY <1>1, <1>15 DEF vars, Upstream, Expire, CreditStep
<1>16. QED
  BY <1>0, <1>6, <1>7, <1>8, <1>9, <1>10, <1>11, <1>12, <1>13, <1>14, <1>15 DEF Next, Step

(***************************************************************************)
(* What each step does to the payout: it leaves it alone, starts or answers *)
(* a call, lets it work, or loses the calls.  A call that starts under the  *)
(* key of a draw asks for the amount of that draw's row.                    *)
(***************************************************************************)
Payments ==
    /\ MoneyOK'
    /\ \A m \in sent' : m \in sent \/ SentFor(m)
    /\ \A x \in UpKeysHere : MovedBy(x)
Asked(v, u) == Calls(v, u)' => CallStays(v) \/ OwnNext(u, calls'[v].req.delta)
AskedBack(v, l) ==
    CallsUp(v, UpRefund(l))' => CallStays(v) \/ CoversNext(l, calls'[v].req.delta)
AllAsked == \A v \in Workers : (\A u \in Users : Asked(v, u)) /\ \A l \in Lots : AskedBack(v, l)

LEMMA CallsAlone ==
  ASSUME MoneyOK, UNCHANGED creditVars
  PROVE  Payments /\ \A v \in Workers : CallStays(v)
BY DEF creditVars, MoneyOK, CallOK, Payments, MovedBy, CallStays

LEMMA CallStarts ==
  ASSUME MoneyOK, NEW w \in Workers, NEW key \in Keys, NEW a, Pay(w, key, a)
  PROVE  /\ Payments
         /\ \A v \in Workers : v # w => CallStays(v)
         /\ calls'[w].req.key = key /\ calls'[w].req.delta = a
<1>1. PICK c : c = [pc |-> "running", req |-> [key |-> key, delta |-> a]]
  OBVIOUS
<1>2. calls' = [calls EXCEPT ![w] = c] /\ UNCHANGED <<applied, sent>>
  BY <1>1 DEF Pay, Credit!Call
<1>3. \A v \in Workers : calls'[v] = IF v = w THEN c ELSE calls[v]
  BY <1>2 DEF MoneyOK
<1>4. CallOK(c) /\ c.req.key = key /\ c.req.delta = a
  <2>1. PICK r : r = [key |-> key, delta |-> a]
    OBVIOUS
  <2>2. c = [pc |-> "running", req |-> r] /\ r.key = key /\ r.delta = a
    BY <1>1, <2>1
  <2>3. QED
    BY <2>2 DEF CallOK
<1>5. calls' = [v \in Workers |-> calls'[v]]
  BY <1>2 DEF MoneyOK
<1>6. MoneyOK'
  BY <1>2, <1>3, <1>4, <1>5 DEF MoneyOK, CallOK
<1>7. QED
  BY <1>2, <1>3, <1>4, <1>6 DEF Payments, MovedBy, CallStays

LEMMA CallEnds ==
  ASSUME MoneyOK, NEW w \in Workers, Credit!Return(w), UNCHANGED <<applied, sent>>
  PROVE  Payments /\ \A v \in Workers : CallStays(v)
<1>1. calls' = [calls EXCEPT ![w] = Credit!Idle]
  BY DEF Credit!Return
<1>2. \A v \in Workers : calls'[v] = IF v = w THEN Credit!Idle ELSE calls[v]
  BY <1>1 DEF MoneyOK
<1>3. calls' = [v \in Workers |-> calls'[v]]
  BY <1>1 DEF MoneyOK
<1>4. MoneyOK'
  BY <1>2, <1>3 DEF MoneyOK, CallOK
<1>5. QED
  BY <1>2, <1>4 DEF Payments, MovedBy, CallStays

LEMMA CallsLost ==
  ASSUME MoneyOK, Crash
  PROVE  Payments /\ \A v \in Workers : CallStays(v)
BY DEF Crash, MoneyOK, CallOK, Payments, MovedBy, CallStays

LEMMA CallWorks ==
  ASSUME MoneyOK, NEW w \in Workers, CreditStep(w)
  PROVE  Payments /\ \A v \in Workers : CallStays(v)
<1>1. calls[w].pc = "running"
  BY DEF CreditStep, Credit!WorkerStep, Credit!Send, Credit!Succeed, Credit!Skip, Credit!Fail, Credit!End
<1>2. calls[w] # Credit!Idle
  BY <1>1 DEF Credit!Idle
<1>3. applied' = applied
  BY DEF CreditStep, Credit!WorkerStep, Credit!Send, Credit!Succeed, Credit!Skip, Credit!Fail
<1>4. CASE Credit!Send(w)
  <2>1. calls' = calls
    BY <1>4 DEF Credit!Send
  <2>2. \A m \in sent' : m \in sent \/ SentFor(m)
    BY <1>2, <1>4 DEF Credit!Send, SentFor
  <2>3. QED
    BY <1>3, <2>1, <2>2 DEF Payments, MovedBy, CallStays, MoneyOK, CallOK
<1>5. CASE ~Credit!Send(w)
  <2>1. PICK pc : calls' = [calls EXCEPT ![w] = [pc |-> pc, req |-> calls[w].req]]
    BY <1>5 DEF CreditStep, Credit!WorkerStep, Credit!Succeed, Credit!Skip, Credit!Fail, Credit!End
  <2>2. sent' = sent
    BY <1>5 DEF CreditStep, Credit!WorkerStep, Credit!Succeed, Credit!Skip, Credit!Fail
  <2>3. PICK c : c = [pc |-> pc, req |-> calls[w].req]
    OBVIOUS
  <2>4. \A v \in Workers : calls'[v] = IF v = w THEN c ELSE calls[v]
    BY <2>1, <2>3 DEF MoneyOK
  <2>5. CallOK(c) /\ c.req = calls[w].req
    <3>1. PICK p : \E r : calls[w] = [pc |-> p, req |-> r] /\ r.key \in Keys
      BY <1>2 DEF MoneyOK, CallOK
    <3>2. PICK r : calls[w] = [pc |-> p, req |-> r] /\ r.key \in Keys
      BY <3>1
    <3>3. c = [pc |-> pc, req |-> r] /\ c.req = r /\ calls[w].req = r
      BY <2>3, <3>2
    <3>4. QED
      BY <3>2, <3>3 DEF CallOK
  <2>6. calls' = [v \in Workers |-> calls'[v]]
    BY <2>1 DEF MoneyOK
  <2>7. MoneyOK'
    BY <1>3, <2>4, <2>5, <2>6 DEF MoneyOK, CallOK
  <2>8. QED
    BY <1>2, <1>3, <2>2, <2>4, <2>5, <2>7 DEF Payments, MovedBy, CallStays
<1>6. QED
  BY <1>4, <1>5

LEMMA MoneyMoves ==
  ASSUME MoneyOK, Upstream
  PROVE  Payments /\ \A v \in Workers : CallStays(v)
<1>1. PICK m \in sent : Credit!Apply(m) \/ Credit!Lose(m)
  BY DEF Upstream, Credit!Upstream
<1>2. calls' = calls /\ sent' \subseteq sent
  BY <1>1 DEF Credit!Apply, Credit!Lose
<1>3. applied' = applied \/ applied' = [applied EXCEPT ![m.up] = m.delta]
  BY <1>1 DEF Credit!Apply, Credit!Lose
<1>4. MoneyOK'
  BY <1>2, <1>3 DEF MoneyOK, CallOK
<1>5. ASSUME NEW x \in UpKeysHere PROVE MovedBy(x)
  BY <1>1, <1>3 DEF MovedBy, MoneyOK, UpKeysHere
<1>6. QED
  BY <1>2, <1>4, <1>5 DEF Payments, CallStays

(***************************************************************************)
(* The lot a refund works on is one of the pool's.                          *)
(***************************************************************************)
LEMMA LotIsListed ==
  ASSUME ListsOK, NEW w \in Workers, reqs[w].at \in RefundSteps
  PROVE  LotOf(w) \in Lots
<1>1. PICK todo : todo = reqs[w].todo
  OBVIOUS
<1>2. todo # {} /\ todo \in SUBSET Lots /\ todo \in SUBSET Nat
  BY <1>1, PoolAssumption DEF ListsOK, Listed
<1>3. PICK x \in todo : \A y \in todo : x <= y
  BY <1>2, P!Least
<1>4. Min(todo) \in todo
  BY <1>3 DEF Min
<1>5. QED
  BY <1>1, <1>2, <1>4 DEF LotOf

(***************************************************************************)
(* Who pays a draw has its row before him, with the amount it pays.         *)
(***************************************************************************)
LEMMA DrawIsPaid ==
  ASSUME LotInv, MoneyOK, NEW w \in Workers, LookupDraw(w) \/ ReserveDraw(w)
  PROVE  Payments /\ AllAsked
<1>1. ReqsOK /\ DrawsOK /\ reqs[w].at \in DrawSteps
  BY DEF LotInv, LookupDraw, ReserveDraw, DrawSteps
<1>2. PICK x \in Users : UserOf(w) = x /\ reqs[w].user = x
  BY <1>1, DrawParts
<1>3. CASE UNCHANGED creditVars
  BY <1>3, CallsAlone DEF AllAsked, Asked, AskedBack
<1>4. CASE ~UNCHANGED creditVars
  <2>1. PICK a : Pay(w, DrawKey(x), a) /\ OwnNext(x, a)
    <3>1. CASE LookupDraw(w)
      <4>1. draws[x].status = "processing" /\ Pay(w, DrawKey(x), draws[x].amount) /\ draws' = draws
        BY <1>2, <1>4, <3>1 DEF LookupDraw, rows
      <4>2. draws[x] # Absent
        BY <4>1 DEF Absent
      <4>3. QED
        BY <4>1, <4>2 DEF OwnNext
    <3>2. CASE ReserveDraw(w)
      <4>1. PICK a : a = reqs[w].amount
        OBVIOUS
      <4>2. PICK takes : draws' = [draws EXCEPT ![x] = Row("processing", a, takes)]
        BY <1>2, <3>2, <4>1 DEF ReserveDraw
      <4>3. draws'[x] = Row("processing", a, takes)
        BY <1>1, <4>2 DEF DrawsOK
      <4>4. OwnNext(x, a)
        BY <4>3 DEF OwnNext, Row, Absent
      <4>5. Pay(w, DrawKey(x), a)
        BY <1>2, <3>2, <4>1 DEF ReserveDraw
      <4>6. QED
        BY <4>4, <4>5
    <3>3. QED
      BY <3>1, <3>2
  <2>2. DrawKey(x) \in Keys
    BY KeysAre
  <2>3. /\ Payments
        /\ \A v \in Workers : v # w => CallStays(v)
        /\ calls'[w].req.key = DrawKey(x) /\ calls'[w].req.delta = a
    BY <2>1, <2>2, CallStarts
  <2>4. ASSUME NEW u \in Users PROVE Asked(w, u)
    <3>1. DrawKey(x) = DrawKey(u) => x = u
      BY DEF DrawKey
    <3>2. QED
      BY <2>1, <2>3, <3>1 DEF Asked, Calls
  <2>5. ASSUME NEW l \in Lots PROVE AskedBack(w, l)
    <3>1. UpKeyOf[calls'[w].req.key] = UpDraw(x)
      BY <2>3, KeysAre
    <3>2. UpDraw(x) # UpRefund(l)
      BY DEF UpDraw, UpRefund
    <3>3. QED
      BY <3>1, <3>2 DEF AskedBack, CallsUp
  <2>6. QED
    BY <2>3, <2>4, <2>5 DEF AllAsked, Asked, AskedBack
<1>5. QED
  BY <1>3, <1>4

LEMMA RefundIsPaid ==
  ASSUME LotInv, ListsOK, MoneyOK, NEW w \in Workers, ReserveRefund(w)
  PROVE  Payments /\ AllAsked
<1>1. ReqsOK /\ reqs[w].at \in RefundSteps
  BY DEF LotInv, ReserveRefund, RefundSteps
<1>2. PICK k \in Kinds : reqs[w].kind = k
  BY <1>1, RefundParts
<1>3. LotOf(w) \in Lots
  BY <1>1, LotIsListed
<1>4. PICK key \in Keys : key = RefundKey(LotOf(w), k)
  BY <1>3, KeysAre
<1>5. PICK a : Pay(w, key, a) /\ CoversNext(LotOf(w), a)
  <2>1. PICK j \in Lots : j = LotOf(w)
    BY <1>3
  <2>2. PICK x \in Nat, y \in Nat : x = RefundedFrom(j) /\ y = RefundedBy(refunds[j][k]) /\ y <= x
    BY RefundsAre DEF LotInv
  <2>3. CASE refunds[j][k].status = "success"
    <3>1. PICK d : d = refunds[j][k] /\ RefundOK(d)
      BY DEF LotInv, RefundsOK
    <3>2. d.amount \in Nat /\ y = d.amount
      BY <2>2, <2>3, <3>1 DEF RefundOK, Absent, Refund, RefundedBy
    <3>3. Pay(w, key, d.amount) /\ refunds' = refunds
      BY <1>2, <1>4, <2>1, <2>3, <3>1 DEF ReserveRefund, RefundOf
    <3>4. RefundedFrom(j)' = x
      BY <2>2, <3>3 DEF RefundedFrom, RefundedBy
    <3>5. CoversNext(j, d.amount)
      BY <2>2, <3>2, <3>4 DEF CoversNext
    <3>6. QED
      BY <2>1, <3>3, <3>5
  <2>4. CASE refunds[j][k].status # "success"
    <3>1. PICK n \in Nat : n = Remaining(j)
      <4>1. PICK c \in Nat, f \in Nat : lots[j] = [consumed |-> c, refunded |-> f]
        BY DEF LotInv, LotsOK, LotOK
      <4>2. QED
        BY <4>1, PoolAssumption DEF Remaining, LotInv, CountersFit
    <3>2. Pay(w, key, n) /\ refunds' = [refunds EXCEPT ![j][k] = Refund("processing", n)]
      BY <1>2, <1>4, <2>1, <2>4, <3>1 DEF ReserveRefund, RefundOf
    <3>3. "processing" \in Marks /\ RowSet(j, k, "processing", n)
      BY <3>2 DEF Marks, RowSet
    <3>4. RefundedFrom(j)' = x - y + n
      BY <2>2, <3>3, RefundChanges DEF LotInv
    <3>5. CoversNext(j, n)
      BY <2>2, <3>4 DEF CoversNext
    <3>6. QED
      BY <2>1, <3>2, <3>5
  <2>5. QED
    BY <2>3, <2>4
<1>6. /\ Payments
      /\ \A v \in Workers : v # w => CallStays(v)
      /\ calls'[w].req.key = key /\ calls'[w].req.delta = a
  BY <1>5, CallStarts
<1>7. \A u \in Users : ~Calls(w, u)'
  BY <1>4, <1>6, KeysAre DEF Calls
<1>8. ASSUME NEW l \in Lots PROVE AskedBack(w, l)
  <2>1. UpKeyOf[calls'[w].req.key] = UpRefund(LotOf(w))
    BY <1>3, <1>4, <1>6, KeysAre
  <2>2. UpRefund(LotOf(w)) = UpRefund(l) => LotOf(w) = l
    BY DEF UpRefund
  <2>3. QED
    BY <1>5, <1>6, <2>1, <2>2 DEF AskedBack, CallsUp
<1>9. QED
  BY <1>6, <1>7, <1>8 DEF AllAsked, Asked, AskedBack

LEMMA PaymentsStay ==
  ASSUME BooksInv, [Next]_vars
  PROVE  Payments /\ AllAsked
<1>1. LotInv /\ ListsOK /\ MoneyOK
  BY DEF BooksInv
<1>2. ASSUME Payments /\ \A v \in Workers : CallStays(v)
      PROVE  Payments /\ AllAsked
  BY <1>2 DEF AllAsked, Asked, AskedBack
<1>3. CASE UNCHANGED creditVars
  BY <1>1, <1>2, <1>3, CallsAlone
<1>4. ASSUME NEW w \in Workers, LookupDraw(w) \/ ReserveDraw(w)
      PROVE  Payments /\ AllAsked
  BY <1>1, <1>4, DrawIsPaid
<1>5. ASSUME NEW w \in Workers, ReserveRefund(w)
      PROVE  Payments /\ AllAsked
  BY <1>1, <1>5, RefundIsPaid
<1>6. ASSUME NEW w \in Workers, Paid(w) \/ PayoutFailed(w)
      PROVE  Payments /\ AllAsked
  <2>1. Credit!Return(w) /\ UNCHANGED <<applied, sent>>
    BY <1>6 DEF Paid, PayoutFailed
  <2>2. QED
    BY <1>1, <1>2, <2>1, CallEnds
<1>7. ASSUME NEW w \in Workers, CreditStep(w)
      PROVE  Payments /\ AllAsked
  BY <1>1, <1>2, <1>7, CallWorks
<1>8. CASE Upstream
  BY <1>1, <1>2, <1>8, MoneyMoves
<1>9. CASE Crash
  BY <1>1, <1>2, <1>9, CallsLost
<1>10. QED
  BY <1>3, <1>4, <1>5, <1>6, <1>7, <1>8, <1>9 DEF Next, Step, vars, BeginDraw, BeginRecover,
     BeginExpiry, BeginRefunds, ChooseAmount, DrawRefused, CompleteDraw, ResetDraw,
     RefundRefused, CompleteRefund, ResetRefund, Expire

(***************************************************************************)
(* A call begins with a step of payment and is over before the next step.   *)
(***************************************************************************)
LEMMA CallsStayPlaced ==
  ASSUME BooksInv, [Next]_vars
  PROVE  CallsPlaced'
<1>0. ReqsOK /\ MoneyOK /\ CallsPlaced
  BY DEF BooksInv, LotInv
<1>1. ASSUME NEW w \in Workers, NEW q, reqs' = [reqs EXCEPT ![w] = q],
             \/ calls' = calls /\ reqs[w].at \notin PaySteps
             \/ q.at \in PaySteps /\ \A v \in Workers \ {w} : calls'[v] = calls[v]
             \/ calls' = [calls EXCEPT ![w] = Credit!Idle]
      PROVE  CallsPlaced'
  <2>1. ASSUME NEW v \in Workers, calls'[v] # Credit!Idle
        PROVE  reqs'[v].at \in PaySteps
    <3>1. CASE v = w
      <4>1. reqs'[v] = q
        BY <1>0, <1>1, <3>1 DEF ReqsOK
      <4>2. calls' # [calls EXCEPT ![w] = Credit!Idle]
        BY <1>0, <2>1, <3>1 DEF MoneyOK
      <4>3. QED
        BY <1>0, <1>1, <2>1, <3>1, <4>1, <4>2 DEF CallsPlaced
    <3>2. CASE v # w
      <4>1. reqs'[v] = reqs[v] /\ calls'[v] = calls[v]
        BY <1>0, <1>1, <3>2 DEF ReqsOK, MoneyOK
      <4>2. QED
        BY <1>0, <2>1, <4>1 DEF CallsPlaced
    <3>3. QED
      BY <3>1, <3>2
  <2>2. QED
    BY <2>1 DEF CallsPlaced
<1>2. ASSUME reqs' = reqs, \A v \in Workers : CallStays(v)
      PROVE  CallsPlaced'
  BY <1>0, <1>2 DEF CallsPlaced, CallStays
<1>3. ASSUME NEW w \in Workers, NEW p, Goto(w, p), reqs[w].at \in DrawSteps \cup RefundSteps
      PROVE  \E q : reqs' = [reqs EXCEPT ![w] = q] /\ q.at = p
  BY <1>0, <1>3, GotoDoes
<1>4. ASSUME NEW w \in Workers, NEW key, NEW a, Pay(w, key, a)
      PROVE  \A v \in Workers \ {w} : calls'[v] = calls[v]
  BY <1>0, <1>4 DEF Pay, Credit!Call, MoneyOK
<1>5. \A at, u, a, b : DrawReq(at, u, a, b).at = at
  BY DEF DrawReq
<1>6. ASSUME NEW w \in Workers, NEW u \in Users, BeginDraw(w, u) PROVE CallsPlaced'
  <2>1. reqs[w].at \notin PaySteps /\ calls' = calls
    BY <1>6 DEF BeginDraw, Free, PaySteps, creditVars
  <2>2. QED
    BY <1>1, <1>6, <2>1 DEF BeginDraw
<1>7. ASSUME NEW w \in Workers, BeginRecover(w) \/ BeginExpiry(w) PROVE CallsPlaced'
  <2>1. PICK k, todo : BeginRefunds(w, k, todo)
    BY <1>7 DEF BeginRecover, BeginExpiry
  <2>2. reqs[w].at \notin PaySteps /\ calls' = calls
    BY <2>1 DEF BeginRefunds, Free, PaySteps, creditVars
  <2>3. QED
    BY <1>1, <2>1, <2>2 DEF BeginRefunds
<1>8. ASSUME NEW w \in Workers, LookupDraw(w) PROVE CallsPlaced'
  <2>1. reqs[w].at = "look" /\ reqs[w].at \notin PaySteps /\ reqs[w].at \in DrawSteps
    BY <1>8 DEF LookupDraw, PaySteps, DrawSteps
  <2>2. CASE UNCHANGED creditVars /\ (Goto(w, "pool") \/ Reply(w))
    BY <1>1, <1>3, <2>1, <2>2 DEF creditVars, Reply
  <2>3. CASE \E a : /\ reqs' = [reqs EXCEPT ![w] = Drawing("pay_draw", UserOf(w), a)]
                    /\ Pay(w, DrawKey(UserOf(w)), a)
    <3>1. PICK a : /\ reqs' = [reqs EXCEPT ![w] = DrawReq("pay_draw", UserOf(w), a, TRUE)]
                   /\ Pay(w, DrawKey(UserOf(w)), a)
      BY <2>3 DEF Drawing
    <3>2. DrawReq("pay_draw", UserOf(w), a, TRUE).at \in PaySteps
      BY <1>5 DEF PaySteps
    <3>3. QED
      BY <1>1, <1>4, <3>1, <3>2
  <2>4. QED
    BY <1>8, <2>2, <2>3 DEF LookupDraw
<1>9. ASSUME NEW w \in Workers, ReserveDraw(w) \/ ReserveRefund(w) PROVE CallsPlaced'
  <2>1. ASSUME ReserveDraw(w)
        PROVE  \E q : reqs' = [reqs EXCEPT ![w] = q] /\ q.at = "pay_draw"
    <3>1. PICK q : q = DrawReq("pay_draw", UserOf(w), reqs[w].amount, TRUE)
      OBVIOUS
    <3>2. reqs' = [reqs EXCEPT ![w] = q]
      BY <2>1, <3>1 DEF ReserveDraw, Drawing
    <3>3. q.at = "pay_draw"
      BY <3>1 DEF DrawReq
    <3>4. QED
      BY <3>2, <3>3
  <2>2. ASSUME ReserveRefund(w)
        PROVE  \E q : reqs' = [reqs EXCEPT ![w] = q] /\ q.at = "pay_refund"
    BY <1>3, <2>2 DEF ReserveRefund, RefundSteps
  <2>3. PICK key, a : Pay(w, key, a)
    BY <1>9 DEF ReserveDraw, ReserveRefund
  <2>4. PICK q : reqs' = [reqs EXCEPT ![w] = q] /\ q.at \in PaySteps
    BY <1>9, <2>1, <2>2 DEF PaySteps
  <2>5. QED
    BY <1>1, <1>4, <2>3, <2>4
<1>10. ASSUME NEW w \in Workers, ChooseAmount(w) \/ DrawRefused(w) \/ CompleteDraw(w)
       PROVE  CallsPlaced'
  <2>1. reqs[w].at \notin PaySteps /\ calls' = calls /\ \E q : reqs' = [reqs EXCEPT ![w] = q]
    BY <1>10 DEF ChooseAmount, DrawRefused, CompleteDraw, Reply, PaySteps, creditVars
  <2>2. QED
    BY <1>1, <2>1
<1>11. ASSUME NEW w \in Workers, RefundRefused(w) \/ CompleteRefund(w) \/ ResetRefund(w)
       PROVE  CallsPlaced'
  <2>1. /\ reqs[w].at \notin PaySteps /\ calls' = calls /\ reqs[w].at \in RefundSteps
        /\ GiveUp(w) \/ NextLot(w) \/ Reply(w)
    BY <1>11 DEF RefundRefused, CompleteRefund, ResetRefund, RefundSteps, PaySteps, creditVars
  <2>2. PICK q : reqs' = [reqs EXCEPT ![w] = q]
    BY <1>0, <2>1, GivesUpOrGoesOn
  <2>3. QED
    BY <1>1, <2>1, <2>2
<1>12. ASSUME NEW w \in Workers, ResetDraw(w) PROVE CallsPlaced'
  <2>0. reqs[w].at \notin PaySteps /\ calls' = calls
    BY <1>12 DEF ResetDraw, PaySteps, creditVars
  <2>1. CASE Reply(w)
    BY <1>1, <2>0, <2>1 DEF Reply
  <2>2. CASE DeleteDraw(w)
    <3>1. ASSUME NEW v \in Workers, v # w, reqs[v].at \in PaySteps
          PROVE  reqs'[v].at \in PaySteps
      <4>1. PICK o \in PaySteps : o = reqs[v].at
        BY <3>1
      <4>2. CASE reqs'[v] = reqs[v]
        BY <3>1, <4>2
      <4>3. CASE reqs'[v] = DrawReq(o, UserOf(v), reqs[v].amount, FALSE)
        <5>1. reqs'[v].at = o
          BY <4>3 DEF DrawReq
        <5>2. QED
          BY <5>1
      <4>4. QED
        BY <2>2, <3>1, <4>1, <4>2, <4>3 DEF DeleteDraw
    <3>2. QED
      BY <1>0, <2>0, <3>1 DEF CallsPlaced
  <2>3. QED
    BY <1>12, <2>1, <2>2 DEF ResetDraw
<1>13. ASSUME NEW w \in Workers, Paid(w) \/ PayoutFailed(w) PROVE CallsPlaced'
  <2>1. PICK p : Goto(w, p) /\ reqs[w].at \in DrawSteps \cup RefundSteps
    BY <1>13 DEF Paid, PayoutFailed, DrawSteps, RefundSteps
  <2>2. PICK q : reqs' = [reqs EXCEPT ![w] = q]
    BY <1>3, <2>1
  <2>3. calls' = [calls EXCEPT ![w] = Credit!Idle]
    BY <1>13 DEF Paid, PayoutFailed, Credit!Return
  <2>4. QED
    BY <1>1, <2>2, <2>3
<1>14. ASSUME NEW w \in Workers, CreditStep(w) PROVE CallsPlaced'
  BY <1>0, <1>2, <1>14, CallWorks DEF CreditStep
<1>15. CASE Upstream
  BY <1>0, <1>2, <1>15, MoneyMoves DEF Upstream
<1>16. CASE Crash
  BY <1>16 DEF Crash, CallsPlaced
<1>17. CASE Expire \/ UNCHANGED vars
  BY <1>0, <1>17 DEF Expire, vars, creditVars, CallsPlaced
<1>18. QED
  BY <1>6, <1>7, <1>8, <1>9, <1>10, <1>11, <1>12, <1>13, <1>14, <1>15, <1>16, <1>17 DEF Next, Step

(***************************************************************************)
(* A reset without doubt: the row is in progress, and nothing is or can be  *)
(* paid under its key.  The lots show what the remaining rows took.         *)
(***************************************************************************)
Balanced ==
    /\ NoGaps
    /\ \A u \in Users : PaidRight(u)
    /\ \A l \in Lots : RefundRight(l)

LEMMA NothingGivenBack ==
  ASSUME Balanced, UNCHANGED <<creditVars, rows>>
  PROVE  Balanced'
BY DEF Balanced, NoGaps, DrawGap, RefundGap, TakenFrom, TakenBy, RefundedFrom, RefundedBy, PaidRight,
   Own, Calls, RefundRight, Covers, CallsUp, creditVars, rows

LEMMA DrawGivenBack ==
  ASSUME BooksInv, Balanced, NEW w \in Workers, ResetDraw(w), ~doubtful'
  PROVE  Balanced'
<1>0. /\ ReqsOK /\ DrawsOK /\ LotInv /\ CallsPlaced
      /\ reqs[w].at = "reset_draw" /\ reqs[w].at \in DrawSteps
      /\ refunds' = refunds /\ UNCHANGED creditVars
  BY DEF BooksInv, LotInv, ResetDraw, DrawSteps
<1>1. PICK u \in Users, a \in Nat, b \in BOOLEAN :
         /\ reqs[w] = DrawReq(reqs[w].at, u, a, b)
         /\ reqs[w].user = u /\ UserOf(w) = u /\ reqs[w].amount = a /\ reqs[w].row = b
  BY <1>0, DrawParts
<1>2. CASE UNCHANGED <<lots, draws>>
  BY <1>0, <1>2, NothingGivenBack DEF rows
<1>3. CASE ~UNCHANGED <<lots, draws>>
  <2>1. /\ b /\ lots' = Released(draws[u].takes)
        /\ draws[u].status = "processing" /\ draws' = [draws EXCEPT ![u] = Absent]
        /\ Unpaid(w, DrawKey(u))
    BY <1>1, <1>3 DEF ResetDraw, DeleteDraw, GiveBack
  <2>2. draws[u] # Absent
    BY <2>1 DEF Absent
  <2>3. PICK s \in {"processing", "success"}, m \in Nat, t \in [{0} \cup Lots -> Nat] :
            draws[u] = Row(s, m, t)
    BY <1>0, <2>2 DEF DrawsOK, DrawOK
  <2>4. ASSUME NEW l \in Lots
        PROVE  DrawGap(l)' = 0 /\ RefundGap(l)' = 0
    <3>1. draws[u].takes = t /\ TakenBy(draws[u], l) = t[l] /\ t[l] \in Nat
      BY <2>2, <2>3 DEF Row, TakenBy
    <3>2. PICK c \in Nat, f \in Nat : lots[l] = [consumed |-> c, refunded |-> f]
      BY <1>0 DEF LotInv, LotsOK, LotOK
    <3>3. PICK x \in Nat : x = TakenFrom(l) /\ t[l] <= x
      BY <1>0, <3>1, TakesAre
    <3>4. c = x
      BY <3>2, <3>3 DEF Balanced, NoGaps, DrawGap
    <3>5. lots'[l] = [consumed |-> c - t[l], refunded |-> f]
      BY <2>1, <3>1, <3>2, <3>3, <3>4 DEF Released, Positive
    <3>6. TakenFrom(l)' = x - t[l] + 0
      <4>1. DrawOK(Absent) /\ TakenBy(Absent, l) = 0
        BY DEF DrawOK, TakenBy
      <4>2. QED
        BY <1>0, <2>1, <3>1, <3>3, <4>1, TakenChanges
    <3>7. DrawGap(l)' = 0
      BY <3>1, <3>3, <3>4, <3>5, <3>6 DEF DrawGap
    <3>8. RefundGap(l)' = RefundGap(l)
      BY <1>0, <3>2, <3>5 DEF RefundGap, RefundedFrom, RefundedBy
    <3>9. QED
      BY <3>7, <3>8 DEF Balanced, NoGaps
  <2>5. ASSUME NEW v \in Users, v # u
        PROVE  PaidRight(v)'
    <3>1. draws'[v] = draws[v]
      BY <1>0, <2>1, <2>5 DEF DrawsOK
    <3>2. QED
      BY <1>0, <3>1 DEF Balanced, PaidRight, Own, Calls, creditVars
  <2>6. PaidRight(u)'
    <3>1. UpKeyOf[DrawKey(u)] = UpDraw(u)
      BY KeysAre
    <3>2. applied[UpDraw(u)] = 0 /\ \A n \in sent : n.up # UpDraw(u)
      BY <2>1, <3>1 DEF Unpaid
    <3>3. ASSUME NEW v \in Workers PROVE ~Calls(v, u)
      <4>1. CASE v = w
        BY <1>0, <4>1 DEF CallsPlaced, PaySteps, Calls
      <4>2. CASE v # w
        BY <2>1, <4>2 DEF Unpaid, Calls
      <4>3. QED
        BY <4>1, <4>2
    <3>4. QED
      BY <1>0, <3>2, <3>3 DEF PaidRight, Calls, creditVars
  <2>7. ASSUME NEW l \in Lots PROVE RefundRight(l)'
    <3>1. RefundedFrom(l)' = RefundedFrom(l)
      BY <1>0 DEF RefundedFrom, RefundedBy
    <3>2. QED
      BY <1>0, <3>1 DEF Balanced, RefundRight, Covers, CallsUp, creditVars
  <2>8. QED
    BY <2>4, <2>5, <2>6, <2>7 DEF Balanced, NoGaps
<1>4. QED
  BY <1>2, <1>3

LEMMA RefundGivenBack ==
  ASSUME BooksInv, Balanced, NEW w \in Workers, ResetRefund(w), ~doubtful'
  PROVE  Balanced'
<1>0. /\ RefundsOK /\ LotInv /\ CallsPlaced
      /\ reqs[w].at = "reset_refund" /\ reqs[w].at \in RefundSteps
      /\ draws' = draws /\ UNCHANGED creditVars
  BY DEF BooksInv, LotInv, ResetRefund, RefundSteps
<1>1. PICK k \in Kinds : \E j :
          /\ reqs[w].kind = k /\ LotOf(w) = j /\ RefundOf(w) = refunds[j][k]
          /\ RowThere(j, k)
  BY <1>0, RefundInHand
<1>2. PICK j \in Lots : /\ reqs[w].kind = k /\ LotOf(w) = j /\ RefundOf(w) = refunds[j][k]
                        /\ RowThere(j, k)
  BY <1>0, <1>1, LotIsListed DEF BooksInv
<1>3. CASE UNCHANGED <<lots, refunds>>
  BY <1>0, <1>3, NothingGivenBack DEF rows
<1>4. CASE ~UNCHANGED <<lots, refunds>>
  <2>1. /\ lots' = [lots EXCEPT ![j].refunded = Positive(@ - refunds[j][k].amount)]
        /\ refunds' = [refunds EXCEPT ![j][k].status = "failed"]
        /\ refunds[j][k].status = "processing"
        /\ Unpaid(w, RefundKey(j, k))
    BY <1>2, <1>4 DEF ResetRefund, GiveBack
  <2>2. PICK s \in Marks, a \in Nat : refunds[j][k] = Refund(s, a)
    BY <1>2 DEF RowThere
  <2>3. /\ refunds[j][k].amount = a /\ RefundedBy(refunds[j][k]) = a
        /\ [refunds[j][k] EXCEPT !.status = "failed"] = Refund("failed", a)
    BY <2>1, <2>2 DEF Refund, RefundedBy
  <2>4. PICK c \in Nat, f \in Nat : lots[j] = [consumed |-> c, refunded |-> f]
    BY <1>0 DEF LotInv, LotsOK, LotOK
  <2>5. PICK x \in Nat : x = RefundedFrom(j) /\ a <= x
    BY <1>0, <2>3, RefundsAre
  <2>6. f = x
    BY <2>4, <2>5 DEF Balanced, NoGaps, RefundGap
  <2>7. PICK n \in Nat : n = f - a /\ n = Positive(f - a)
    BY <2>5, <2>6 DEF Positive
  <2>8. "failed" \in Marks /\ RowSet(j, k, "failed", a) /\ RefundedSet(j, n)
    <3>1. refunds' = [refunds EXCEPT ![j][k] = Refund("failed", a)]
      BY <2>1, <2>3
    <3>2. lots' = [lots EXCEPT ![j].refunded = n]
      <4>1. lots' = [lots EXCEPT ![j].refunded = Positive(lots[j].refunded - a)]
        BY <2>1, <2>3
      <4>2. lots[j].refunded = f
        BY <2>4
      <4>3. QED
        BY <2>7, <4>1, <4>2
    <3>3. QED
      BY <3>1, <3>2 DEF Marks, RowSet, RefundedSet
  <2>9. RefundedBy(Refund("failed", a)) = 0
    BY DEF RefundedBy, Refund
  <2>10. DrawGap(j)' = 0 /\ RefundGap(j)' = 0
    <3>1. DrawGap(j)' = DrawGap(j) /\ RefundGap(j)' = x - a + 0 - n
      BY <1>0, <2>3, <2>5, <2>7, <2>8, <2>9, GapsHere
    <3>2. QED
      BY <2>5, <2>6, <2>7, <3>1 DEF Balanced, NoGaps
  <2>11. ASSUME NEW l \in Lots, l # j PROVE DrawGap(l)' = 0 /\ RefundGap(l)' = 0
    BY <1>0, <2>8, <2>11, GapsElsewhere DEF Balanced, NoGaps
  <2>12. ASSUME NEW u \in Users PROVE PaidRight(u)'
    BY <1>0 DEF Balanced, PaidRight, Own, Calls, creditVars
  <2>13. ASSUME NEW l \in Lots, l # j PROVE RefundRight(l)'
    <3>1. RefundedFrom(l)' = RefundedFrom(l)
      BY <1>0, <2>8, <2>13, RefundChanges
    <3>2. QED
      BY <1>0, <3>1 DEF Balanced, RefundRight, Covers, CallsUp, creditVars
  <2>14. RefundRight(j)'
    <3>1. UpKeyOf[RefundKey(j, k)] = UpRefund(j)
      BY KeysAre
    <3>2. applied[UpRefund(j)] = 0 /\ \A z \in sent : z.up # UpRefund(j)
      BY <2>1, <3>1 DEF Unpaid
    <3>3. ASSUME NEW v \in Workers PROVE ~CallsUp(v, UpRefund(j))
      <4>1. CASE v = w
        BY <1>0, <4>1 DEF CallsPlaced, PaySteps, CallsUp
      <4>2. CASE v # w
        BY <2>1, <3>1, <4>2 DEF Unpaid, CallsUp
      <4>3. QED
        BY <4>1, <4>2
    <3>4. RefundedFrom(j)' = x - a + 0
      BY <1>0, <2>3, <2>5, <2>8, <2>9, RefundChanges
    <3>5. QED
      BY <1>0, <2>5, <3>2, <3>3, <3>4 DEF RefundRight, Covers, CallsUp, creditVars
  <2>15. QED
    BY <2>10, <2>11, <2>12, <2>13, <2>14 DEF Balanced, NoGaps
<1>5. QED
  BY <1>3, <1>4

LEMMA BooksStep ==
  ASSUME BooksInv, [Next]_vars
  PROVE  BooksInv'
<1>1. LotInv /\ LotInv'
  BY LotStep DEF BooksInv
<1>2. ListsOK' /\ (doubtful => doubtful')
  BY RequestsStay
<1>3. Payments /\ AllAsked /\ MoneyOK'
  BY PaymentsStay DEF Payments
<1>4. CallsPlaced'
  BY CallsStayPlaced
<1>5. ASSUME ~doubtful'
      PROVE  Balanced'
  <2>1. Balanced /\ MoneyOK
    BY <1>2, <1>5 DEF BooksInv, Balanced
  <2>2. CASE Resets
    BY <1>5, <2>1, <2>2, DrawGivenBack, RefundGivenBack DEF Resets
  <2>3. CASE ~Resets
    <3>1. NoGaps'
      BY <1>1, <2>1, <2>3, GapsStay DEF NoGaps, Balanced
    <3>2. ASSUME NEW u \in Users PROVE PaidRight(u)'
      <4>1. \A a : Own(u, a) => OwnNext(u, a)
        BY <1>1, <2>3, OwnStays
      <4>2. UpDraw(u) \in UpKeysHere
        BY KeysAre DEF UpKeysHere
      <4>3. PaidRight(u)
        BY <2>1 DEF Balanced
      <4>4. QED
        BY <1>3, <2>1, <4>1, <4>2, <4>3, RightStays DEF Payments, AllAsked, Asked
    <3>3. ASSUME NEW l \in Lots PROVE RefundRight(l)'
      <4>1. \A n : Covers(l, n) => CoversNext(l, n)
        <5>1. PICK x \in Nat, y \in Nat : x = RefundedFrom(l) /\ y = RefundedFrom(l)' /\ y >= x
          <6>1. RefundedFrom(l) \in Nat /\ RefundedFrom(l)' \in Nat
            BY <1>1, GapTypes, RefundsNext
          <6>2. QED
            BY <1>1, <2>3, <6>1, RefundsGrow
        <5>2. QED
          BY <5>1 DEF Covers, CoversNext
      <4>2. UpRefund(l) \in UpKeysHere
        <5>1. "auto" \in Kinds
          BY DEF Kinds
        <5>2. QED
          BY <5>1, KeysAre DEF UpKeysHere
      <4>3. RefundRight(l)
        BY <2>1 DEF Balanced
      <4>4. QED
        BY <1>3, <2>1, <4>1, <4>2, <4>3, CoverStays DEF Payments, AllAsked, AskedBack
    <3>4. QED
      BY <3>1, <3>2, <3>3 DEF Balanced
  <2>4. QED
    BY <2>2, <2>3
<1>6. QED
  BY <1>1, <1>2, <1>3, <1>4, <1>5 DEF BooksInv, Balanced

LEMMA BooksAreKept == Spec => []BooksInv
<1>1. Init => BooksInv
  BY BooksInit
<1>2. BooksInv /\ [Next]_vars => BooksInv'
  BY BooksStep
<1>3. QED
  BY <1>1, <1>2, PTL DEF Spec

(***************************************************************************)
(* As long as nothing was given back that had been paid or still could be,  *)
(* the lots show exactly what the rows took, and a user has got nothing or  *)
(* the amount of the own draw.                                              *)
(***************************************************************************)
THEOREM CleanBooksStayBalanced == Spec => []CleanBooksBalance
<1>1. BooksInv => CleanBooksBalance
  <2> SUFFICES ASSUME BooksInv, ~doubtful PROVE CleanBooksBalance
    BY DEF CleanBooksBalance
  <2>1. NoGaps /\ LotInv /\ \A u \in Users : PaidRight(u)
    BY DEF BooksInv
  <2>2. \A l \in Lots : lots[l].consumed = TakenFrom(l) /\ lots[l].refunded = RefundedFrom(l)
    BY <2>1, GapTypes DEF NoGaps, DrawGap, RefundGap
  <2>3. ASSUME NEW u \in Users, applied[UpKeyOf[DrawKey(u)]] # 0
        PROVE  draws[u] # Absent /\ draws[u].amount = applied[UpKeyOf[DrawKey(u)]]
    BY <2>1, <2>3, KeysAre DEF PaidRight, Own
  <2>4. QED
    BY <2>2, <2>3 DEF CleanBooksBalance
<1>2. QED
  BY <1>1, BooksAreKept, PTL

(***************************************************************************)
(* What upstream has paid out of a lot, to those who drew from it and to    *)
(* its owner, is no more than was put into it: however draws, refunds,      *)
(* failed payouts, resets, expiry rounds and crashes interleave, as long as *)
(* nothing was given back that had been paid or still could be.             *)
(***************************************************************************)
THEOREM LotsNeverPayTwice == Spec => []LotsPayWhatTheyHold
<1>1. BooksInv => LotsPayWhatTheyHold
  <2> SUFFICES ASSUME BooksInv, ~doubtful, NEW l \in Lots PROVE PaidFrom(l) <= Original[l]
    BY DEF LotsPayWhatTheyHold
  <2>1. NoGaps /\ LotInv /\ DrawsOK /\ RefundRight(l)
    BY DEF BooksInv, LotInv
  <2>2. PICK c \in Nat, f \in Nat : lots[l] = [consumed |-> c, refunded |-> f]
    BY <2>1 DEF LotInv, LotsOK, LotOK
  <2>3. TakenFrom(l) = c /\ RefundedFrom(l) = f
    BY <2>1, <2>2, GapTypes DEF NoGaps, DrawGap, RefundGap
  <2>4. c + f <= Original[l] /\ Original[l] \in Nat
    BY <2>1, <2>2, PoolAssumption DEF LotInv, CountersFit
  <2> DEFINE paid == [u \in Users |-> IF applied[UpKeyOf[DrawKey(u)]] # 0
                                      THEN TakenBy(draws[u], l) ELSE 0]
  <2>5. PICK g : g = paid
    OBVIOUS
  <2>6. PICK h : h = TakesOf(l)
    OBVIOUS
  <2>7. \A u \in Users : g[u] \in Nat /\ h[u] \in Nat /\ g[u] <= h[u]
    BY <2>1, <2>5, <2>6, TakesAre
  <2>8. SumFunctionOnSet(g, Users) <= SumFunctionOnSet(h, Users)
    BY <2>7, FiniteAgrees, SumAgrees, P!SumBound, PoolAssumption
  <2>9. SumFunctionOnSet(g, Users) \in Nat
    BY <2>7, FiniteAgrees, SumAgrees, P!SumNat, PoolAssumption
  <2>10. SumFunctionOnSet(h, Users) = c
    BY <2>1, <2>3, <2>6, TakesAre
  <2>11. applied[UpKeyOf[RefundKey(l, "auto")]] \in Nat /\ applied[UpKeyOf[RefundKey(l, "auto")]] <= f
    <3>1. UpKeyOf[RefundKey(l, "auto")] = UpRefund(l)
      BY KeysAre DEF Kinds
    <3>2. QED
      BY <2>1, <2>3, <3>1 DEF RefundRight, Covers
  <2>12. PaidFrom(l) = applied[UpKeyOf[RefundKey(l, "auto")]] + SumFunctionOnSet(g, Users)
    <3>1. DOMAIN g = Users
      BY <2>5
    <3>2. SumFunction(g) = SumFunctionOnSet(g, Users)
      BY <3>1 DEF SumFunction
    <3>3. QED
      BY <2>5, <3>2 DEF PaidFrom
  <2>13. QED
    BY <2>4, <2>8, <2>9, <2>10, <2>11, <2>12
<1>2. QED
  BY <1>1, BooksAreKept, PTL
=============================================================================
