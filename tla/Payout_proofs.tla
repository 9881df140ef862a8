--------------------------- MODULE Payout_proofs ---------------------------
(***************************************************************************)
(* What every user of Payout can rely on, for any keys and any number of   *)
(* workers, as long as it asks for no payment of nothing: a call that      *)
(* ended well has a row in the ledger and money behind it, unless its key  *)
(* can be mistaken for paid, and no later step, crashes included, takes    *)
(* either back. The components that are composed with Payout instantiate   *)
(* this module and cite its lemmas, those about sums over finite sets too. *)
(***************************************************************************)
EXTENDS Payout, FiniteSets, Functions, FiniteSetTheorems, WellFoundedInduction, TLAPS

\* Every ledger key has its key upstream.
Mapped == UpKeyOf \in [Keys -> UpKeys]

\* Money has moved under the key, or Grant may have read so in an error.
Moved(u) == applied[u] # 0 \/ u \in Mistakable

\* The payout of a key has reached the ledger, and upstream.
Served(k) == Final(k) /\ Moved(UpKeyOf[k])

CallOK(c) ==
    \/ c = Idle
    \/ /\ \E pc, r : c = [pc |-> pc, req |-> r]
       /\ c.req.key \in Keys
       /\ c.req.delta # 0
       /\ c.pc \in {"running", "ok", "skipped", "error"}
       /\ c.pc \in {"ok", "skipped"} => Served(c.req.key)

CallsOK ==
    /\ calls = [w \in Workers |-> calls[w]]
    /\ \A w \in Workers : CallOK(calls[w])

PayoutOK ==
    /\ CallsOK
    /\ applied = [u \in UpKeys |-> applied[u]]
    /\ \A e \in final : Moved(UpKeyOf[e.key])
    /\ \A e \in final : e.key \in Keys
    /\ \A m \in sent : m.up \in UpKeys /\ m.delta # 0

Pay(w, r) == Call(w, r) /\ UNCHANGED <<final, applied, sent>>

\* What a component may do to the service: it pays something or nothing, and
\* takes results; the service goes on, or all of the process dies.
Move ==
    \/ UNCHANGED vars
    \/ \E w \in Workers : WorkerStep(w)
    \/ \E w \in Workers, k \in Keys : \E a : a # 0 /\ Pay(w, [key |-> k, delta |-> a])
    \/ \E w \in Workers : Return(w) /\ UNCHANGED <<final, applied, sent>>
    \/ Upstream
    \/ Crash

-----------------------------------------------------------------------------
(***************************************************************************)
(* Nothing is running and nothing has moved at the start.                   *)
(***************************************************************************)
LEMMA PayoutInit == ASSUME Init PROVE PayoutOK
  BY DEF Init, PayoutOK, CallsOK, CallOK

(***************************************************************************)
(* Money that moved under a key stays moved.                                *)
(***************************************************************************)
LEMMA AppliedStays ==
  ASSUME Mapped, PayoutOK, Move, NEW u \in UpKeys, applied[u] # 0
  PROVE  applied'[u] # 0
<1>1. CASE Upstream
  <2>1. PICK m \in sent : Apply(m) \/ Lose(m)
    BY <1>1 DEF Upstream
  <2>2. CASE Lose(m)
    BY <2>2 DEF Lose
  <2>3. CASE Apply(m)
    <3>1. CASE applied[m.up] = 0
      <4>1. applied' = [applied EXCEPT ![m.up] = m.delta] /\ m.up # u
        BY <2>3, <3>1 DEF Apply
      <4> QED
        BY <4>1 DEF PayoutOK
    <3>2. CASE applied[m.up] # 0
      BY <2>3, <3>2 DEF Apply
    <3> QED
      BY <3>1, <3>2
  <2> QED
    BY <2>1, <2>2, <2>3
<1>2. CASE ~Upstream
  BY <1>2 DEF Move, vars, Pay, WorkerStep, Send, Succeed, Skip, Fail, Crash
<1> QED
  BY <1>1, <1>2

(***************************************************************************)
(* A payout that reached both stores stays there.                           *)
(***************************************************************************)
LEMMA ServedStays ==
  ASSUME Mapped, PayoutOK, Move, NEW k \in Keys, Served(k)
  PROVE  Served(k)'
<1>1. final \subseteq final'
  BY DEF Move, vars, Pay, WorkerStep, Send, Succeed, Skip, Fail, Upstream, Apply, Lose, Crash
<1>2. Moved(UpKeyOf[k])'
  BY AppliedStays DEF Served, Mapped, Moved
<1>3. Final(k)'
  BY <1>1 DEF Served, Final
<1> QED
  BY <1>2, <1>3 DEF Served

(***************************************************************************)
(* Calls that a step leaves alone stay as they should be.                   *)
(***************************************************************************)
LEMMA CallKept ==
  ASSUME Mapped, PayoutOK, Move, NEW c, CallOK(c)
  PROVE  CallOK(c)'
<1>1. c.req.key \in Keys /\ Served(c.req.key) => Served(c.req.key)'
  BY ServedStays
<1>2. QED
  BY <1>1 DEF CallOK, Idle

(***************************************************************************)
(* A step that changes one call.                                            *)
(***************************************************************************)
LEMMA OneCall ==
  ASSUME Mapped, PayoutOK, Move, NEW w \in Workers, NEW c,
         calls' = [calls EXCEPT ![w] = c],
         CallOK(c)'
  PROVE  CallsOK'
<1>1. calls' = [v \in Workers |-> calls'[v]]
  BY DEF PayoutOK, CallsOK
<1>2. ASSUME NEW v \in Workers, NEW d, d = calls'[v]
      PROVE  CallOK(d)'
  <2>1. CASE v = w
    <3>1. d = c
      BY <1>2, <2>1 DEF PayoutOK, CallsOK
    <3>2. QED
      BY <3>1
  <2>2. CASE v # w
    <3>1. d = calls[v] /\ CallOK(d)
      BY <1>2, <2>2 DEF PayoutOK, CallsOK
    <3>2. QED
      BY <3>1, CallKept
  <2>3. QED
    BY <2>1, <2>2
<1>3. QED
  BY <1>1, <1>2 DEF CallsOK, CallOK, Served

(***************************************************************************)
(* Whatever a step does to the payout service, calls, rows and requests     *)
(* stay as they should be.                                                  *)
(***************************************************************************)
LEMMA PayoutStep ==
  ASSUME Mapped, PayoutOK, Move
  PROVE  PayoutOK'
<1>1. CASE UNCHANGED vars
  BY <1>1 DEF vars, PayoutOK, CallsOK, CallOK, Served, Final, Moved
<1>2. ASSUME NEW w \in Workers, WorkerStep(w)
      PROVE  PayoutOK'
  <2>1. calls[w].pc = "running"
    BY <1>2 DEF WorkerStep, Send, Succeed, Skip, Fail,
       End
  <2>2. CallOK(calls[w])
    BY DEF PayoutOK, CallsOK
  <2>3. PICK r : /\ calls[w].req = r
                 /\ r.key \in Keys
                 /\ r.delta # 0
    BY <2>1, <2>2 DEF CallOK, Idle
  <2> DEFINE done(pc) == [pc |-> pc, req |-> r]
  <2>move. Move
    BY <1>2 DEF Move
  <2>4. CASE Send(w)
    <3>1. /\ calls' = calls
          /\ final' = final
          /\ applied' = applied
          /\ sent' = sent \cup {[up |-> UpKeyOf[r.key], delta |-> r.delta]}
      BY <2>3, <2>4 DEF Send, Request
    <3>2. CallsOK'
      BY <3>1 DEF PayoutOK, CallsOK, CallOK, Served, Final, Moved
    <3>3. \A m \in sent' : m.up \in UpKeys /\ m.delta # 0
      BY <2>3, <3>1 DEF PayoutOK, Mapped
    <3>4. QED
      BY <3>1, <3>2, <3>3 DEF PayoutOK, Moved
  <2>5. CASE Succeed(w)
    <3>1. /\ calls' = [calls EXCEPT ![w] = done("ok")]
          /\ final' = final \cup {[key |-> r.key, delta |-> r.delta]}
          /\ UNCHANGED <<applied, sent>>
          /\ Moved(UpKeyOf[r.key])
      BY <2>3, <2>5 DEF Succeed, End, Moved
    <3>2. Served(r.key)'
      <4>1. [key |-> r.key, delta |-> r.delta] \in final'
        BY <3>1
      <4>2. Final(r.key)'
        BY <4>1 DEF Final
      <4>3. QED
        BY <3>1, <4>2 DEF Served, Moved
    <3>3. CallOK(done("ok"))'
      BY <2>3, <3>2 DEF CallOK
    <3>4. CallsOK'
      BY <3>1, <3>3, <2>move, OneCall
    <3>5. QED
      BY <2>3, <3>1, <3>4 DEF PayoutOK, Moved
  <2>6. CASE Skip(w)
    <3>1. /\ calls' = [calls EXCEPT ![w] = done("skipped")]
          /\ Final(r.key)
          /\ UNCHANGED <<final, applied, sent>>
      BY <2>3, <2>6 DEF Skip, End
    <3>2. Served(r.key)
      BY <3>1 DEF Served, Final, PayoutOK
    <3>3. Served(r.key)'
      BY <2>3, <3>2, <2>move, ServedStays
    <3>4. CallOK(done("skipped"))'
      BY <2>3, <3>3 DEF CallOK
    <3>5. CallsOK'
      BY <3>1, <3>4, <2>move, OneCall
    <3>6. QED
      BY <3>1, <3>5 DEF PayoutOK, Moved
  <2>7. CASE Fail(w)
    <3>1. /\ calls' = [calls EXCEPT ![w] = done("error")]
          /\ UNCHANGED <<final, applied, sent>>
      BY <2>3, <2>7 DEF Fail, End
    <3>2. CallOK(done("error"))'
      BY <2>3 DEF CallOK
    <3>3. CallsOK'
      BY <3>1, <3>2, <2>move, OneCall
    <3>4. QED
      BY <3>1, <3>3 DEF PayoutOK, Moved
  <2>8. QED
    BY <1>2, <2>4, <2>5, <2>6, <2>7 DEF WorkerStep
<1>3. ASSUME NEW w \in Workers, NEW k \in Keys, NEW a, a # 0, Pay(w, [key |-> k, delta |-> a])
      PROVE  PayoutOK'
  <2> DEFINE c == [pc |-> "running", req |-> [key |-> k, delta |-> a]]
  <2>1. calls' = [calls EXCEPT ![w] = c] /\ UNCHANGED <<final, applied, sent>>
    BY <1>3 DEF Pay, Call
  <2>2. CallOK(c)'
    BY <1>3 DEF CallOK
  <2> HIDE DEF c
  <2>3. Move
    BY <1>3 DEF Move
  <2>4. QED
    BY <2>1, <2>2, <2>3, OneCall DEF PayoutOK, Moved
<1>4. ASSUME NEW w \in Workers, Return(w), UNCHANGED <<final, applied, sent>>
      PROVE  PayoutOK'
  <2>1. calls' = [calls EXCEPT ![w] = Idle]
    BY <1>4 DEF Return
  <2>2. CallOK(Idle)'
    BY DEF CallOK, Idle
  <2>3. Move
    BY <1>4 DEF Move
  <2>4. QED
    BY <1>4, <2>1, <2>2, <2>3, OneCall DEF PayoutOK, Moved
<1>5. ASSUME NEW m \in sent, Apply(m) \/ Lose(m)
      PROVE  PayoutOK'
  <2>1. Move
    BY <1>5 DEF Move, Upstream
  <2>2. calls' = calls /\ final' = final /\ sent' \subseteq sent
    BY <1>5 DEF Apply, Lose
  <2>3. CallsOK'
    <3>1. ASSUME NEW v \in Workers, NEW d, d = calls[v]
          PROVE  CallOK(d)'
      BY <2>1, <3>1, CallKept DEF PayoutOK, CallsOK
    <3>2. calls' = [v \in Workers |-> calls'[v]]
      BY <2>2 DEF PayoutOK, CallsOK
    <3>3. QED
      BY <2>2, <3>1, <3>2 DEF CallsOK, CallOK, Served
  <2>4. \A e \in final : e.key \in Keys /\ Moved(UpKeyOf[e.key])
    BY DEF PayoutOK
  <2>5. ASSUME NEW e \in final
        PROVE  Moved(UpKeyOf[e.key])'
    <3>1. Served(e.key) /\ e.key \in Keys
      BY <2>4 DEF Served, Final
    <3>2. QED
      BY <2>1, <3>1, ServedStays DEF Served
  <2>6. applied' = [u \in UpKeys |-> applied'[u]]
    BY <1>5 DEF PayoutOK, Apply, Lose
  <2>7. QED
    BY <2>2, <2>3, <2>4, <2>5, <2>6 DEF PayoutOK
<1>6. CASE Crash
  BY <1>6 DEF Crash, PayoutOK, CallsOK, CallOK, Idle, Moved
<1>7. QED
  BY <1>1, <1>2, <1>3, <1>4, <1>5, <1>6 DEF Move, Upstream

(***************************************************************************)
(* A running call keeps its request until it returns.                       *)
(***************************************************************************)
LEMMA RequestsStay ==
  ASSUME PayoutOK, NEW w \in Workers, calls[w] # Idle,
         UNCHANGED vars \/ Upstream \/ \E v \in Workers : WorkerStep(v)
  PROVE  calls'[w] # Idle /\ calls'[w].req = calls[w].req
<1>1. CASE UNCHANGED calls
  BY <1>1
<1>2. ASSUME NEW v \in Workers, NEW pc \in Returned, End(v, pc)
      PROVE  calls'[w] # Idle /\ calls'[w].req = calls[w].req
  <2>1. calls' = [calls EXCEPT ![v] = [pc |-> pc, req |-> calls[v].req]]
    BY <1>2 DEF End
  <2>2. [pc |-> pc, req |-> calls[v].req] # Idle
    BY DEF Idle, Returned
  <2>3. QED
    BY <2>1, <2>2 DEF PayoutOK, CallsOK
<1>3. QED
  BY <1>1, <1>2 DEF vars, Upstream, Apply, Lose, WorkerStep, Send, Succeed, Skip, Fail, Returned

-----------------------------------------------------------------------------
(***************************************************************************)
(* Money that can still move.  Worker w has a call under the upstream key   *)
(* u; what has happened under u is the last word, unless somebody calls;    *)
(* whatever has moved or can still move under u is the amount a.            *)
(***************************************************************************)
Under(w, u) == calls[w] # Idle /\ UpKeyOf[calls[w].req.key] = u
Calm(u) == applied[u] # 0 \/ \A m \in sent : m.up # u
Asked(u, a) == applied[u] \in {0, a} /\ \A m \in sent : m.up = u => m.delta = a

(***************************************************************************)
(* Requests come from calls, and upstream serves what was sent.             *)
(***************************************************************************)
LEMMA SentBy ==
  ASSUME PayoutOK, Move, NEW m \in sent', m \notin sent
  PROVE  \E w \in Workers : Under(w, m.up) /\ m.delta = calls[w].req.delta
<1>1. PICK w \in Workers : Send(w)
  BY DEF Move, vars, Pay, WorkerStep, Succeed, Skip, Fail, Upstream, Apply, Lose, Crash
<1>2. m = Request(calls[w].req) /\ calls[w].pc = "running"
  BY <1>1 DEF Send
<1>3. calls[w] # Idle
  BY <1>2 DEF Idle
<1>4. QED
  BY <1>2, <1>3 DEF Request, Under

LEMMA AppliedBy ==
  ASSUME PayoutOK, Move, NEW u \in UpKeys, applied'[u] # applied[u]
  PROVE  applied[u] = 0 /\ \E m \in sent : m.up = u /\ applied'[u] = m.delta
<1>1. PICK m \in sent : Apply(m)
  BY DEF Move, vars, Pay, WorkerStep, Send, Succeed, Skip, Fail, Upstream, Lose, Crash
<1>2. applied[m.up] = 0 /\ applied' = [applied EXCEPT ![m.up] = m.delta]
  BY <1>1 DEF Apply
<1>3. m.up = u
  BY <1>2 DEF PayoutOK
<1>4. QED
  BY <1>2, <1>3 DEF PayoutOK

LEMMA FinalBy ==
  ASSUME PayoutOK, Move, NEW k \in Keys, Final(k)', ~Final(k)
  PROVE  \E w \in Workers : calls[w] # Idle /\ calls[w].req.key = k
<1>1. PICK w \in Workers : Succeed(w) \/ Skip(w)
  BY DEF Move, vars, Pay, WorkerStep, Send, Fail, Upstream, Apply, Lose, Crash, Final, Return, Call
<1>2. calls[w].pc = "running" /\ calls[w].req.key = k
  BY <1>1 DEF Succeed, Skip, End, Final
<1>3. QED
  BY <1>2 DEF Idle

(***************************************************************************)
(* Where nobody calls and nothing is under way, nothing moves.              *)
(***************************************************************************)
LEMMA CalmStays ==
  ASSUME Mapped, PayoutOK, Move, NEW u \in UpKeys, Calm(u), \A w \in Workers : ~Under(w, u)
  PROVE  Calm(u)' /\ applied'[u] = applied[u]
<1>1. applied'[u] = applied[u]
  BY AppliedBy DEF Calm
<1>2. \A m \in sent' : m.up = u => m \in sent
  BY SentBy
<1>3. QED
  BY <1>1, <1>2 DEF Calm

(***************************************************************************)
(* Where all calls ask for the same amount, no other amount moves.          *)
(***************************************************************************)
LEMMA AskedStays ==
  ASSUME Mapped, PayoutOK, Move, NEW u \in UpKeys, NEW a, Asked(u, a),
         \A w \in Workers : Under(w, u) => calls[w].req.delta = a
  PROVE  Asked(u, a)'
<1>1. applied'[u] \in {0, a}
  BY AppliedBy DEF Asked
<1>2. \A m \in sent' : m.up = u => m.delta = a
  BY SentBy DEF Asked
<1>3. QED
  BY <1>1, <1>2 DEF Asked

-----------------------------------------------------------------------------
(***************************************************************************)
(* Sums of amounts.  SumFunctionOnSet is defined by recursion over subsets; *)
(* the library's induction takes an operator, so what it adds up to is      *)
(* derived from the well-ordering of the natural numbers, by way of the     *)
(* numbers, and then the subsets, for which a claim does not fail.          *)
(***************************************************************************)
Chosen(s) == CHOOSE x \in s : TRUE

Added(f, s, g) == IF s = {} THEN 0 ELSE f[Chosen(s)] + g[s \ {Chosen(s)}]

IsIter(f, S, g) == g = [s \in SUBSET S |-> Added(f, s, g)]

Iter(f, S) == CHOOSE g : IsIter(f, S, g)

\* What is summed up is the value of that function.
LEMMA SumIs ==
  ASSUME NEW f, NEW S
  PROVE  SumFunctionOnSet(f, S) = Iter(f, S)[S]
BY DEF SumFunctionOnSet, FoldFunctionOnSet, MapThenFoldSet, Iter, IsIter, Added, Chosen

LEMMA ChosenIsIn ==
  ASSUME NEW s, s # {}
  PROVE  Chosen(s) \in s
BY DEF Chosen

\* A set of numbers that holds 0 and the successor of each member is Nat.
LEMMA InductionOverNat ==
  ASSUME NEW Good \in SUBSET Nat, 0 \in Good, \A n \in Good : n + 1 \in Good
  PROVE  Good = Nat
<1> DEFINE less == {p \in Nat \X Nat : p[1] < p[2]}
<1>1. IsWellFoundedOn(less, Nat)
  BY NatLessThanWellFounded DEF OpToRel
<1>2. SUFFICES ASSUME Nat \ Good # {} PROVE FALSE
  OBVIOUS
<1>3. PICK x \in Nat \ Good : \A y \in Nat \ Good : ~(<<y, x>> \in less)
  <2> HIDE DEF less
  <2> QED
    BY <1>1, <1>2, WFMin
<1>4. x # 0 /\ x - 1 \in Nat
  BY <1>3
<1>5. <<x - 1, x>> \in less
  BY <1>4
<1>6. x - 1 \in Good
  BY <1>3, <1>4, <1>5
<1> QED
  BY <1>4, <1>6

\* Every set of numbers has a least one.
LEMMA Least ==
  ASSUME NEW S \in SUBSET Nat, S # {}
  PROVE  \E x \in S : \A y \in S : x <= y
<1> DEFINE less == {p \in Nat \X Nat : p[1] < p[2]}
<1>1. IsWellFoundedOn(less, Nat)
  BY NatLessThanWellFounded DEF OpToRel
<1>2. PICK x \in S : \A y \in S : ~(<<y, x>> \in less)
  <2> HIDE DEF less
  <2> QED
    BY <1>1, WFMin
<1>3. \A y \in S : ~(y < x)
  BY <1>2
<1>4. QED
  BY <1>3

\* Induction over the subsets of a finite set.
\* A set of subsets that holds {} and every subset it holds all smaller ones of
\* holds them all.
LEMMA InductionOverSubsets ==
  ASSUME NEW U, IsFiniteSet(U), NEW Good \in SUBSET SUBSET U, {} \in Good,
         \A T \in SUBSET U : T # {} /\ (\A x \in T : T \ {x} \in Good) => T \in Good
  PROVE  U \in Good
<1> DEFINE sizes == {n \in Nat : \A T \in SUBSET U : Cardinality(T) = n => T \in Good}
<1>1. \A T \in SUBSET U : IsFiniteSet(T) /\ Cardinality(T) \in Nat /\ (Cardinality(T) = 0 => T = {})
  BY FS_Subset, FS_CardinalityType, FS_EmptySet
<1>2. 0 \in sizes
  BY <1>1
<1>3. ASSUME NEW n \in sizes PROVE n + 1 \in sizes
  <2>1. ASSUME NEW T \in SUBSET U, Cardinality(T) = n + 1 PROVE T \in Good
    <3>1. T # {}
      BY <2>1, FS_EmptySet
    <3>2. ASSUME NEW x \in T PROVE T \ {x} \in Good
      <4>1. Cardinality(T \ {x}) = n
        <5>1. IsFiniteSet(T) /\ Cardinality(T) = n + 1 /\ n \in Nat
          BY <1>1, <2>1
        <5>2. Cardinality(T \ {x}) = Cardinality(T) - 1
          BY <5>1, FS_RemoveElement
        <5> QED
          BY <5>1, <5>2
      <4> QED
        BY <4>1
    <3> QED
      BY <3>1, <3>2
  <2> QED
    BY <2>1
<1>4. sizes = Nat
  <2> HIDE DEF sizes
  <2>1. sizes \subseteq Nat
    BY DEF sizes
  <2> QED
    BY <1>2, <1>3, <2>1, InductionOverNat
<1> QED
  BY <1>1, <1>4

\* The recursion defines a function, by way of the subsets up to each size.
LEMMA IterExists ==
  ASSUME NEW f, NEW S, IsFiniteSet(S)
  PROVE  IsIter(f, S, Iter(f, S))
<1> DEFINE Small(n) == {s \in SUBSET S : Cardinality(s) <= n}
           Upto(n, g) == g = [s \in Small(n) |-> Added(f, s, g)]
           good == {n \in Nat : \E g : Upto(n, g)}
<1>1. \A T \in SUBSET S : IsFiniteSet(T) /\ Cardinality(T) \in Nat /\ (Cardinality(T) = 0 => T = {})
  BY FS_Subset, FS_CardinalityType, FS_EmptySet
<1>2. 0 \in good
  <2>1. PICK g : g = [s \in Small(0) |-> 0]
    OBVIOUS
  <2>2. \A s \in Small(0) : s = {}
    BY <1>1
  <2>3. Upto(0, g)
    BY <2>1, <2>2 DEF Added
  <2> QED
    BY <2>3
<1>3. ASSUME NEW n \in good PROVE n + 1 \in good
  <2>1. PICK g : Upto(n, g)
    OBVIOUS
  <2>2. PICK h : h = [s \in Small(n + 1) |-> IF s \in Small(n) THEN g[s] ELSE Added(f, s, g)]
    OBVIOUS
  <2>3. ASSUME NEW s \in Small(n + 1) PROVE h[s] = Added(f, s, h)
    <3>1. CASE s = {}
      <4>1. s \in Small(n)
        BY <3>1, FS_EmptySet
      <4> QED
        BY <2>1, <2>2, <3>1, <4>1 DEF Added
    <3>2. CASE s # {}
      <4>1. PICK c : c = Chosen(s) /\ c \in s
        BY <3>2, ChosenIsIn
      <4>2. PICK t : t = s \ {c} /\ t \in Small(n)
        <5>1. Cardinality(s \ {c}) = Cardinality(s) - 1
          BY <1>1, <4>1, FS_RemoveElement
        <5> QED
          BY <1>1, <5>1
      <4>3. h[t] = g[t]
        BY <1>1, <2>2, <4>2
      <4>4. Added(f, s, h) = f[c] + h[t] /\ Added(f, s, g) = f[c] + g[t]
        BY <3>2, <4>1, <4>2 DEF Added
      <4>5. h[s] = Added(f, s, g)
        BY <2>1, <2>2
      <4> QED
        BY <4>3, <4>4, <4>5
    <3> QED
      BY <3>1, <3>2
  <2>4. Upto(n + 1, h) /\ n + 1 \in Nat
    BY <2>2, <2>3
  <2> QED
    <3> HIDE DEF Upto
    <3> QED
      BY <2>4
<1>4. good = Nat
  <2> HIDE DEF good
  <2>1. good \subseteq Nat
    BY DEF good
  <2> QED
    BY <1>2, <1>3, <2>1, InductionOverNat
<1>5. Cardinality(S) \in Nat /\ Small(Cardinality(S)) = SUBSET S
  BY <1>1, FS_Subset
<1>6. PICK g : Upto(Cardinality(S), g)
  BY <1>4, <1>5
<1>7. IsIter(f, S, g)
  BY <1>5, <1>6 DEF IsIter
<1> QED
  BY <1>7 DEF Iter

LEMMA IterStep ==
  ASSUME NEW f, NEW S, IsFiniteSet(S), NEW T \in SUBSET S
  PROVE  Iter(f, S)[T] = IF T = {} THEN 0 ELSE f[Chosen(T)] + Iter(f, S)[T \ {Chosen(T)}]
<1>1. PICK g : g = Iter(f, S)
  OBVIOUS
<1>a. IsIter(f, S, g)
  BY <1>1, IterExists
<1>2. g = [s \in SUBSET S |-> Added(f, s, g)]
  BY <1>a DEF IsIter
<1>3. g[T] = Added(f, T, g)
  BY <1>2
<1> QED
  BY <1>1, <1>3 DEF Added

\* The value on a subset is the sum over it.
LEMMA IterRestricts ==
  ASSUME NEW f, NEW S, IsFiniteSet(S), NEW T \in SUBSET S
  PROVE  Iter(f, S)[T] = Iter(f, T)[T]
<1> DEFINE good == {A \in SUBSET S : \A B \in SUBSET S : A \subseteq B => Iter(f, B)[A] = Iter(f, A)[A]}
<1>0. \A A \in SUBSET S : IsFiniteSet(A)
  BY FS_Subset
<1>1. {} \in good
  BY <1>0, IterStep
<1>2. ASSUME NEW A \in SUBSET S, A # {}, \A x \in A : A \ {x} \in good
      PROVE  A \in good
  <2>1. PICK c : c = Chosen(A) /\ c \in A
    BY <1>2, ChosenIsIn
  <2>2. ASSUME NEW B \in SUBSET S, A \subseteq B
        PROVE  Iter(f, B)[A] = f[c] + Iter(f, A \ {c})[A \ {c}]
    BY <1>0, <1>2, <2>1, <2>2, IterStep
  <2> QED
    BY <2>2
<1>3. \A A \in SUBSET S : A \in good
  <2> SUFFICES ASSUME NEW A \in SUBSET S PROVE A \in good
    OBVIOUS
  <2>1. PICK gA : gA = good \cap SUBSET A
    OBVIOUS
  <2>2. A \in gA
    <3> HIDE DEF good
    <3>1. IsFiniteSet(A) /\ gA \in SUBSET SUBSET A /\ {} \in gA
      BY <1>0, <1>1, <2>1
    <3>2. ASSUME NEW B \in SUBSET A, B # {}, \A x \in B : B \ {x} \in gA PROVE B \in gA
      BY <1>2, <2>1, <3>2
    <3> QED
      BY <3>1, <3>2, InductionOverSubsets
  <2> QED
    BY <2>1, <2>2
<1> QED
  BY <1>3

\* A sum is an element and the sum of the rest.
LEMMA SumStep ==
  ASSUME NEW f, NEW S, IsFiniteSet(S)
  PROVE  SumFunctionOnSet(f, S) =
           IF S = {} THEN 0 ELSE f[Chosen(S)] + SumFunctionOnSet(f, S \ {Chosen(S)})
<1>1. CASE S = {}
  BY <1>1, SumIs, IterStep
<1>2. CASE S # {}
  <2>1. PICK c : c = Chosen(S) /\ c \in S
    BY <1>2, ChosenIsIn
  <2>2. Iter(f, S)[S] = f[c] + Iter(f, S)[S \ {c}]
    BY <1>2, <2>1, IterStep
  <2>3. Iter(f, S)[S \ {c}] = Iter(f, S \ {c})[S \ {c}]
    BY IterRestricts
  <2> QED
    BY <1>2, <2>1, <2>2, <2>3, SumIs
<1> QED
  BY <1>1, <1>2
LEMMA SumNone == \A f : SumFunctionOnSet(f, {}) = 0
  BY FS_EmptySet, SumStep

LEMMA SumInt ==
  ASSUME NEW f, NEW S, IsFiniteSet(S), \A x \in S : f[x] \in Int
  PROVE  SumFunctionOnSet(f, S) \in Int
<1> DEFINE good == {A \in SUBSET S : SumFunctionOnSet(f, A) \in Int}
<1>0. \A A \in SUBSET S : IsFiniteSet(A)
  BY FS_Subset
<1>1. {} \in good
  BY SumNone
<1>2. ASSUME NEW A \in SUBSET S, A # {}, \A x \in A : A \ {x} \in good
      PROVE  A \in good
  <2>1. PICK c : c = Chosen(A) /\ c \in A
    BY <1>2, ChosenIsIn
  <2>2. SumFunctionOnSet(f, A) = f[c] + SumFunctionOnSet(f, A \ {c})
    BY <1>0, <1>2, <2>1, SumStep
  <2> QED
    BY <1>2, <2>1, <2>2
<1>3. good \in SUBSET SUBSET S
  OBVIOUS
<1>4. S \in good
  <2> HIDE DEF good
  <2> QED
    BY <1>1, <1>2, <1>3, InductionOverSubsets
<1> QED
  BY <1>4

\* Any element may be added last.
LEMMA SumAny ==
  ASSUME NEW f, NEW S, IsFiniteSet(S), \A x \in S : f[x] \in Int, NEW y \in S
  PROVE  SumFunctionOnSet(f, S) = f[y] + SumFunctionOnSet(f, S \ {y})
<1> DEFINE Sum(A) == SumFunctionOnSet(f, A)
           good == {A \in SUBSET S : \A z \in A : Sum(A) = f[z] + Sum(A \ {z})}
<1>0. \A A \in SUBSET S : IsFiniteSet(A) /\ Sum(A) \in Int
  BY FS_Subset, SumInt
<1>1. {} \in good
  OBVIOUS
<1>2. ASSUME NEW A \in SUBSET S, A # {}, \A x \in A : A \ {x} \in good
      PROVE  A \in good
  <2>1. PICK c : c = Chosen(A) /\ c \in A
    BY <1>2, ChosenIsIn
  <2>2. Sum(A) = f[c] + Sum(A \ {c})
    BY <1>0, <1>2, <2>1, SumStep
  <2>3. ASSUME NEW z \in A, z # c PROVE Sum(A) = f[z] + Sum(A \ {z})
    <3>1. Sum(A \ {c}) = f[z] + Sum((A \ {c}) \ {z})
      BY <1>2, <2>1, <2>3
    <3>2. Sum(A \ {z}) = f[c] + Sum((A \ {z}) \ {c})
      BY <1>2, <2>1, <2>3
    <3>3. (A \ {c}) \ {z} = (A \ {z}) \ {c}
      OBVIOUS
    <3>4. PICK t : t = Sum((A \ {z}) \ {c}) /\ t \in Int /\ t = Sum((A \ {c}) \ {z})
      BY <1>0, <3>3
    <3>5. f[c] \in Int /\ f[z] \in Int
      BY <2>1
    <3> HIDE DEF Sum
    <3> QED
      BY <2>2, <3>1, <3>2, <3>4, <3>5
  <2> QED
    BY <2>1, <2>2, <2>3
<1>3. good \in SUBSET SUBSET S
  OBVIOUS
<1>4. S \in good
  <2> HIDE DEF good
  <2> QED
    BY <1>1, <1>2, <1>3, InductionOverSubsets
<1> QED
  BY <1>4

\* Sums of the same values are the same.
LEMMA SumSame ==
  ASSUME NEW f, NEW g, NEW S, IsFiniteSet(S), \A x \in S : f[x] = g[x]
  PROVE  SumFunctionOnSet(f, S) = SumFunctionOnSet(g, S)
<1> DEFINE good == {A \in SUBSET S : SumFunctionOnSet(f, A) = SumFunctionOnSet(g, A)}
<1>0. \A A \in SUBSET S : IsFiniteSet(A)
  BY FS_Subset
<1>1. {} \in good
  BY SumNone
<1>2. ASSUME NEW A \in SUBSET S, A # {}, \A x \in A : A \ {x} \in good
      PROVE  A \in good
  <2>1. PICK c : c = Chosen(A) /\ c \in A
    BY <1>2, ChosenIsIn
  <2>2. /\ SumFunctionOnSet(f, A) = f[c] + SumFunctionOnSet(f, A \ {c})
        /\ SumFunctionOnSet(g, A) = g[c] + SumFunctionOnSet(g, A \ {c})
    BY <1>0, <1>2, <2>1, SumStep
  <2> QED
    BY <1>2, <2>1, <2>2
<1>3. good \in SUBSET SUBSET S
  OBVIOUS
<1>4. S \in good
  <2> HIDE DEF good
  <2> QED
    BY <1>1, <1>2, <1>3, InductionOverSubsets
<1> QED
  BY <1>4

\* One value changes, and the sum by as much.
LEMMA SumUpdate ==
  ASSUME NEW f, NEW g, NEW S, IsFiniteSet(S), NEW y \in S,
         \A x \in S : f[x] \in Int /\ g[x] \in Int,
         \A x \in S \ {y} : f[x] = g[x]
  PROVE  SumFunctionOnSet(g, S) = SumFunctionOnSet(f, S) - f[y] + g[y]
<1>1. IsFiniteSet(S \ {y})
  BY FS_RemoveElement
<1>2. PICK t : t = SumFunctionOnSet(f, S \ {y}) /\ t \in Int
  BY <1>1, SumInt
<1>3. SumFunctionOnSet(g, S \ {y}) = t
  BY <1>1, <1>2, SumSame
<1>4. SumFunctionOnSet(f, S) = f[y] + t /\ SumFunctionOnSet(g, S) = g[y] + t
  BY <1>2, <1>3, SumAny
<1> QED
  BY <1>2, <1>4

\* A sum of smaller values is no larger.
LEMMA SumBound ==
  ASSUME NEW f, NEW g, NEW S, IsFiniteSet(S),
         \A x \in S : f[x] \in Int /\ g[x] \in Int /\ f[x] <= g[x]
  PROVE  SumFunctionOnSet(f, S) <= SumFunctionOnSet(g, S)
<1> DEFINE good == {A \in SUBSET S : SumFunctionOnSet(f, A) <= SumFunctionOnSet(g, A)}
<1>0. \A A \in SUBSET S : IsFiniteSet(A) /\ SumFunctionOnSet(f, A) \in Int
                           /\ SumFunctionOnSet(g, A) \in Int
  BY FS_Subset, SumInt
<1>1. {} \in good
  BY SumNone
<1>2. ASSUME NEW A \in SUBSET S, A # {}, \A x \in A : A \ {x} \in good
      PROVE  A \in good
  <2>1. PICK c : c = Chosen(A) /\ c \in A
    BY <1>2, ChosenIsIn
  <2>2. PICK s, t : /\ s = SumFunctionOnSet(f, A \ {c}) /\ t = SumFunctionOnSet(g, A \ {c})
                    /\ s \in Int /\ t \in Int /\ s <= t
    BY <1>0, <1>2, <2>1
  <2>3. SumFunctionOnSet(f, A) = f[c] + s /\ SumFunctionOnSet(g, A) = g[c] + t
    BY <1>0, <1>2, <2>1, <2>2, SumStep
  <2> QED
    BY <2>1, <2>2, <2>3
<1>3. good \in SUBSET SUBSET S
  OBVIOUS
<1>4. S \in good
  <2> HIDE DEF good
  <2> QED
    BY <1>1, <1>2, <1>3, InductionOverSubsets
<1> QED
  BY <1>4

\* Nothing adds up to nothing.
LEMMA SumOfNothing ==
  ASSUME NEW f, NEW S, IsFiniteSet(S), \A x \in S : f[x] = 0
  PROVE  SumFunctionOnSet(f, S) = 0
<1> DEFINE good == {A \in SUBSET S : SumFunctionOnSet(f, A) = 0}
<1>0. \A A \in SUBSET S : IsFiniteSet(A)
  BY FS_Subset
<1>1. {} \in good
  BY SumNone
<1>2. ASSUME NEW A \in SUBSET S, A # {}, \A x \in A : A \ {x} \in good
      PROVE  A \in good
  <2>1. PICK c : c = Chosen(A) /\ c \in A
    BY <1>2, ChosenIsIn
  <2>2. SumFunctionOnSet(f, A) = f[c] + SumFunctionOnSet(f, A \ {c})
    BY <1>0, <1>2, <2>1, SumStep
  <2> QED
    BY <1>2, <2>1, <2>2
<1>3. good \in SUBSET SUBSET S
  OBVIOUS
<1>4. S \in good
  <2> HIDE DEF good
  <2> QED
    BY <1>1, <1>2, <1>3, InductionOverSubsets
<1> QED
  BY <1>4

\* So many values of at most limit.
LEMMA SumLimit ==
  ASSUME NEW f, NEW S, IsFiniteSet(S), NEW limit \in Int,
         \A x \in S : f[x] \in Int /\ f[x] <= limit
  PROVE  SumFunctionOnSet(f, S) <= Cardinality(S) * limit
<1> DEFINE good == {A \in SUBSET S : SumFunctionOnSet(f, A) <= Cardinality(A) * limit}
<1>0. \A A \in SUBSET S : IsFiniteSet(A) /\ Cardinality(A) \in Nat /\ SumFunctionOnSet(f, A) \in Int
  BY FS_Subset, FS_CardinalityType, SumInt
<1>1. {} \in good
  <2>1. Cardinality({}) = 0 /\ SumFunctionOnSet(f, {}) = 0
    BY SumNone, FS_EmptySet
  <2>2. 0 <= 0 * limit
    OBVIOUS
  <2> QED
    BY <2>1, <2>2
<1>2. ASSUME NEW A \in SUBSET S, A # {}, \A x \in A : A \ {x} \in good
      PROVE  A \in good
  <2>1. PICK c : c = Chosen(A) /\ c \in A
    BY <1>2, ChosenIsIn
  <2>2. PICK s, n : /\ s = SumFunctionOnSet(f, A \ {c}) /\ s \in Int
                    /\ n = Cardinality(A \ {c}) /\ n \in Nat /\ s <= n * limit
    BY <1>0, <1>2, <2>1
  <2>3. SumFunctionOnSet(f, A) = f[c] + s
    BY <1>0, <1>2, <2>1, <2>2, SumStep
  <2>4. Cardinality(A) = n + 1
    <3>1. Cardinality(A \ {c}) = Cardinality(A) - 1
      BY <1>0, <2>1, FS_RemoveElement
    <3> QED
      BY <1>0, <2>2, <3>1
  <2>5. n * limit \in Int /\ (n + 1) * limit = n * limit + limit
    BY <2>2
  <2>6. f[c] + s <= (n + 1) * limit
    BY <2>1, <2>2, <2>5
  <2> QED
    BY <2>3, <2>4, <2>6
<1>3. good \in SUBSET SUBSET S
  OBVIOUS
<1>4. S \in good
  <2> HIDE DEF good
  <2> QED
    BY <1>1, <1>2, <1>3, InductionOverSubsets
<1> QED
  BY <1>4

LEMMA SumNat ==
  ASSUME NEW f, NEW S, IsFiniteSet(S), \A x \in S : f[x] \in Nat
  PROVE  SumFunctionOnSet(f, S) \in Nat
<1>1. PICK z : z = [x \in S |-> 0]
  OBVIOUS
<1>2. \A x \in S : z[x] = 0 /\ z[x] \in Int /\ f[x] \in Int /\ z[x] <= f[x]
  BY <1>1
<1>3. SumFunctionOnSet(z, S) = 0 /\ SumFunctionOnSet(z, S) <= SumFunctionOnSet(f, S)
  BY <1>2, SumOfNothing, SumBound
<1>4. SumFunctionOnSet(f, S) \in Int
  BY <1>2, SumInt
<1>5. QED
  BY <1>3, <1>4

LEMMA SumPart ==
  ASSUME NEW f, NEW S, IsFiniteSet(S), \A x \in S : f[x] \in Nat, NEW y \in S
  PROVE  f[y] <= SumFunctionOnSet(f, S)
<1>1. SumFunctionOnSet(f, S \ {y}) \in Nat
  BY SumNat, FS_RemoveElement
<1>2. SumFunctionOnSet(f, S) = f[y] + SumFunctionOnSet(f, S \ {y})
  BY SumAny
<1>3. QED
  BY <1>1, <1>2

\* A part adds up to no more than the whole.
LEMMA SumWithin ==
  ASSUME NEW f, NEW S, IsFiniteSet(S), \A x \in S : f[x] \in Nat, NEW R \in SUBSET S
  PROVE  SumFunctionOnSet(f, R) <= SumFunctionOnSet(f, S)
<1> DEFINE Sum(A) == SumFunctionOnSet(f, A)
           good == {A \in SUBSET S : \A B \in SUBSET A : Sum(B) <= Sum(A)}
<1>0. \A A \in SUBSET S : IsFiniteSet(A) /\ Sum(A) \in Nat
  BY FS_Subset, SumNat
<1>1. {} \in good
  BY <1>0
<1>2. ASSUME NEW A \in SUBSET S, A # {}, \A x \in A : A \ {x} \in good
      PROVE  A \in good
  <2>1. ASSUME NEW B \in SUBSET A
        PROVE  Sum(B) <= Sum(A)
    <3>0. Sum(A) \in Nat /\ Sum(B) \in Nat
      BY <1>0, <2>1
    <3>1. CASE B = A
      BY <3>0, <3>1
    <3>2. CASE B # A
      <4>1. PICK c \in A : c \notin B
        BY <2>1, <3>2
      <4>2. B \in SUBSET (A \ {c})
        BY <2>1, <4>1
      <4>3. Sum(B) <= Sum(A \ {c})
        BY <1>2, <4>1, <4>2
      <4>4. Sum(A \ {c}) \in Nat /\ f[c] \in Nat
        BY <1>0, <4>1
      <4>5. Sum(A) = f[c] + Sum(A \ {c})
        BY <1>0, <4>1, SumAny
      <4> HIDE DEF Sum
      <4> QED
        BY <3>0, <4>3, <4>4, <4>5
    <3> QED
      BY <3>1, <3>2
  <2> QED
    BY <2>1
<1>3. good \in SUBSET SUBSET S
  OBVIOUS
<1>4. S \in good
  <2> HIDE DEF good
  <2> QED
    BY <1>1, <1>2, <1>3, InductionOverSubsets
<1> QED
  BY <1>4

\* Where all but one value are zero, the sum is that value.
LEMMA SumOfOne ==
  ASSUME NEW f, NEW S, IsFiniteSet(S), NEW y \in S, f[y] \in Int, \A x \in S \ {y} : f[x] = 0
  PROVE  SumFunctionOnSet(f, S) = f[y]
<1>1. \A x \in S : f[x] \in Int
  OBVIOUS
<1>2. SumFunctionOnSet(f, S \ {y}) = 0
  BY SumOfNothing, FS_RemoveElement
<1>3. SumFunctionOnSet(f, S) = f[y] + SumFunctionOnSet(f, S \ {y})
  BY <1>1, SumAny
<1>4. QED
  BY <1>2, <1>3

\* Values of nothing need not be added up.
LEMMA SumSupport ==
  ASSUME NEW f, NEW S, IsFiniteSet(S), \A x \in S : f[x] \in Int,
         NEW R \in SUBSET S, \A x \in S \ R : f[x] = 0
  PROVE  SumFunctionOnSet(f, S) = SumFunctionOnSet(f, R)
<1> DEFINE Sum(A) == SumFunctionOnSet(f, A)
           good == {A \in SUBSET S : Sum(A) = Sum(A \cap R)}
<1>0. \A A \in SUBSET S : IsFiniteSet(A) /\ Sum(A) \in Int
  BY FS_Subset, SumInt
<1>1. {} \in good
  <2>1. {} \cap R = {}
    OBVIOUS
  <2> QED
    BY <2>1
<1>2. ASSUME NEW A \in SUBSET S, A # {}, \A x \in A : A \ {x} \in good
      PROVE  A \in good
  <2>1. PICK c : c \in A
    BY <1>2
  <2>2. Sum(A) = f[c] + Sum(A \ {c}) /\ Sum(A \ {c}) = Sum((A \ {c}) \cap R)
    BY <1>0, <1>2, <2>1, SumAny
  <2>3. CASE c \in R
    <3>1. PICK B : B = (A \cap R) \ {c}
      OBVIOUS
    <3>2. (A \ {c}) \cap R = B
      BY <3>1
    <3>3. A \cap R \in SUBSET S /\ c \in A \cap R
      BY <2>1, <2>3
    <3>4. Sum(A \cap R) = f[c] + Sum((A \cap R) \ {c})
      BY <1>0, <3>3, SumAny
    <3>5. Sum(A \cap R) = f[c] + Sum(B)
      BY <3>1, <3>4
    <3>6. Sum(A) = f[c] + Sum(B)
      BY <2>2, <3>2
    <3> QED
      BY <3>5, <3>6
  <2>4. CASE c \notin R
    <3>1. PICK B : B = A \cap R
      OBVIOUS
    <3>2. (A \ {c}) \cap R = B
      BY <2>4, <3>1
    <3>3. B \in SUBSET S /\ f[c] = 0
      BY <1>2, <2>1, <2>4, <3>1
    <3>4. Sum(B) \in Int
      BY <1>0, <3>3
    <3>5. Sum(A) = f[c] + Sum(B)
      BY <2>2, <3>2
    <3>6. Sum(A) = Sum(B)
      <4> HIDE DEF Sum
      <4> QED
        BY <3>3, <3>4, <3>5
    <3> QED
      BY <3>1, <3>6
  <2> QED
    BY <2>3, <2>4
<1>3. good \in SUBSET SUBSET S
  OBVIOUS
<1>4. S \in good
  <2> HIDE DEF good
  <2> QED
    BY <1>1, <1>2, <1>3, InductionOverSubsets
<1>5. S \cap R = R
  OBVIOUS
<1> QED
  BY <1>4, <1>5

\* Each value finds a larger one of its own in the other sum.
LEMMA SumInjective ==
  ASSUME NEW S, IsFiniteSet(S), NEW T, IsFiniteSet(T), NEW h \in [S -> T],
         \A x, y \in S : x # y => h[x] # h[y],
         NEW f, NEW g, \A x \in S : f[x] \in Nat /\ f[x] <= g[h[x]], \A y \in T : g[y] \in Nat
  PROVE  SumFunctionOnSet(f, S) <= SumFunctionOnSet(g, T)
<1> DEFINE Holds(A, B) == (\A x \in A : h[x] \in B) => SumFunctionOnSet(f, A) <= SumFunctionOnSet(g, B)
           good == {A \in SUBSET S : \A B \in SUBSET T : Holds(A, B)}
<1>0. /\ \A A \in SUBSET S : IsFiniteSet(A) /\ SumFunctionOnSet(f, A) \in Nat
      /\ \A B \in SUBSET T : IsFiniteSet(B) /\ SumFunctionOnSet(g, B) \in Nat
  BY FS_Subset, SumNat
<1>1. {} \in good
  <2>1. \A B \in SUBSET T : SumFunctionOnSet(f, {}) <= SumFunctionOnSet(g, B)
    BY <1>0, SumNone
  <2> QED
    BY <2>1
<1>2. ASSUME NEW A \in SUBSET S, A # {}, \A x \in A : A \ {x} \in good
      PROVE  A \in good
  <2>1. ASSUME NEW B \in SUBSET T, \A x \in A : h[x] \in B
        PROVE  SumFunctionOnSet(f, A) <= SumFunctionOnSet(g, B)
    <3>1. PICK c : c \in A
      BY <1>2
    <3>2. PICK d : d = h[c] /\ d \in B
      BY <2>1, <3>1
    <3>3. \A x \in A \ {c} : h[x] \in B \ {d}
      BY <1>2, <2>1, <3>1, <3>2
    <3>4. SumFunctionOnSet(f, A \ {c}) <= SumFunctionOnSet(g, B \ {d})
      BY <1>2, <2>1, <3>1, <3>3
    <3>5. SumFunctionOnSet(f, A) = f[c] + SumFunctionOnSet(f, A \ {c})
      <4>1. \A x \in A : f[x] \in Int
        OBVIOUS
      <4> QED
        BY <1>0, <3>1, <4>1, SumAny
    <3>6. SumFunctionOnSet(g, B) = g[d] + SumFunctionOnSet(g, B \ {d})
      <4>1. \A x \in B : g[x] \in Int
        OBVIOUS
      <4> QED
        BY <1>0, <3>2, <4>1, SumAny
    <3>7. /\ SumFunctionOnSet(f, A \ {c}) \in Nat /\ SumFunctionOnSet(g, B \ {d}) \in Nat
          /\ f[c] \in Nat /\ g[d] \in Nat /\ f[c] <= g[d]
      BY <1>0, <3>1, <3>2
    <3> QED
      BY <3>4, <3>5, <3>6, <3>7
  <2> QED
    BY <2>1
<1>3. good \in SUBSET SUBSET S
  OBVIOUS
<1>4. S \in good
  <2> HIDE DEF good
  <2> QED
    BY <1>1, <1>2, <1>3, InductionOverSubsets
<1>5. \A x \in S : h[x] \in T
  OBVIOUS
<1> QED
  BY <1>4, <1>5

\* The values may be added up class by class.
LEMMA SumByClass ==
  ASSUME NEW S, IsFiniteSet(S), NEW B, IsFiniteSet(B), NEW c \in [S -> B],
         NEW f, \A x \in S : f[x] \in Int
  PROVE  SumFunctionOnSet(f, S) =
           SumFunctionOnSet([b \in B |-> SumFunctionOnSet(f, {x \in S : c[x] = b})], B)
<1> DEFINE Class(A, b) == {x \in A : c[x] = b}
           Parts(A) == [b \in B |-> SumFunctionOnSet(f, Class(A, b))]
           good == {A \in SUBSET S : SumFunctionOnSet(f, A) = SumFunctionOnSet(Parts(A), B)}
<1>0. \A A \in SUBSET S : IsFiniteSet(A) /\ SumFunctionOnSet(f, A) \in Int
  BY FS_Subset, SumInt
<1>1. {} \in good
  <2>1. PICK p : p = Parts({})
    OBVIOUS
  <2>2. ASSUME NEW b \in B PROVE p[b] = 0
    <3>1. Class({}, b) = {}
      OBVIOUS
    <3> QED
      BY <2>1, <3>1, SumNone
  <2>3. SumFunctionOnSet(p, B) = 0
    BY <2>2, SumOfNothing
  <2> QED
    BY <2>1, <2>3, SumNone
<1>2. ASSUME NEW A \in SUBSET S, A # {}, \A x \in A : A \ {x} \in good
      PROVE  A \in good
  <2>1. PICK y : y \in A
    BY <1>2
  <2>2. PICK R : R = A \ {y} /\ R \in good
    BY <1>2, <2>1
  <2>3. PICK p : p = Parts(R)
    OBVIOUS
  <2>4. PICK q : q = Parts(A)
    OBVIOUS
  <2>5. SumFunctionOnSet(f, R) = SumFunctionOnSet(p, B) /\ R \in SUBSET S
    BY <2>2, <2>3
  <2>6. PICK z : z = c[y] /\ z \in B
    BY <1>2, <2>1
  <2>7. \A b \in B : p[b] \in Int /\ q[b] \in Int
    <3>1. \A b \in B : Class(R, b) \in SUBSET S /\ Class(A, b) \in SUBSET S
      BY <2>5
    <3> QED
      BY <1>0, <2>3, <2>4, <3>1
  <2>8. ASSUME NEW b \in B \ {z} PROVE p[b] = q[b]
    <3>1. Class(R, b) = Class(A, b)
      BY <2>2, <2>6, <2>8
    <3> QED
      BY <2>3, <2>4, <3>1
  <2>9. q[z] = f[y] + p[z]
    <3>1. PICK K : K = Class(A, z)
      OBVIOUS
    <3>2. Class(R, z) = K \ {y} /\ K \in SUBSET S /\ y \in K
      BY <2>1, <2>2, <2>6, <3>1
    <3>3. SumFunctionOnSet(f, K) = f[y] + SumFunctionOnSet(f, K \ {y})
      <4>1. IsFiniteSet(K) /\ \A x \in K : f[x] \in Int
        BY <1>0, <3>2
      <4> QED
        BY <3>2, <4>1, SumAny
    <3>4. q[z] = SumFunctionOnSet(f, K) /\ p[z] = SumFunctionOnSet(f, K \ {y})
      BY <2>3, <2>4, <2>6, <3>1, <3>2
    <3> QED
      BY <3>3, <3>4
  <2>10. SumFunctionOnSet(q, B) = SumFunctionOnSet(p, B) - p[z] + q[z]
    BY <2>6, <2>7, <2>8, SumUpdate
  <2>11. SumFunctionOnSet(f, A) = f[y] + SumFunctionOnSet(f, R)
    <3>1. \A x \in A : f[x] \in Int
      OBVIOUS
    <3> QED
      BY <1>0, <2>1, <2>2, <3>1, SumAny
  <2>12. SumFunctionOnSet(f, A) = SumFunctionOnSet(q, B)
    <3>1. PICK s : s = SumFunctionOnSet(p, B) /\ s \in Int
      BY <1>0, <2>5
    <3>2. f[y] \in Int /\ p[z] \in Int
      BY <2>1, <2>6, <2>7
    <3> QED
      BY <2>5, <2>9, <2>10, <2>11, <3>1, <3>2
  <2> QED
    BY <2>4, <2>12
<1>3. good \in SUBSET SUBSET S
  OBVIOUS
<1>4. S \in good
  <2> HIDE DEF good
  <2> QED
    BY <1>1, <1>2, <1>3, InductionOverSubsets
<1> QED
  BY <1>4
=============================================================================
