--------------------------- MODULE Background_proofs ----------------------------
(***************************************************************************)
(* Proofs about what runs in the background.  The account patrol: its rows  *)
(* tell the truth, and no account is disabled or deleted before it has      *)
(* failed often enough.  Notifier and daily report: the counters account    *)
(* for every event, and a date is delivered once.  Redistribution batches:  *)
(* cancelled ones stay empty, finished ones account for what they took, and *)
(* the pool shows no more than that.                                        *)
(***************************************************************************)
EXTENDS Patrol, Alerts, Batch, FiniteSetTheorems, SequenceTheorems, WellFoundedInduction, TLAPS

RunFields == {"at", "id", "rt", "groups", "list", "stats"}

RunOK(r) ==
    \/ r = NoRun
    \/ r = [f \in RunFields |-> r[f]] /\ r.at \in {"list", "work"} /\ r.rt \in Offered

CallerOK(c) ==
    \/ c = Idle
    \/ c = [f \in {"at", "rt"} |-> c[f]] /\ c.at \in {"lock", "insert"} /\ c.rt \in Offered

\* The guard is taken by one that inserts its row or by the run, and by no two.
Guarded ==
    /\ settings \in Offered
    /\ callers = [c \in Callers |-> callers[c]]
    /\ \A c \in Callers : CallerOK(callers[c])
    /\ \A c \in Callers : callers[c].at = "insert" => running /\ run = NoRun
    /\ \A b, c \in Callers : callers[b].at = "insert" /\ callers[c].at = "insert" => b = c
    /\ RunOK(run)
    /\ run # NoRun => running

EndingOK(e, n) ==
    /\ e.id \in 1..n
    /\ e.status \in {"success", "stopped", "failed"}
    /\ run # NoRun => e.id # n

\* Rows are filled one after the other, the last is that of the run.
Filled(n) ==
    /\ \A i \in Ids : rows[i] # "none" <=> i <= n
    /\ run # NoRun => run.id = n /\ n \in Ids /\ rows[n] = "running"
    /\ \A e \in ending : EndingOK(e, n)

RowInv ==
    /\ Guarded
    /\ rows = [i \in Ids |-> rows[i]]
    /\ \E n \in 0..MaxRuns : Filled(n)
    /\ RowsTellTheTruth

\* What a worker holds of an account.
WorkerOK(r) ==
    \/ r.at \in {"idle", "loop", "done"} /\ r = [at |-> r.at]
    \/ r.at \in {"check", "test"} /\ r = [f \in {"at", "acct", "tested", "ok"} |-> r[f]] /\ r.acct \in Accounts
    \/ r.at \in {"reset", "enable", "escalate", "dispose"} /\ r = [f \in {"at", "acct"} |-> r[f]] /\ r.acct \in Accounts

Holds(r, a) == r.at \notin {"idle", "loop", "done"} /\ r.acct = a

\* The account is still to be counted in this run.
Uncounted(r, a) == r.at \in {"check", "test", "escalate"} /\ r.acct = a

Once(list) == \A i, j \in DOMAIN list : list[i] = list[j] => i = j

Shared ==
    /\ run.list \in Seq(Accounts)
    /\ run.at = "list" => run.groups \in Seq(SUBSET Accounts)
    /\ run.at = "work" =>
          /\ Once(run.list)
          /\ \A w \in Workers : \A i \in DOMAIN run.list : ~Holds(workers[w], run.list[i])
          /\ \A v, w \in Workers : \A a \in Accounts : Holds(workers[v], a) /\ Holds(workers[w], a) => v = w

\* A failure of an account not yet looked at is not yet counted; one that is to
\* be acted on has failed often enough.
Fresh(a) == run.id \notin fails[a]

Counted ==
    /\ run.at = "list" => \A a \in Accounts : Fresh(a)
    /\ run.at = "work" =>
          /\ \A i \in DOMAIN run.list : Fresh(run.list[i])
          /\ \A w \in Workers : \A a \in Accounts :
                /\ Uncounted(workers[w], a) => Fresh(a)
                /\ workers[w].at = "dispose" /\ workers[w].acct = a
                      => Cardinality(fails[a]) >= run.rt.threshold \/ a \in unreset

StreakOK(a) ==
    /\ streak[a] \in Nat
    /\ IsFiniteSet(fails[a])
    /\ \A i \in fails[a] : i \in Nat /\ \A n \in Ids : (rows[n] = "none" => i < n)
    /\ a \notin unreset => streak[a] <= Cardinality(fails[a])

StreakInv ==
    /\ workers = [w \in Workers |-> workers[w]]
    /\ \A w \in Workers : WorkerOK(workers[w])
    /\ run.at # "work" => \A w \in Workers : workers[w].at = "idle"
    /\ run # NoRun => Shared /\ Counted
    /\ streak = [a \in Accounts |-> streak[a]] /\ fails = [a \in Accounts |-> fails[a]]
    /\ \A a \in Accounts : StreakOK(a)

-----------------------------------------------------------------------------
(***************************************************************************)
(* Rows.                                                                    *)
(***************************************************************************)
LEMMA IdsAre == Ids \subseteq Nat /\ IsFiniteSet(Ids) /\ \A i : i \in Ids <=> i \in Nat /\ 1 <= i /\ i <= MaxRuns
  BY PatrolAssumption, FS_Interval DEF Ids

LEMMA NextIdIs ==
  ASSUME NEW n \in 0..MaxRuns, \A i \in Ids : rows[i] # "none" <=> i <= n
  PROVE  NextId = n + 1
<1>1. PICK S : S = {i \in Ids : rows[i] # "none"}
  OBVIOUS
<1>2. S = 1..n
  BY <1>1, PatrolAssumption DEF Ids
<1>3. Cardinality(1..n) = n
  BY PatrolAssumption, FS_Interval
<1>4. Cardinality(S) = n
  BY <1>2, <1>3
<1>5. NextId = 1 + Cardinality(S)
  BY <1>1 DEF NextId
<1> QED
  BY <1>4, <1>5

\* Trimming keeps the last row and never brings one back.
LEMMA TrimFacts ==
  ASSUME NEW M
  PROVE  /\ Trimmed(M) = [i \in Ids |-> Trimmed(M)[i]]
         /\ \A i \in Ids : Trimmed(M)[i] = M[i] \/ (Trimmed(M)[i] = "trimmed" /\ M[i] # "none")
         /\ \A n \in Ids : (\A i \in Ids : i > n => M[i] = "none") => Trimmed(M)[n] = M[n]
<1>1. ASSUME NEW n \in Ids, \A i \in Ids : i > n => M[i] = "none"
      PROVE  Trimmed(M)[n] = M[n]
  <2>1. PICK S : S = {j \in Ids : j > n /\ M[j] # "none"}
    OBVIOUS
  <2>2. S = {}
    BY <1>1, <2>1
  <2>3. Cardinality(S) = 0 /\ 0 < KeepRuns
    BY <2>2, FS_EmptySet, PatrolAssumption
  <2>4. n \in Kept(M)
    BY <2>1, <2>3 DEF Kept
  <2> QED
    BY <2>4 DEF Trimmed
<1>2. PICK K : K = Kept(M)
  OBVIOUS
<1>3. Trimmed(M) = [i \in Ids |-> IF M[i] = "none" \/ i \in K THEN M[i] ELSE "trimmed"]
  BY <1>2 DEF Trimmed
<1>4. Trimmed(M) = [i \in Ids |-> Trimmed(M)[i]]
  BY <1>3
<1>5. \A i \in Ids : Trimmed(M)[i] = M[i] \/ (Trimmed(M)[i] = "trimmed" /\ M[i] # "none")
  BY <1>3
<1> QED
  BY <1>1, <1>4, <1>5

\* Nothing happens to runs, rows and the guard.
LEMMA RowsUnmoved ==
  ASSUME RowInv, UNCHANGED <<settings, callers, running, run, ending, rows, unwritten>>
  PROVE  RowInv'
<1>1. Guarded'
  BY DEF RowInv, Guarded
<1>2. \A n : Filled(n) => Filled(n)'
  BY DEF Filled, EndingOK
<1>3. RowsTellTheTruth'
  BY DEF RowInv, RowsTellTheTruth
<1> QED
  BY <1>1, <1>2, <1>3 DEF RowInv

\* The run goes on.
LEMMA RunGoesOn ==
  ASSUME RowInv, run # NoRun, NEW r, run' = r, r # NoRun, RunOK(r), r.id = run.id,
         UNCHANGED <<settings, callers, running, ending, rows, unwritten>>
  PROVE  RowInv'
<1>1. Guarded'
  BY DEF RowInv, Guarded
<1>2. \A n : Filled(n) => Filled(n)'
  BY DEF Filled, EndingOK
<1>3. RowsTellTheTruth'
  BY DEF RowInv, RowsTellTheTruth
<1> QED
  BY <1>1, <1>2, <1>3 DEF RowInv

LEMMA RunEnds ==
  ASSUME RowInv, run # NoRun, NEW status \in {"success", "stopped", "failed"}, NEW stats,
         FinishAs(status, stats), UNCHANGED <<settings, callers, rows, unwritten>>
  PROVE  RowInv'
<1>1. PICK e : e = [id |-> run.id, status |-> status, stats |-> stats]
  OBVIOUS
<1>2. running' = FALSE /\ ending' = ending \cup {e} /\ run' = NoRun
  BY <1>1 DEF FinishAs
<1>3. Guarded'
  <2>1. \A c \in Callers : callers[c].at # "insert"
    BY DEF RowInv, Guarded
  <2> QED
    BY <1>2, <2>1 DEF RowInv, Guarded, RunOK
<1>4. ASSUME NEW n \in 0..MaxRuns, Filled(n)
      PROVE  Filled(n)'
  <2>1. e.id = run.id /\ e.status = status /\ run.id = n /\ n \in Ids
    BY <1>1, <1>4 DEF Filled
  <2>2. EndingOK(e, n)'
    BY <1>2, <2>1, IdsAre DEF EndingOK
  <2> QED
    BY <1>2, <1>4, <2>2 DEF Filled, EndingOK
<1>5. RowsTellTheTruth'
  <2>1. e.id = run.id
    BY <1>1
  <2> QED
    BY <1>2, <2>1 DEF RowInv, RowsTellTheTruth
<1> QED
  BY <1>3, <1>4, <1>5 DEF RowInv

LEMMA AskKeeps == ASSUME RowInv, NEW c \in Callers, Ask(c) PROVE RowInv'
<1>1. PICK x : x = [at |-> "lock", rt |-> settings]
  OBVIOUS
<1>2. callers' = [callers EXCEPT ![c] = x] /\ UNCHANGED <<settings, running, run, ending, rows, unwritten>>
  BY <1>1 DEF Ask, runVars, historyVars
<1>3. CallerOK(x) /\ x.at = "lock"
  BY <1>1 DEF RowInv, Guarded, CallerOK
<1>4. Guarded'
  BY <1>2, <1>3 DEF RowInv, Guarded
<1>5. \A n : Filled(n) => Filled(n)'
  BY <1>2 DEF Filled, EndingOK
<1>6. RowsTellTheTruth'
  BY <1>2 DEF RowInv, RowsTellTheTruth
<1> QED
  BY <1>2, <1>4, <1>5, <1>6 DEF RowInv

LEMMA LockKeeps == ASSUME RowInv, NEW c \in Callers, Lock(c) PROVE RowInv'
<1>1. PICK x : x = [callers[c] EXCEPT !.at = "insert"]
  OBVIOUS
<1>2. CallerOK(callers[c]) /\ callers[c].at = "lock"
  BY DEF Lock, RowInv, Guarded
<1>3. CallerOK(x) /\ x.at = "insert"
  BY <1>1, <1>2 DEF CallerOK, Idle
<1>4. Idle.at = "idle" /\ CallerOK(Idle)
  BY DEF Idle, CallerOK
<1>5. /\ UNCHANGED <<settings, run, ending, rows, unwritten>>
      /\ \/ running /\ callers' = [callers EXCEPT ![c] = Idle] /\ UNCHANGED running
         \/ ~running /\ callers' = [callers EXCEPT ![c] = x] /\ running' = TRUE
  BY <1>1 DEF Lock, runVars, historyVars
<1>6. Guarded'
  <2>1. CASE running
    BY <1>4, <1>5, <2>1 DEF RowInv, Guarded
  <2>2. CASE ~running
    <3>1. run = NoRun /\ \A b \in Callers : callers[b].at # "insert"
      BY <2>2 DEF RowInv, Guarded
    <3> QED
      BY <1>3, <1>5, <2>2, <3>1 DEF RowInv, Guarded
  <2> QED
    BY <2>1, <2>2
<1>7. \A n : Filled(n) => Filled(n)'
  BY <1>5 DEF Filled, EndingOK
<1>8. RowsTellTheTruth'
  BY <1>5 DEF RowInv, RowsTellTheTruth
<1> QED
  BY <1>5, <1>6, <1>7, <1>8 DEF RowInv

LEMMA InsertKeeps == ASSUME RowInv, NEW c \in Callers, InsertRun(c) PROVE RowInv'
<1>1. PICK n \in 0..MaxRuns : Filled(n)
  BY DEF RowInv
<1>2. NextId = n + 1 /\ n + 1 \in Ids
  BY <1>1, NextIdIs DEF Filled, InsertRun
<1>3. PICK r : r = [at |-> "list", id |-> n + 1, rt |-> callers[c].rt, groups |-> Groups,
                    list |-> <<>>, stats |-> NoStats]
  OBVIOUS
<1>4. /\ rows' = [rows EXCEPT ![n + 1] = "running"]
      /\ run' = r
      /\ callers' = [callers EXCEPT ![c] = Idle]
      /\ UNCHANGED <<settings, running, ending, unwritten>>
      /\ callers[c].at = "insert"
  BY <1>2, <1>3 DEF InsertRun, historyVars
<1>5. running /\ run = NoRun /\ callers[c].rt \in Offered
  BY <1>4 DEF RowInv, Guarded, CallerOK, Idle
<1>6. r.at = "list" /\ r.id = n + 1 /\ r.rt \in Offered /\ r = [f \in RunFields |-> r[f]] /\ r # NoRun
  BY <1>3, <1>5 DEF RunFields, NoRun
<1>7. Idle.at = "idle" /\ CallerOK(Idle)
  BY DEF Idle, CallerOK
<1>8. Guarded'
  <2>1. \A b \in Callers : callers'[b].at # "insert"
    BY <1>4, <1>7 DEF RowInv, Guarded
  <2>2. RunOK(run)'
    BY <1>4, <1>6 DEF RunOK
  <2> QED
    BY <1>4, <1>5, <1>7, <2>1, <2>2 DEF RowInv, Guarded
<1>9. /\ rows' = [i \in Ids |-> rows'[i]] /\ rows'[n + 1] = "running"
      /\ \A i \in Ids : i # n + 1 => rows'[i] = rows[i]
  BY <1>2, <1>4 DEF RowInv
<1>10. Filled(n + 1)'
  <2>1. \A i \in Ids : rows'[i] # "none" <=> i <= n + 1
    BY <1>1, <1>2, <1>9, IdsAre DEF Filled
  <2>2. \A e \in ending' : EndingOK(e, n + 1)'
    BY <1>1, <1>4 DEF Filled, EndingOK
  <2> QED
    BY <1>2, <1>4, <1>6, <1>9, <2>1, <2>2 DEF Filled
<1>11. n + 1 \in 0..MaxRuns
  BY <1>2, IdsAre, PatrolAssumption
<1>12. RowsTellTheTruth'
  <2>1. ASSUME NEW i \in Ids
        PROVE  /\ (run # NoRun /\ run.id = i)' => rows'[i] = "running"
               /\ rows'[i] = "running" => \/ i \in unwritten' \/ (run # NoRun /\ run.id = i)'
                                          \/ \E e \in ending' : e.id = i
    <3>1. CASE i = n + 1
      BY <1>4, <1>6, <1>9, <3>1
    <3>2. CASE i # n + 1
      BY <1>4, <1>5, <1>6, <1>9, <3>2 DEF RowInv, RowsTellTheTruth
    <3> QED
      BY <3>1, <3>2
  <2> QED
    BY <2>1 DEF RowsTellTheTruth
<1> QED
  BY <1>8, <1>9, <1>10, <1>11, <1>12 DEF RowInv

LEMMA InsertFailsKeeps == ASSUME RowInv, NEW c \in Callers, InsertFails(c) PROVE RowInv'
<1>1. /\ callers[c].at = "insert" /\ running' = FALSE /\ callers' = [callers EXCEPT ![c] = Idle]
      /\ UNCHANGED <<settings, run, ending, rows, unwritten>>
  BY DEF InsertFails, AfterFailedInsert, runVars
<1>2. run = NoRun
  BY <1>1 DEF RowInv, Guarded
<1>3. Idle.at = "idle" /\ CallerOK(Idle)
  BY DEF Idle, CallerOK
<1>4. \A b \in Callers : callers'[b].at # "insert"
  BY <1>1, <1>3 DEF RowInv, Guarded
<1>5. Guarded'
  BY <1>1, <1>2, <1>3, <1>4 DEF RowInv, Guarded
<1>6. \A n : Filled(n) => Filled(n)'
  BY <1>1 DEF Filled, EndingOK
<1>7. RowsTellTheTruth'
  BY <1>1 DEF RowInv, RowsTellTheTruth
<1> QED
  BY <1>1, <1>5, <1>6, <1>7 DEF RowInv

\* A row is written that is not the run's; then rows are trimmed, or not.
LEMMA PersistKeeps == ASSUME RowInv, NEW e \in ending, Persist(e) PROVE RowInv'
<1>1. PICK n \in 0..MaxRuns : Filled(n)
  BY DEF RowInv
<1>2. PICK W : W = IF rows[e.id] = "trimmed" THEN rows ELSE [rows EXCEPT ![e.id] = e.status]
  OBVIOUS
<1>3. /\ ending' = ending \ {e}
      /\ UNCHANGED <<settings, callers, running, run>>
      /\ \/ rows' = Trimmed(W) /\ UNCHANGED unwritten
         \/ rows' \in {rows, Trimmed(rows)} /\ unwritten' = unwritten \cup {e.id}
  BY <1>2 DEF Persist, runVars, historyVars
<1>4. e.id \in Ids /\ e.id <= n /\ e.status \in {"success", "stopped", "failed"} /\ (run # NoRun => e.id # n)
  BY <1>1, IdsAre, PatrolAssumption DEF Filled, EndingOK
<1>5. /\ W = [i \in Ids |-> W[i]]
      /\ \A i \in Ids : i # e.id => W[i] = rows[i]
      /\ W[e.id] \notin {"none", "running"}
  BY <1>1, <1>2, <1>4 DEF RowInv, Filled
<1>6. PICK M : /\ rows' = M /\ M = [i \in Ids |-> M[i]]
               /\ \A i \in Ids : M[i] # "none" <=> i <= n
               /\ run # NoRun => M[n] = "running"
               /\ \A i \in Ids : M[i] = "running" => rows[i] = "running"
               /\ M[e.id] = "running" => e.id \in unwritten'
               /\ \A i \in Ids : i \in unwritten => i \in unwritten'
  <2>1. ASSUME NEW V, V = [i \in Ids |-> V[i]], \A i \in Ids : V[i] # "none" <=> i <= n,
               run # NoRun => V[n] = "running", NEW T, T = Trimmed(V)
        PROVE  /\ T = [i \in Ids |-> T[i]] /\ \A i \in Ids : T[i] # "none" <=> i <= n
               /\ run # NoRun => T[n] = "running"
               /\ \A i \in Ids : T[i] = "running" => V[i] = "running"
    <3>1. T = [i \in Ids |-> T[i]] /\ \A i \in Ids : T[i] = V[i] \/ (T[i] = "trimmed" /\ V[i] # "none")
      BY <2>1, TrimFacts
    <3>2. \A i \in Ids : i > n => V[i] = "none"
      BY <2>1, IdsAre
    <3>3. n \in Ids => T[n] = V[n]
      BY <2>1, <3>2, TrimFacts
    <3> QED
      BY <1>1, <2>1, <3>1, <3>3 DEF Filled
  <2>2. /\ \A i \in Ids : W[i] # "none" <=> i <= n
        /\ run # NoRun => W[n] = "running"
        /\ \A i \in Ids : W[i] = "running" => rows[i] = "running" /\ i # e.id
    BY <1>1, <1>4, <1>5 DEF Filled
  <2>3. CASE rows' = Trimmed(W) /\ UNCHANGED unwritten
    <3>1. PICK T : T = Trimmed(W)
      OBVIOUS
    <3>2. /\ T = [i \in Ids |-> T[i]] /\ \A i \in Ids : T[i] # "none" <=> i <= n
          /\ run # NoRun => T[n] = "running"
          /\ \A i \in Ids : T[i] = "running" => W[i] = "running"
      BY <1>5, <2>1, <2>2, <3>1
    <3>3. rows' = T /\ unwritten' = unwritten
      BY <2>3, <3>1
    <3> QED
      BY <1>4, <2>2, <3>2, <3>3
  <2>4. CASE rows' \in {rows, Trimmed(rows)} /\ unwritten' = unwritten \cup {e.id}
    <3>1. PICK T : T = Trimmed(rows)
      OBVIOUS
    <3>2. rows = [i \in Ids |-> rows[i]] /\ (\A i \in Ids : rows[i] # "none" <=> i <= n)
          /\ (run # NoRun => rows[n] = "running")
      BY <1>1 DEF RowInv, Filled
    <3>3. /\ T = [i \in Ids |-> T[i]] /\ \A i \in Ids : T[i] # "none" <=> i <= n
          /\ run # NoRun => T[n] = "running"
          /\ \A i \in Ids : T[i] = "running" => rows[i] = "running"
      BY <2>1, <3>1, <3>2
    <3>4. rows' = rows \/ rows' = T
      BY <2>4, <3>1
    <3> QED
      BY <2>4, <3>2, <3>3, <3>4
  <2> QED
    BY <1>3, <2>3, <2>4
<1>7. Guarded'
  BY <1>3 DEF RowInv, Guarded
<1>8. Filled(n)'
  BY <1>1, <1>3, <1>6 DEF Filled, EndingOK
<1>9. RowsTellTheTruth'
  <2>1. ASSUME NEW i \in Ids
        PROVE  /\ run # NoRun /\ run.id = i => M[i] = "running"
               /\ M[i] = "running" => \/ i \in unwritten' \/ (run # NoRun /\ run.id = i)
                                      \/ \E x \in ending \ {e} : x.id = i
    <3>1. run # NoRun /\ run.id = i => M[i] = "running"
      BY <1>1, <1>6 DEF Filled
    <3>2. SUFFICES ASSUME M[i] = "running"
                   PROVE  \/ i \in unwritten' \/ (run # NoRun /\ run.id = i)
                          \/ \E x \in ending \ {e} : x.id = i
      BY <3>1
    <3>3. CASE i = e.id
      BY <1>6, <3>2, <3>3
    <3>4. CASE i # e.id
      BY <1>6, <3>2, <3>4 DEF RowInv, RowsTellTheTruth
    <3> QED
      BY <3>3, <3>4
  <2> QED
    BY <1>3, <1>6, <2>1 DEF RowsTellTheTruth
<1> QED
  BY <1>6, <1>7, <1>8, <1>9 DEF RowInv

LEMMA CrashKeeps == ASSUME RowInv, Crash PROVE RowInv'
<1>1. /\ callers' = [c \in Callers |-> Idle] /\ running' = FALSE /\ run' = NoRun /\ ending' = {}
      /\ UNCHANGED <<settings, rows>>
      /\ unwritten' = unwritten \cup {e.id : e \in ending} \cup (IF run = NoRun THEN {} ELSE {run.id})
  BY DEF Crash
<1>2. Idle.at = "idle" /\ CallerOK(Idle)
  BY DEF Idle, CallerOK
<1>3. Guarded'
  BY <1>1, <1>2 DEF RowInv, Guarded, RunOK
<1>4. \A n : Filled(n) => Filled(n)'
  BY <1>1 DEF Filled, EndingOK
<1>5. RowsTellTheTruth'
  BY <1>1 DEF RowInv, RowsTellTheTruth
<1> QED
  BY <1>1, <1>3, <1>4, <1>5 DEF RowInv

-----------------------------------------------------------------------------
(***************************************************************************)
(* Runs and workers.                                                        *)
(***************************************************************************)
\* The run of a step that leaves it at work: another list or other statistics.
RunWith(at, g, l, st) == [run EXCEPT !.at = at, !.groups = g, !.list = l, !.stats = st]

LEMMA NextRun ==
  ASSUME RunOK(run), run # NoRun, NEW at \in {"list", "work"}, NEW g, NEW l, NEW st, NEW r,
         r = RunWith(at, g, l, st)
  PROVE  /\ r # NoRun /\ RunOK(r) /\ r.id = run.id /\ r.rt = run.rt
         /\ r.at = at /\ r.list = l /\ r.groups = g
<1>1. run = [f \in RunFields |-> run[f]]
  BY DEF RunOK
<1>2. r = [f \in RunFields |-> r[f]] /\ r.id = run.id /\ r.rt = run.rt /\ r.at = at /\ r.list = l /\ r.groups = g
  BY <1>1 DEF RunFields, RunWith
<1> QED
  BY <1>2 DEF RunOK, NoRun

\* What a worker's step does to the run: the next account is taken or none, and
\* the statistics change.
LEMMA WorkerRun ==
  ASSUME RunOK(run), NEW w \in Workers, WorkerStep(w)
  PROVE  /\ run # NoRun /\ run.at = "work"
         /\ \E r : /\ run' = r /\ r # NoRun /\ RunOK(r) /\ r.id = run.id /\ r.rt = run.rt /\ r.at = "work"
                   /\ \/ r.list = run.list
                      \/ workers[w].at = "loop" /\ run.list # <<>> /\ r.list = Tail(run.list)
         /\ UNCHANGED <<settings, callers, running, ending, rows, unwritten>>
<1>1. run # NoRun /\ run.at = "work" /\ UNCHANGED <<settings, callers, running, ending, rows, unwritten>>
  BY DEF WorkerStep, NextAccount, Check, Test, ResetOk, Enable, Escalate, Dispose, At, NoRun, historyVars
<1>2. run = [f \in RunFields |-> run[f]]
  BY <1>1 DEF RunOK
<1>3. ASSUME NEW l, NEW st, run' = [run EXCEPT !.list = l, !.stats = st],
             l = run.list \/ (workers[w].at = "loop" /\ run.list # <<>> /\ l = Tail(run.list))
      PROVE  \E r : /\ run' = r /\ r # NoRun /\ RunOK(r) /\ r.id = run.id /\ r.rt = run.rt /\ r.at = "work"
                    /\ \/ r.list = run.list
                       \/ workers[w].at = "loop" /\ run.list # <<>> /\ r.list = Tail(run.list)
  <2>1. PICK r : r = run'
    OBVIOUS
  <2>2. r = RunWith("work", run.groups, l, st)
    BY <1>1, <1>2, <1>3, <2>1 DEF RunFields, RunWith
  <2>3. r # NoRun /\ RunOK(r) /\ r.id = run.id /\ r.rt = run.rt /\ r.at = "work" /\ r.list = l
    BY <1>1, <2>2, NextRun
  <2> QED
    BY <1>3, <2>1, <2>3
<1>4. \E l, st : /\ run' = [run EXCEPT !.list = l, !.stats = st]
                 /\ l = run.list \/ (workers[w].at = "loop" /\ run.list # <<>> /\ l = Tail(run.list))
  <2>1. ASSUME run' = run
        PROVE  run' = [run EXCEPT !.list = run.list, !.stats = run.stats]
    BY <1>2, <2>1 DEF RunFields
  <2>2. ASSUME NEW st, run' = [run EXCEPT !.stats = st]
        PROVE  run' = [run EXCEPT !.list = run.list, !.stats = st]
    BY <1>2, <2>2 DEF RunFields
  <2>3. ASSUME NEW counter, CheckedAs(w, counter)
        PROVE  \E st : run' = [run EXCEPT !.stats = st]
    BY <2>3 DEF CheckedAs
  <2>4. ASSUME CheckedAfter(w)
        PROVE  \E st : run' = [run EXCEPT !.stats = st]
    BY <2>4 DEF CheckedAfter
  <2>5. CASE NextAccount(w)
    <3>1. workers[w].at = "loop"
      BY <2>5 DEF NextAccount, At
    <3>2. CASE stop \/ run.list = <<>>
      BY <2>1, <2>5, <3>2 DEF NextAccount
    <3>3. CASE ~(stop \/ run.list = <<>>)
      <4>1. PICK l : l = Tail(run.list)
        OBVIOUS
      <4>2. \/ run' = [run EXCEPT !.list = l, !.stats = CheckedIn(@, "skipped")]
            \/ run' = [run EXCEPT !.stats.failed = @ + 1, !.list = l]
            \/ run' = [run EXCEPT !.list = l]
        BY <2>5, <3>3, <4>1 DEF NextAccount, Failing
      <4>3. \E st : run' = [run EXCEPT !.list = l, !.stats = st]
        <5>1. CASE run' = [run EXCEPT !.list = l, !.stats = CheckedIn(@, "skipped")]
          <6>1. run' = [run EXCEPT !.list = l, !.stats = CheckedIn(run.stats, "skipped")]
            BY <1>2, <5>1 DEF RunFields
          <6> QED
            BY <6>1
        <5>2. CASE run' = [run EXCEPT !.stats.failed = @ + 1, !.list = l]
          <6>1. PICK s : s = [run.stats EXCEPT !.failed = @ + 1]
            OBVIOUS
          <6>2. run' = [run EXCEPT !.list = l, !.stats = s]
            BY <1>2, <5>2, <6>1 DEF RunFields
          <6> QED
            BY <6>2
        <5>3. CASE run' = [run EXCEPT !.list = l]
          <6>1. run' = [run EXCEPT !.list = l, !.stats = run.stats]
            BY <1>2, <5>3 DEF RunFields
          <6> QED
            BY <6>1
        <5> QED
          BY <4>2, <5>1, <5>2, <5>3
      <4> QED
        BY <3>1, <3>3, <4>1, <4>3
    <3> QED
      BY <3>2, <3>3
  <2>6. CASE Check(w)
    BY <2>1, <2>2, <2>3, <2>6 DEF Check
  <2>7. CASE Test(w)
    BY <2>1, <2>7 DEF Test
  <2>8. CASE ResetOk(w)
    BY <2>1, <2>2, <2>4, <2>8 DEF ResetOk
  <2>9. CASE Enable(w) \/ Escalate(w) \/ Dispose(w)
    BY <2>1, <2>2, <2>3, <2>4, <2>9 DEF Enable, Escalate, Dispose
  <2> QED
    BY <2>5, <2>6, <2>7, <2>8, <2>9 DEF WorkerStep
<1> QED
  BY <1>1, <1>3, <1>4

LEMMA ListKeeps == ASSUME RowInv, ListGroup PROVE RowInv'
<1>1. run # NoRun /\ UNCHANGED <<settings, callers, rows, unwritten>> /\ run.at = "list"
  BY DEF ListGroup, NoRun
<1>2. CASE \E status \in {"stopped", "failed"} : FinishAs(status, run.stats)
  BY <1>1, <1>2, RunEnds
<1>3. CASE /\ run' = [run EXCEPT !.groups = Tail(@), !.list = @ \o Existing(Head(run.groups))]
           /\ UNCHANGED <<running, ending>>
  <2>1. RunOK(run) /\ run = [f \in RunFields |-> run[f]]
    BY <1>1 DEF RowInv, Guarded, RunOK
  <2>2. PICK r, g, l : r = run' /\ g = Tail(run.groups) /\ l = run.list \o Existing(Head(run.groups))
    OBVIOUS
  <2>3. r = RunWith("list", g, l, run.stats)
    BY <1>1, <1>3, <2>1, <2>2 DEF RunFields, RunWith
  <2>4. r # NoRun /\ RunOK(r) /\ r.id = run.id
    BY <1>1, <2>1, <2>3, NextRun
  <2> QED
    BY <1>1, <1>3, <2>2, <2>4, RunGoesOn
<1> QED
  BY <1>2, <1>3 DEF ListGroup

LEMMA StartKeeps == ASSUME RowInv, StartWorkers PROVE RowInv'
<1>1. run # NoRun /\ UNCHANGED <<settings, callers, rows, unwritten>> /\ run.at = "list"
  BY DEF StartWorkers, NoRun, historyVars
<1>2. CASE FinishAs("success", run.stats)
  BY <1>1, <1>2, RunEnds
<1>3. CASE /\ run' = [run EXCEPT !.at = "work", !.list = Distinct(run.list), !.stats.total = Len(Distinct(run.list))]
           /\ UNCHANGED <<running, ending>>
  <2>1. RunOK(run) /\ run = [f \in RunFields |-> run[f]]
    BY <1>1 DEF RowInv, Guarded, RunOK
  <2>2. PICK r, l, st : /\ r = run' /\ l = Distinct(run.list)
                        /\ st = [run.stats EXCEPT !.total = Len(Distinct(run.list))]
    OBVIOUS
  <2>3. r = RunWith("work", run.groups, l, st)
    BY <1>1, <1>3, <2>1, <2>2 DEF RunFields, RunWith
  <2>4. r # NoRun /\ RunOK(r) /\ r.id = run.id
    BY <1>1, <2>1, <2>3, NextRun
  <2> QED
    BY <1>1, <1>3, <2>2, <2>4, RunGoesOn
<1> QED
  BY <1>2, <1>3 DEF StartWorkers

LEMMA FinishKeeps == ASSUME RowInv, Finish PROVE RowInv'
<1>1. run # NoRun /\ UNCHANGED <<settings, callers, rows, unwritten>>
  BY DEF Finish, NoRun, historyVars
<1>2. PICK status \in {"stopped", "success"} : FinishAs(status, run.stats)
  BY DEF Finish
<1> QED
  BY <1>1, <1>2, RunEnds

LEMMA WorkerKeeps == ASSUME RowInv, NEW w \in Workers, WorkerStep(w) PROVE RowInv'
<1>1. RunOK(run)
  BY DEF RowInv, Guarded
<1>2. run # NoRun /\ UNCHANGED <<settings, callers, running, ending, rows, unwritten>>
  BY <1>1, WorkerRun
<1>3. PICK r : run' = r /\ r # NoRun /\ RunOK(r) /\ r.id = run.id
  BY <1>1, WorkerRun
<1> QED
  BY <1>2, <1>3, RunGoesOn

LEMMA RowInit == ASSUME Init PROVE RowInv
<1>1. Idle.at = "idle" /\ CallerOK(Idle)
  BY DEF Idle, CallerOK
<1>2. Guarded
  BY <1>1, PatrolAssumption DEF Init, Guarded, RunOK
<1>3. Filled(0) /\ 0 \in 0..MaxRuns
  BY IdsAre, PatrolAssumption DEF Init, Filled
<1>4. RowsTellTheTruth
  BY DEF Init, RowsTellTheTruth
<1> QED
  BY <1>2, <1>3, <1>4 DEF Init, RowInv

LEMMA RowStep == ASSUME RowInv, [Next]_vars PROVE RowInv'
<1>1. CASE UNCHANGED vars
  BY <1>1, RowsUnmoved DEF vars, runVars, historyVars
<1>2. CASE Update
  <2>1. settings' \in Offered /\ UNCHANGED <<callers, running, run, ending, rows, unwritten>>
    BY <1>2 DEF Update, runVars
  <2>2. Guarded'
    BY <2>1 DEF RowInv, Guarded
  <2>3. \A n : Filled(n) => Filled(n)'
    BY <2>1 DEF Filled, EndingOK
  <2>4. RowsTellTheTruth'
    BY <2>1 DEF RowInv, RowsTellTheTruth
  <2> QED
    BY <2>1, <2>2, <2>3, <2>4 DEF RowInv
<1>3. CASE StopRun
  BY <1>3, RowsUnmoved DEF StopRun, runVars, historyVars
<1>4. CASE \E c \in Callers : Ask(c) \/ CallerStep(c)
  BY <1>4, AskKeeps, LockKeeps, InsertKeeps, InsertFailsKeeps DEF CallerStep
<1>5. CASE RunStep
  BY <1>5, ListKeeps, StartKeeps, FinishKeeps DEF RunStep
<1> QED
  BY <1>1, <1>2, <1>3, <1>4, <1>5, CrashKeeps, WorkerKeeps, PersistKeeps DEF Next

\* A row says running exactly as long as its run does, whoever starts and stops
\* runs, and whatever is trimmed meanwhile (Trigger, execute, persistRun,
\* TrimPatrolRuns), unless the last statement of the run was lost.
THEOREM RowsStayTrue == Spec => []RowsTellTheTruth
<1>1. RowInv => RowsTellTheTruth
  BY DEF RowInv
<1> QED
  BY <1>1, RowInit, RowStep, PTL DEF Spec

-----------------------------------------------------------------------------
(***************************************************************************)
(* Lists of accounts.                                                       *)
(***************************************************************************)
\* A finite set written as a sequence.
LEMMA ListOf ==
  ASSUME NEW S, IsFiniteSet(S)
  PROVE  /\ SetToSeq(S) \in Seq(S) /\ Once(SetToSeq(S))
         /\ \A i \in DOMAIN SetToSeq(S) : SetToSeq(S)[i] \in S
<1>1. PICK n : n = Cardinality(S)
  OBVIOUS
<1>2. n \in Nat /\ ExistsBijection(1..n, S)
  BY <1>1, FS_CardinalityType
<1>3. \E f \in [1..n -> S] : \A i, j \in 1..n : f[i] = f[j] => i = j
  BY <1>2 DEF ExistsBijection, Bijection, Injection, IsInjective
<1>4. PICK q : q = SetToSeq(S)
  OBVIOUS
<1>5. q \in [1..n -> S] /\ IsInjective(q)
  <2>1. q = CHOOSE f \in [1..n -> S] : IsInjective(f)
    BY <1>1, <1>4 DEF SetToSeq
  <2>2. \E f \in [1..n -> S] : IsInjective(f)
    BY <1>3 DEF IsInjective
  <2> QED
    BY <2>1, <2>2
<1>6. q \in Seq(S) /\ DOMAIN q = 1..n
  BY <1>2, <1>5
<1> QED
  BY <1>4, <1>5, <1>6 DEF Once, IsInjective

LEMMA ListedTwice ==
  ASSUME NEW list \in Seq(Accounts)
  PROVE  Distinct(list) \in Seq(Accounts) /\ Once(Distinct(list))
<1>1. PICK S : S = ToSet(list)
  OBVIOUS
<1>2. S \subseteq Accounts
  BY <1>1 DEF ToSet
<1>3. IsFiniteSet(S)
  BY <1>2, PatrolAssumption, FS_Subset
<1>4. PICK q : q = SetToSeq(S)
  OBVIOUS
<1>5. q \in Seq(S) /\ Once(q)
  BY <1>3, <1>4, ListOf
<1>6. q \in Seq(Accounts)
  BY <1>2, <1>5
<1> QED
  BY <1>1, <1>4, <1>5, <1>6 DEF Distinct

LEMMA GroupsList ==
  ASSUME NEW list \in Seq(Accounts), NEW g \in SUBSET Accounts
  PROVE  list \o Existing(g) \in Seq(Accounts)
<1>1. PICK S : S = {a \in g : accounts[a] # "gone"}
  OBVIOUS
<1>2. S \subseteq Accounts /\ IsFiniteSet(S)
  BY <1>1, PatrolAssumption, FS_Subset
<1>3. SetToSeq(S) \in Seq(S)
  BY <1>2, ListOf
<1>4. SetToSeq(S) \in Seq(Accounts)
  BY <1>2, <1>3
<1> QED
  BY <1>1, <1>4 DEF Existing

-----------------------------------------------------------------------------
(***************************************************************************)
(* Failures in a row.                                                       *)
(***************************************************************************)
PatrolInv ==
    /\ RowInv
    /\ StreakInv
    /\ accounts = [a \in Accounts |-> accounts[a]]

\* Nothing is counted, and no run or worker moves.
LEMMA StreakUnmoved ==
  ASSUME StreakInv, UNCHANGED <<run, workers, streak, fails, unreset>>,
         \A i \in Ids : rows'[i] = "none" => rows[i] = "none"
  PROVE  StreakInv'
<1>1. ASSUME NEW a \in Accounts
      PROVE  StreakOK(a)'
  BY DEF StreakInv, StreakOK
<1>2. run # NoRun => (Shared /\ Counted)'
  BY DEF StreakInv, Shared, Counted, Fresh
<1> QED
  BY <1>1, <1>2 DEF StreakInv

\* All workers are idle, and nothing is counted.
LEMMA AllRest ==
  ASSUME StreakInv, NEW r, run' = r, r.at # "work", UNCHANGED <<streak, fails, unreset>>,
         r # NoRun => (Shared /\ Counted)',
         workers' = [w \in Workers |-> Idle],
         \A i \in Ids : rows'[i] = "none" => rows[i] = "none"
  PROVE  StreakInv'
<1>1. ASSUME NEW a \in Accounts
      PROVE  StreakOK(a)'
  BY DEF StreakInv, StreakOK
<1>2. Idle.at = "idle" /\ WorkerOK(Idle)
  BY DEF Idle, WorkerOK
<1> QED
  BY <1>1, <1>2 DEF StreakInv

LEMMA EndRests ==
  ASSUME StreakInv, run' = NoRun, workers' = [w \in Workers |-> Idle],
         UNCHANGED <<streak, fails, unreset, rows>>
  PROVE  StreakInv'
<1>1. NoRun.at # "work"
  BY DEF NoRun
<1> QED
  BY <1>1, AllRest

LEMMA InsertStreak == ASSUME PatrolInv, NEW c \in Callers, InsertRun(c) PROVE StreakInv'
<1>1. PICK n \in 0..MaxRuns : Filled(n)
  BY DEF PatrolInv, RowInv
<1>2. NextId = n + 1 /\ n + 1 \in Ids
  BY <1>1, NextIdIs DEF Filled, InsertRun
<1>3. PICK r : r = [at |-> "list", id |-> n + 1, rt |-> callers[c].rt, groups |-> Groups,
                    list |-> <<>>, stats |-> NoStats]
  OBVIOUS
<1>4. /\ rows' = [rows EXCEPT ![n + 1] = "running"]
      /\ run' = r
      /\ UNCHANGED <<workers, streak, fails, unreset>>
      /\ callers[c].at = "insert"
  BY <1>2, <1>3 DEF InsertRun, historyVars, stateVars
<1>5. run = NoRun /\ NoRun.at = "none"
  BY <1>4 DEF PatrolInv, RowInv, Guarded, NoRun
<1>6. r.at = "list" /\ r.id = n + 1 /\ r.list = <<>>
  BY <1>3
<1>7. \A w \in Workers : workers[w] = Idle
  BY <1>5 DEF PatrolInv, StreakInv, WorkerOK, Idle
<1>8. workers' = [w \in Workers |-> Idle]
  BY <1>4, <1>7 DEF PatrolInv, StreakInv
<1>9. rows[n + 1] = "none"
  BY <1>1, <1>2, IdsAre DEF Filled
<1>10. \A a \in Accounts : n + 1 \notin fails[a]
  BY <1>2, <1>9, IdsAre DEF PatrolInv, StreakInv, StreakOK
<1>11. (Shared /\ Counted)'
  BY <1>3, <1>4, <1>6, <1>10, PatrolAssumption DEF Shared, Counted, Fresh
<1>12. \A i \in Ids : rows'[i] = "none" => rows[i] = "none"
  BY <1>2, <1>4, <1>9 DEF PatrolInv, RowInv
<1> QED
  BY <1>4, <1>6, <1>8, <1>11, <1>12, AllRest DEF PatrolInv

LEMMA ListStreak == ASSUME PatrolInv, ListGroup PROVE StreakInv'
<1>1. /\ run # NoRun /\ UNCHANGED <<streak, fails, unreset, rows>> /\ run.at = "list"
      /\ run.groups # <<>>
  BY DEF ListGroup, NoRun, stateVars
<1>2. CASE \E status \in {"stopped", "failed"} : FinishAs(status, run.stats)
  BY <1>1, <1>2, EndRests DEF FinishAs, PatrolInv
<1>3. CASE /\ run' = [run EXCEPT !.groups = Tail(@), !.list = @ \o Existing(Head(run.groups))]
           /\ UNCHANGED <<workers, running, ending>>
  <2>1. RunOK(run) /\ run = [f \in RunFields |-> run[f]]
    BY <1>1 DEF PatrolInv, RowInv, Guarded, RunOK
  <2>2. PICK r, g, l : r = run' /\ g = Tail(run.groups) /\ l = run.list \o Existing(Head(run.groups))
    OBVIOUS
  <2>3. r = RunWith("list", g, l, run.stats)
    BY <1>1, <1>3, <2>1, <2>2 DEF RunFields, RunWith
  <2>4. r # NoRun /\ RunOK(r) /\ r.id = run.id /\ r.at = "list" /\ r.list = l
    BY <1>1, <2>1, <2>3, NextRun
  <2>5. l \in Seq(Accounts)
    <3>1. run.list \in Seq(Accounts) /\ run.groups \in Seq(SUBSET Accounts)
      BY <1>1 DEF PatrolInv, StreakInv, Shared
    <3>2. Head(run.groups) \in SUBSET Accounts
      BY <1>1, <3>1
    <3> QED
      BY <2>2, <3>1, <3>2, GroupsList
  <2>6. \A w \in Workers : workers[w] = Idle
    BY <1>1 DEF PatrolInv, StreakInv, WorkerOK, Idle
  <2>7. workers' = [w \in Workers |-> Idle]
    BY <1>3, <2>6 DEF PatrolInv, StreakInv
  <2>8. r.groups \in Seq(SUBSET Accounts)
    <3>1. run.groups \in Seq(SUBSET Accounts)
      BY <1>1 DEF PatrolInv, StreakInv, Shared
    <3>2. g \in Seq(SUBSET Accounts)
      BY <1>1, <2>2, <3>1
    <3>3. r.groups = g
      BY <1>1, <2>1, <2>3, NextRun
    <3> QED
      BY <3>2, <3>3
  <2>9. (Shared /\ Counted)'
    BY <1>1, <2>2, <2>4, <2>5, <2>8 DEF PatrolInv, StreakInv, Shared, Counted, Fresh
  <2> QED
    BY <1>1, <2>2, <2>4, <2>7, <2>9, AllRest DEF PatrolInv
<1> QED
  BY <1>2, <1>3 DEF ListGroup, runVars

LEMMA StartStreak == ASSUME PatrolInv, StartWorkers PROVE StreakInv'
<1>1. run # NoRun /\ UNCHANGED <<streak, fails, unreset, rows>> /\ run.at = "list"
  BY DEF StartWorkers, NoRun, historyVars, stateVars
<1>2. CASE FinishAs("success", run.stats)
  BY <1>1, <1>2, EndRests DEF FinishAs, PatrolInv
<1>3. CASE /\ run' = [run EXCEPT !.at = "work", !.list = Distinct(run.list), !.stats.total = Len(Distinct(run.list))]
           /\ workers' = [w \in Workers |-> [at |-> "loop"]]
  <2>1. RunOK(run) /\ run = [f \in RunFields |-> run[f]]
    BY <1>1 DEF PatrolInv, RowInv, Guarded, RunOK
  <2>2. PICK r, l, st : /\ r = run' /\ l = Distinct(run.list)
                        /\ st = [run.stats EXCEPT !.total = Len(Distinct(run.list))]
    OBVIOUS
  <2>3. r = RunWith("work", run.groups, l, st)
    BY <1>1, <1>3, <2>1, <2>2 DEF RunFields, RunWith
  <2>4. /\ r # NoRun /\ RunOK(r) /\ r.id = run.id /\ r.at = "work" /\ r.list = l
        /\ r.groups = run.groups
    BY <1>1, <2>1, <2>3, NextRun
  <2>5. l \in Seq(Accounts) /\ Once(l)
    BY <1>1, <2>2, ListedTwice DEF PatrolInv, StreakInv, Shared
  <2>6. PICK x : x = [at |-> "loop"]
    OBVIOUS
  <2>7. WorkerOK(x) /\ x.at = "loop" /\ \A a : ~Holds(x, a) /\ ~Uncounted(x, a)
    BY <2>6 DEF WorkerOK, Holds, Uncounted
  <2>8. \A w \in Workers : workers'[w] = x
    BY <1>3, <2>6
  <2>9. \A a \in Accounts : run.id \notin fails[a]
    BY <1>1 DEF PatrolInv, StreakInv, Counted, Fresh
  <2>10. \A i \in DOMAIN l : l[i] \in Accounts
    BY <2>5
  <2>11. Shared'
    BY <2>2, <2>4, <2>5, <2>7, <2>8 DEF Shared, Holds
  <2>12. Counted'
    BY <1>1, <2>2, <2>4, <2>7, <2>8, <2>9, <2>10 DEF Counted, Fresh, Uncounted
  <2>13. ASSUME NEW a \in Accounts
         PROVE  StreakOK(a)'
    BY <1>1 DEF PatrolInv, StreakInv, StreakOK
  <2>14. (run.at # "work" => \A w \in Workers : workers[w].at = "idle")'
    BY <2>2, <2>4
  <2> QED
    BY <1>1, <1>3, <2>7, <2>8, <2>11, <2>12, <2>13, <2>14 DEF PatrolInv, StreakInv
<1> QED
  BY <1>2, <1>3 DEF StartWorkers

\* A worker takes a step: it goes on with its account, takes the next or lets go,
\* and counts at most for the account it holds.
LEMMA WorkerMoves ==
  ASSUME PatrolInv, NEW w \in Workers, WorkerStep(w), NEW t, NEW F,
         workers' = [workers EXCEPT ![w] = t], WorkerOK(t), t.at # "idle",
         fails' = F, F = [a \in Accounts |-> F[a]], streak' = [a \in Accounts |-> streak'[a]],
         \A a : a \in unreset => a \in unreset',
         \A a \in Accounts : F[a] = fails[a] \/ Holds(workers[w], a),
         \A a \in Accounts : StreakOK(a)',
         t.at = "dispose" => Cardinality(F[t.acct]) >= run.rt.threshold \/ t.acct \in unreset',
         \/ /\ \A a : Holds(t, a) => Holds(workers[w], a)
            /\ \A a : Uncounted(t, a) => Uncounted(workers[w], a) /\ F[a] = fails[a]
         \/ /\ workers[w].at = "loop" /\ run.list # <<>> /\ F = fails
            /\ run'.list = Tail(run.list)
            /\ \A a : Holds(t, a) => a = Head(run.list)
  PROVE  StreakInv'
<1>1. RunOK(run)
  BY DEF PatrolInv, RowInv, Guarded
<1>2. run # NoRun /\ run.at = "work"
  BY <1>1, WorkerRun
<1>3. PICK r : /\ run' = r /\ r # NoRun /\ RunOK(r) /\ r.id = run.id /\ r.rt = run.rt /\ r.at = "work"
               /\ \/ r.list = run.list
                  \/ workers[w].at = "loop" /\ run.list # <<>> /\ r.list = Tail(run.list)
  BY <1>1, WorkerRun
<1>4. Shared /\ Counted /\ run.list \in Seq(Accounts)
  BY <1>2 DEF PatrolInv, StreakInv, Shared
<1>5. /\ r.list \in Seq(Accounts) /\ Once(r.list)
      /\ \A i \in DOMAIN r.list : \E j \in DOMAIN run.list : r.list[i] = run.list[j]
  <2>1. CASE r.list = run.list
    BY <1>2, <1>4, <2>1 DEF Shared
  <2>2. CASE workers[w].at = "loop" /\ run.list # <<>> /\ r.list = Tail(run.list)
    <3>1. PICK l, m : l = run.list /\ m = r.list
      OBVIOUS
    <3>2. l \in Seq(Accounts) /\ l # <<>> /\ m = Tail(l) /\ Once(l)
      BY <1>2, <1>4, <2>2, <3>1 DEF Shared
    <3>3. m \in Seq(Accounts) /\ \A i \in DOMAIN m : i \in Nat /\ i + 1 \in DOMAIN l /\ m[i] = l[i + 1]
      BY <3>2
    <3>4. Once(m)
      <4>1. ASSUME NEW i \in DOMAIN m, NEW j \in DOMAIN m, m[i] = m[j]
            PROVE  i = j
        <5>1. i + 1 = j + 1
          BY <3>2, <3>3, <4>1 DEF Once
        <5> QED
          BY <3>3, <5>1
      <4> QED
        BY <4>1 DEF Once
    <3> QED
      BY <3>1, <3>3, <3>4
  <2> QED
    BY <1>3, <2>1, <2>2
<1>6. \A i \in DOMAIN r.list : r.list[i] \in Accounts
  BY <1>5
<1>7. \A v \in Workers : workers'[v] = IF v = w THEN t ELSE workers[v]
  BY DEF PatrolInv, StreakInv
<1>8. \A a : Holds(t, a) => \A i \in DOMAIN r.list : r.list[i] # a
  <2>1. CASE \A a : Holds(t, a) => Holds(workers[w], a)
    BY <1>2, <1>4, <1>5, <2>1 DEF Shared
  <2>2. CASE run.list # <<>> /\ run'.list = Tail(run.list) /\ \A a : Holds(t, a) => a = Head(run.list)
    <3>1. PICK l, m : l = run.list /\ m = r.list
      OBVIOUS
    <3>2. l \in Seq(Accounts) /\ l # <<>> /\ m = Tail(l) /\ Once(l)
      BY <1>2, <1>3, <1>4, <2>2, <3>1 DEF Shared
    <3>3. \A i \in DOMAIN m : i \in 1..Len(m) /\ i + 1 \in DOMAIN l /\ m[i] = l[i + 1]
      BY <3>2
    <3>4. Head(l) = l[1] /\ 1 \in DOMAIN l
      BY <3>2
    <3>5. \A i \in DOMAIN m : m[i] # Head(l)
      <4>1. ASSUME NEW i \in DOMAIN m, m[i] = Head(l) PROVE FALSE
        <5>1. i + 1 = 1
          BY <3>2, <3>3, <3>4, <4>1 DEF Once
        <5> QED
          BY <3>3, <5>1
      <4> QED
        BY <4>1
    <3> QED
      BY <2>2, <3>1, <3>5
  <2> QED
    BY <2>1, <2>2
<1>9. \A v \in Workers : \A a : v # w /\ Holds(workers[v], a) => ~Holds(t, a)
  <2>1. \A v \in Workers : \A a : Holds(workers[v], a) => a \in Accounts
    BY DEF PatrolInv, StreakInv, WorkerOK, Holds
  <2>2. CASE \A a : Holds(t, a) => Holds(workers[w], a)
    BY <1>2, <1>4, <2>1, <2>2 DEF Shared
  <2>3. CASE run.list # <<>> /\ \A a : Holds(t, a) => a = Head(run.list)
    <3>1. Head(run.list) = run.list[1] /\ 1 \in DOMAIN run.list
      BY <1>4, <2>3
    <3> QED
      BY <1>2, <1>4, <2>3, <3>1 DEF Shared
  <2> QED
    BY <2>2, <2>3
<1>10. Shared'
  <2>1. \A v \in Workers : \A i \in DOMAIN r.list : ~Holds(workers'[v], r.list[i])
    BY <1>2, <1>4, <1>5, <1>7, <1>8 DEF Shared
  <2>2. \A u, v \in Workers : \A a \in Accounts : Holds(workers'[u], a) /\ Holds(workers'[v], a) => u = v
    BY <1>2, <1>4, <1>7, <1>9 DEF Shared
  <2> QED
    BY <1>3, <1>5, <2>1, <2>2 DEF Shared, Holds
<1>11. \A a \in Accounts : ~Holds(workers[w], a) => F[a] = fails[a]
  OBVIOUS
<1>12. \A i \in DOMAIN r.list : r.id \notin F[r.list[i]]
  <2>1. ASSUME NEW i \in DOMAIN r.list
        PROVE  r.id \notin F[r.list[i]]
    <3>1. PICK j \in DOMAIN run.list : r.list[i] = run.list[j]
      BY <1>5
    <3>2. ~Holds(workers[w], run.list[j]) /\ run.id \notin fails[run.list[j]]
      BY <1>2, <1>4 DEF Shared, Counted, Fresh
    <3> QED
      BY <1>3, <1>6, <1>11, <3>1, <3>2
  <2> QED
    BY <2>1
<1>13. ASSUME NEW v \in Workers, NEW a \in Accounts
       PROVE  /\ Uncounted(workers'[v], a) => r.id \notin F[a]
              /\ workers'[v].at = "dispose" /\ workers'[v].acct = a
                    => Cardinality(F[a]) >= r.rt.threshold \/ a \in unreset'
  <2>1. CASE v = w
    <3>1. Uncounted(t, a) => r.id \notin F[a]
      <4>1. CASE \A b : Uncounted(t, b) => Uncounted(workers[w], b) /\ F[b] = fails[b]
        BY <1>2, <1>3, <1>4, <4>1 DEF Counted, Fresh
      <4>2. CASE run.list # <<>> /\ F = fails /\ \A b : Holds(t, b) => b = Head(run.list)
        <5>1. Head(run.list) = run.list[1] /\ 1 \in DOMAIN run.list
          BY <1>4, <4>2
        <5>2. run.id \notin fails[Head(run.list)]
          BY <1>2, <1>4, <5>1 DEF Counted, Fresh
        <5> QED
          BY <1>3, <4>2, <5>2 DEF Uncounted, Holds
      <4> QED
        BY <4>1, <4>2
    <3> QED
      BY <1>3, <1>7, <2>1, <3>1
  <2>2. CASE v # w
    <3>1. workers'[v] = workers[v]
      BY <1>7, <2>2
    <3>2. Holds(workers[v], a) => F[a] = fails[a]
      BY <1>2, <1>4, <1>11, <2>2 DEF Shared
    <3>3. Uncounted(workers[v], a) => Holds(workers[v], a)
      BY DEF Uncounted, Holds
    <3>4. workers[v].at = "dispose" /\ workers[v].acct = a => Holds(workers[v], a)
      BY DEF Holds
    <3> QED
      BY <1>2, <1>3, <1>4, <3>1, <3>2, <3>3, <3>4 DEF Counted, Fresh
  <2> QED
    BY <2>1, <2>2
<1>14. Counted'
  BY <1>3, <1>12, <1>13 DEF Counted, Fresh, Uncounted
<1> QED
  BY <1>3, <1>7, <1>10, <1>14 DEF PatrolInv, StreakInv

\* Nothing is counted.
LEMMA StreakSame ==
  ASSUME StreakInv, UNCHANGED <<fails, rows>>, \A a : a \in unreset => a \in unreset',
         NEW a \in Accounts, streak'[a] = streak[a] \/ streak'[a] = 0
  PROVE  StreakOK(a)'
<1>1. Cardinality(fails[a]) \in Nat
  BY FS_CardinalityType DEF StreakInv, StreakOK
<1> QED
  BY <1>1 DEF StreakInv, StreakOK

LEMMA QuietMove ==
  ASSUME PatrolInv, NEW w \in Workers, WorkerStep(w), NEW t,
         workers' = [workers EXCEPT ![w] = t], WorkerOK(t), t.at \notin {"idle", "dispose"},
         UNCHANGED <<streak, fails, rows>>, \A a : a \in unreset => a \in unreset',
         \A a : Holds(t, a) => Holds(workers[w], a),
         \A a : Uncounted(t, a) => Uncounted(workers[w], a)
  PROVE  StreakInv'
<1>1. \A a \in Accounts : StreakOK(a)'
  BY StreakSame DEF PatrolInv
<1>2. PICK F : F = fails
  OBVIOUS
<1>3. F = [a \in Accounts |-> F[a]] /\ streak' = [a \in Accounts |-> streak'[a]] /\ fails' = F
  BY <1>2 DEF PatrolInv, StreakInv
<1> QED
  BY <1>1, <1>2, <1>3, WorkerMoves

Looping == [at |-> "loop"]

LEMMA LoopingOK == WorkerOK(Looping) /\ Looping.at = "loop" /\ \A a : ~Holds(Looping, a) /\ ~Uncounted(Looping, a)
  BY DEF Looping, WorkerOK, Holds, Uncounted

LEMMA LetsGo ==
  ASSUME PatrolInv, NEW w \in Workers, WorkerStep(w), workers' = [workers EXCEPT ![w] = Looping],
         UNCHANGED <<streak, fails, rows>>, \A a : a \in unreset => a \in unreset'
  PROVE  StreakInv'
  BY LoopingOK, QuietMove

\* A worker goes on with the account it holds.
LEMMA GoesTo ==
  ASSUME NEW w \in Workers, StreakInv, NEW at, Goes(w, at),
         NEW s, s = workers[w], NEW t, t = [s EXCEPT !.at = at]
  PROVE  /\ workers' = [workers EXCEPT ![w] = t]
         /\ WorkerOK(s)
         /\ t.at = at
         /\ s.at \in {"idle", "loop", "done"} => t = [at |-> at]
         /\ s.at \in {"check", "test"} => t = [f \in {"at", "acct", "tested", "ok"} |-> t[f]] /\ t.acct = s.acct
         /\ s.at \in {"reset", "enable", "escalate", "dispose"} => t = [f \in {"at", "acct"} |-> t[f]] /\ t.acct = s.acct
<1>1. WorkerOK(s)
  BY DEF StreakInv
<1> QED
  BY <1>1 DEF Goes, WorkerOK

LEMMA TakeStreak == ASSUME PatrolInv, NEW w \in Workers, NextAccount(w) PROVE StreakInv'
<1>1. /\ workers[w].at = "loop" /\ WorkerStep(w)
      /\ UNCHANGED <<streak, fails, rows, unreset>>
  BY DEF NextAccount, At, WorkerStep, stateVars, historyVars
<1>2. RunOK(run) /\ StreakInv
  BY DEF PatrolInv, RowInv, Guarded
<1>3. run = [f \in RunFields |-> run[f]] /\ run.at = "work" /\ run.list \in Seq(Accounts)
  BY <1>1, <1>2, WorkerRun DEF RunOK, StreakInv, Shared
<1>4. CASE stop \/ run.list = <<>>
  <2>1. PICK s, t : s = workers[w] /\ t = [s EXCEPT !.at = "done"]
    OBVIOUS
  <2>2. workers' = [workers EXCEPT ![w] = t] /\ t = [at |-> "done"]
    BY <1>1, <1>2, <1>4, <2>1, GoesTo DEF NextAccount
  <2>3. WorkerOK(t) /\ t.at = "done" /\ \A a : ~Holds(t, a) /\ ~Uncounted(t, a)
    BY <2>2 DEF WorkerOK, Holds, Uncounted
  <2> QED
    BY <1>1, <2>2, <2>3, QuietMove
<1>5. CASE ~(stop \/ run.list = <<>>)
  <2>1. PICK a, l, s : a = Head(run.list) /\ l = Tail(run.list) /\ s = workers[w]
    OBVIOUS
  <2>2. a \in Accounts
    BY <1>3, <1>5, <2>1
  <2>3. PICK t : /\ workers' = [workers EXCEPT ![w] = t]
                 /\ \/ t = s
                    \/ t = [at |-> "escalate", acct |-> a]
                    \/ t = [at |-> "check", acct |-> a, tested |-> 0, ok |-> TRUE]
    <3>1. workers = [workers EXCEPT ![w] = s]
      BY <1>2, <2>1 DEF StreakInv
    <3> QED
      BY <1>5, <2>1, <3>1 DEF NextAccount, Failing, Becomes
  <2>4. WorkerOK(s) /\ s.at = "loop" /\ \A b : ~Holds(s, b)
    BY <1>1, <1>2, <2>1 DEF StreakInv, Holds
  <2>5. WorkerOK(t) /\ t.at \in {"loop", "escalate", "check"} /\ \A b : Holds(t, b) => b = a
    <3>1. CASE t = s
      BY <2>4, <3>1
    <3>2. CASE t = [at |-> "escalate", acct |-> a]
      <4>1. t = [f \in {"at", "acct"} |-> t[f]] /\ t.at = "escalate" /\ t.acct = a
        BY <3>2
      <4> QED
        BY <2>2, <4>1 DEF WorkerOK, Holds
    <3>3. CASE t = [at |-> "check", acct |-> a, tested |-> 0, ok |-> TRUE]
      <4>1. t = [f \in {"at", "acct", "tested", "ok"} |-> t[f]] /\ t.at = "check" /\ t.acct = a
        BY <3>3
      <4> QED
        BY <2>2, <4>1 DEF WorkerOK, Holds
    <3> QED
      BY <2>3, <3>1, <3>2, <3>3
  <2>6. run'.list = l
    <3>1. \/ run' = [run EXCEPT !.list = l, !.stats = CheckedIn(@, "skipped")]
          \/ run' = [run EXCEPT !.stats.failed = @ + 1, !.list = l]
          \/ run' = [run EXCEPT !.list = l]
      BY <1>5, <2>1 DEF NextAccount, Failing
    <3> QED
      BY <1>3, <3>1 DEF RunFields
  <2>7. PICK F : F = fails
    OBVIOUS
  <2>8. /\ F = [b \in Accounts |-> F[b]] /\ streak' = [b \in Accounts |-> streak'[b]] /\ fails' = F
        /\ \A b \in Accounts : StreakOK(b)'
    BY <1>1, <1>2, <2>7, StreakSame DEF StreakInv
  <2> QED
    BY <1>1, <1>5, <2>1, <2>3, <2>5, <2>6, <2>7, <2>8, WorkerMoves
<1> QED
  BY <1>4, <1>5

LEMMA CheckStreak == ASSUME PatrolInv, NEW w \in Workers, Check(w) PROVE StreakInv'
<1>1. /\ workers[w].at = "check" /\ WorkerStep(w) /\ StreakInv
      /\ UNCHANGED <<streak, fails, rows, unreset>>
  BY DEF Check, At, WorkerStep, stateVars, historyVars, PatrolInv
<1>2. PICK s, a : s = workers[w] /\ a = s.acct
  OBVIOUS
<1>3. WorkerOK(s) /\ s.at = "check" /\ a \in Accounts /\ Holds(s, a) /\ Uncounted(s, a)
  BY <1>1, <1>2 DEF StreakInv, WorkerOK, Holds, Uncounted
<1>4. CASE Goes(w, "test")
  <2>1. PICK t : t = [s EXCEPT !.at = "test"]
    OBVIOUS
  <2>2. /\ workers' = [workers EXCEPT ![w] = t] /\ t.at = "test" /\ t.acct = a
        /\ t = [f \in {"at", "acct", "tested", "ok"} |-> t[f]]
    BY <1>1, <1>2, <1>3, <1>4, <2>1, GoesTo
  <2>3. WorkerOK(t)
    BY <1>3, <2>2 DEF WorkerOK
  <2>4. \A b : (Holds(t, b) => Holds(s, b)) /\ (Uncounted(t, b) => Uncounted(s, b))
    BY <1>3, <2>2 DEF Holds, Uncounted
  <2> QED
    BY <1>1, <1>2, <2>2, <2>3, <2>4, QuietMove
<1>5. CASE \E counter : CheckedAs(w, counter)
  BY <1>1, <1>5, LetsGo DEF CheckedAs, Becomes, Looping
<1>6. ASSUME NEW at \in {"reset", "escalate"}, Becomes(w, [at |-> at, acct |-> Acct(w)])
      PROVE  StreakInv'
  <2>1. PICK t : t = [at |-> at, acct |-> a]
    OBVIOUS
  <2>2. workers' = [workers EXCEPT ![w] = t]
    BY <1>2, <1>6, <2>1 DEF Becomes, Acct
  <2>3. t.at = at /\ t.acct = a /\ t = [f \in {"at", "acct"} |-> t[f]]
    BY <2>1
  <2>4. WorkerOK(t)
    BY <1>3, <2>3 DEF WorkerOK
  <2>5. \A b : (Holds(t, b) => Holds(s, b)) /\ (Uncounted(t, b) => Uncounted(s, b))
    BY <1>3, <2>3 DEF Holds, Uncounted
  <2> QED
    BY <1>1, <1>2, <2>2, <2>3, <2>4, <2>5, QuietMove
<1> QED
  BY <1>4, <1>5, <1>6 DEF Check

LEMMA TestStreak == ASSUME PatrolInv, NEW w \in Workers, Test(w) PROVE StreakInv'
<1>1. /\ workers[w].at = "test" /\ WorkerStep(w) /\ StreakInv
      /\ UNCHANGED <<streak, fails, rows, unreset>>
  BY DEF Test, At, WorkerStep, stateVars, historyVars, PatrolInv
<1>2. PICK s : s = workers[w]
  OBVIOUS
<1>3. WorkerOK(s) /\ s.at = "test" /\ s.acct \in Accounts /\ s = [f \in {"at", "acct", "tested", "ok"} |-> s[f]]
  BY <1>1, <1>2 DEF StreakInv, WorkerOK
<1>4. PICK n, ok : workers' = [workers EXCEPT ![w].at = "check", ![w].tested = n, ![w].ok = ok]
  BY DEF Test
<1>5. PICK t : t = [s EXCEPT !.at = "check", !.tested = n, !.ok = ok]
  OBVIOUS
<1>6. workers' = [workers EXCEPT ![w] = t]
  BY <1>1, <1>2, <1>4, <1>5 DEF StreakInv
<1>7. t.at = "check" /\ t.acct = s.acct /\ t = [f \in {"at", "acct", "tested", "ok"} |-> t[f]]
  BY <1>3, <1>5
<1>8. WorkerOK(t)
  BY <1>3, <1>7 DEF WorkerOK
<1>9. \A b : (Holds(t, b) => Holds(s, b)) /\ (Uncounted(t, b) => Uncounted(s, b))
  BY <1>3, <1>7 DEF Holds, Uncounted
<1> QED
  BY <1>1, <1>2, <1>6, <1>7, <1>8, <1>9, QuietMove

LEMMA ResetStreak == ASSUME PatrolInv, NEW w \in Workers, ResetOk(w) PROVE StreakInv'
<1>1. workers[w].at = "reset" /\ WorkerStep(w) /\ StreakInv /\ UNCHANGED rows
  BY DEF ResetOk, At, WorkerStep, PatrolInv
<1>2. PICK s, a, F, S : s = workers[w] /\ a = s.acct /\ F = fails' /\ S = streak'
  OBVIOUS
<1>3. WorkerOK(s) /\ s.at = "reset" /\ a \in Accounts /\ Holds(s, a)
  BY <1>1, <1>2 DEF StreakInv, WorkerOK, Holds
<1>4. /\ F = [fails EXCEPT ![a] = {}]
      /\ \/ S = [streak EXCEPT ![a] = 0] /\ UNCHANGED unreset
         \/ S = streak /\ unreset' = unreset \cup {a}
  BY <1>2 DEF ResetOk, StreakAfterOk, Acct, historyVars
<1>5. PICK t : workers' = [workers EXCEPT ![w] = t] /\ (t = Looping \/ t = [s EXCEPT !.at = "enable"])
  BY <1>2 DEF ResetOk, Goes, CheckedAfter, Becomes, Looping
<1>6. /\ WorkerOK(t) /\ t.at \in {"loop", "enable"}
      /\ \A b : ~Uncounted(t, b) /\ (Holds(t, b) => Holds(s, b))
  <2>1. CASE t = Looping
    BY <2>1, LoopingOK
  <2>2. CASE t = [s EXCEPT !.at = "enable"]
    <3>1. t.at = "enable" /\ t.acct = s.acct /\ t = [f \in {"at", "acct"} |-> t[f]]
      BY <1>3, <2>2 DEF WorkerOK
    <3> QED
      BY <1>2, <1>3, <3>1 DEF WorkerOK, Holds, Uncounted
  <2> QED
    BY <1>5, <2>1, <2>2
<1>7. /\ F = [b \in Accounts |-> F[b]] /\ S = [b \in Accounts |-> S[b]]
      /\ \A b \in Accounts : b # a => F[b] = fails[b] /\ S[b] = streak[b]
      /\ F[a] = {} /\ (S[a] = 0 \/ (S[a] = streak[a] /\ a \in unreset'))
  <2>1. /\ streak = [b \in Accounts |-> streak[b]] /\ fails = [b \in Accounts |-> fails[b]]
    BY <1>1 DEF StreakInv
  <2>2. F = [b \in Accounts |-> F[b]] /\ F[a] = {} /\ \A b \in Accounts : b # a => F[b] = fails[b]
    BY <1>3, <1>4, <2>1
  <2>3. CASE S = [streak EXCEPT ![a] = 0]
    <3>1. S = [b \in Accounts |-> IF b = a THEN 0 ELSE streak[b]]
      BY <2>1, <2>3
    <3>2. S = [b \in Accounts |-> S[b]]
      BY <3>1
    <3>3. S[a] = 0 /\ \A b \in Accounts : b # a => S[b] = streak[b]
      BY <1>3, <3>1
    <3> QED
      BY <2>2, <3>2, <3>3
  <2>4. CASE S = streak /\ unreset' = unreset \cup {a}
    BY <1>3, <2>1, <2>2, <2>4
  <2> QED
    BY <1>4, <2>2, <2>3, <2>4
<1>8. \A b : b \in unreset => b \in unreset'
  BY <1>4
<1>9. ASSUME NEW b \in Accounts
      PROVE  StreakOK(b)'
  <2>1. CASE b = a
    <3>1. IsFiniteSet(F[a]) /\ Cardinality(F[a]) = 0
      BY <1>7, FS_EmptySet
    <3>2. S[a] \in Nat /\ \A i \in F[a] : FALSE
      BY <1>1, <1>3, <1>7 DEF StreakInv, StreakOK
    <3> QED
      BY <1>2, <1>7, <2>1, <3>1, <3>2 DEF StreakOK
  <2>2. CASE b # a
    BY <1>1, <1>2, <1>7, <1>8, <2>2 DEF StreakInv, StreakOK
  <2> QED
    BY <2>1, <2>2
<1>10. \A b \in Accounts : F[b] = fails[b] \/ Holds(workers[w], b)
  BY <1>2, <1>3, <1>7
<1>11. /\ fails' = F /\ F = [b \in Accounts |-> F[b]] /\ streak' = [b \in Accounts |-> streak'[b]] /\ t.at # "idle"
       /\ t.at = "dispose" => Cardinality(F[t.acct]) >= run.rt.threshold \/ t.acct \in unreset'
       /\ \A b : Holds(t, b) => Holds(workers[w], b)
       /\ \A b : Uncounted(t, b) => Uncounted(workers[w], b) /\ F[b] = fails[b]
  BY <1>2, <1>6, <1>7
<1> QED
  BY <1>1, <1>5, <1>6, <1>8, <1>9, <1>10, <1>11, WorkerMoves

LEMMA EnableStreak == ASSUME PatrolInv, NEW w \in Workers, Enable(w) PROVE StreakInv'
<1>1. WorkerStep(w) /\ workers' = [workers EXCEPT ![w] = Looping] /\ UNCHANGED <<streak, fails, rows, unreset>>
  BY DEF Enable, WorkerStep, CheckedAfter, Becomes, Looping
<1> QED
  BY <1>1, LetsGo

\* A failure more in the count is a run more in the history.
LEMMA EscalateStreak == ASSUME PatrolInv, NEW w \in Workers, Escalate(w) PROVE StreakInv'
<1>1. /\ workers[w].at = "escalate" /\ run.at = "work" /\ WorkerStep(w) /\ StreakInv
      /\ UNCHANGED <<rows, unreset>>
  BY DEF Escalate, At, WorkerStep, PatrolInv
<1>2. PICK s, a, F, S, id : s = workers[w] /\ a = s.acct /\ F = fails' /\ S = streak' /\ id = run.id
  OBVIOUS
<1>3. WorkerOK(s) /\ s.at = "escalate" /\ a \in Accounts /\ Holds(s, a) /\ Uncounted(s, a)
  BY <1>1, <1>2 DEF StreakInv, WorkerOK, Holds, Uncounted
<1>4. run # NoRun /\ RunOK(run)
  BY <1>1 DEF PatrolInv, RowInv, Guarded, NoRun
<1>5. PICK n \in 0..MaxRuns : Filled(n)
  BY DEF PatrolInv, RowInv
<1>6. id = n /\ n \in Ids /\ \A i \in Ids : rows[i] = "none" => id < i
  BY <1>2, <1>4, <1>5, IdsAre DEF Filled
<1>7. id \notin fails[a]
  BY <1>1, <1>2, <1>3, <1>4 DEF StreakInv, Counted, Fresh
<1>8. PICK counted : counted = [streak EXCEPT ![a] = @ + 1]
  OBVIOUS
<1>9. /\ F = [fails EXCEPT ![a] = @ \cup {id}]
      /\ S \in {streak, counted}
      /\ \/ /\ S = counted /\ counted[a] >= run.rt.threshold
            /\ workers' = [workers EXCEPT ![w] = [s EXCEPT !.at = "dispose"]]
         \/ workers' = [workers EXCEPT ![w] = Looping]
  <2>1. counted = [streak EXCEPT ![Acct(w)] = @ + 1] /\ Acct(w) = a
    BY <1>2, <1>8 DEF Acct
  <2> QED
    BY <1>2, <2>1 DEF Escalate, Due, Goes, CheckedAs, Becomes, Looping
<1>10. PICK t : /\ workers' = [workers EXCEPT ![w] = t]
                /\ \/ t = Looping
                   \/ t = [s EXCEPT !.at = "dispose"] /\ S = counted /\ counted[a] >= run.rt.threshold
  BY <1>9
<1>11. /\ WorkerOK(t) /\ t.at \in {"loop", "dispose"}
       /\ \A b : ~Uncounted(t, b) /\ (Holds(t, b) => Holds(s, b))
       /\ t.at = "dispose" => t.acct = a /\ S = counted /\ counted[a] >= run.rt.threshold
  <2>1. CASE t = Looping
    BY <2>1, LoopingOK
  <2>2. CASE t = [s EXCEPT !.at = "dispose"] /\ S = counted /\ counted[a] >= run.rt.threshold
    <3>1. t.at = "dispose" /\ t.acct = s.acct /\ t = [f \in {"at", "acct"} |-> t[f]]
      BY <1>3, <2>2 DEF WorkerOK
    <3> QED
      BY <1>2, <1>3, <2>2, <3>1 DEF WorkerOK, Holds, Uncounted
  <2> QED
    BY <1>10, <2>1, <2>2
<1>12. /\ F = [b \in Accounts |-> F[b]] /\ S = [b \in Accounts |-> S[b]]
       /\ \A b \in Accounts : b # a => F[b] = fails[b] /\ S[b] = streak[b]
       /\ F[a] = fails[a] \cup {id} /\ S[a] \in {streak[a], streak[a] + 1} /\ counted[a] = streak[a] + 1
  BY <1>1, <1>3, <1>8, <1>9 DEF StreakInv
<1>13. /\ IsFiniteSet(F[a]) /\ Cardinality(F[a]) = Cardinality(fails[a]) + 1
       /\ Cardinality(fails[a]) \in Nat
  BY <1>1, <1>3, <1>7, <1>12, FS_AddElement, FS_CardinalityType DEF StreakInv, StreakOK
<1>14. streak[a] \in Nat /\ (a \notin unreset => streak[a] <= Cardinality(fails[a]))
  BY <1>1, <1>3 DEF StreakInv, StreakOK
<1>15. \A b \in Accounts : StreakOK(b)'
  <2>1. ASSUME NEW b \in Accounts
        PROVE  StreakOK(b)'
    <3>1. CASE b = a
      <4>1. S[a] \in Nat /\ (a \notin unreset => S[a] <= Cardinality(F[a]))
        BY <1>12, <1>13, <1>14
      <4>2. \A i \in F[a] : i \in Nat /\ \A m \in Ids : (rows[m] = "none" => i < m)
        BY <1>1, <1>3, <1>6, <1>12, IdsAre DEF StreakInv, StreakOK
      <4> QED
        BY <1>1, <1>2, <1>13, <3>1, <4>1, <4>2 DEF StreakOK
    <3>2. CASE b # a
      BY <1>1, <1>2, <1>12, <3>2 DEF StreakInv, StreakOK
    <3> QED
      BY <3>1, <3>2
  <2> QED
    BY <2>1
<1>16. t.at = "dispose" => Cardinality(F[t.acct]) >= run.rt.threshold \/ t.acct \in unreset'
  <2>1. run.rt.threshold \in Nat
    <3>1. PICK c : c = run.rt
      OBVIOUS
    <3>2. c \in Offered
      BY <1>4, <3>1 DEF RunOK
    <3>3. c.threshold \in 1..10
      BY <3>2, PatrolAssumption
    <3> QED
      BY <3>1, <3>3
  <2>2. t.at = "dispose" /\ a \notin unreset => Cardinality(F[a]) >= run.rt.threshold
    BY <1>11, <1>12, <1>13, <1>14, <2>1
  <2> QED
    BY <1>1, <1>11, <2>2
<1>17. \A b \in Accounts : F[b] = fails[b] \/ Holds(workers[w], b)
  BY <1>2, <1>3, <1>12
<1>18. \A b : (Holds(t, b) => Holds(workers[w], b)) /\ ~Uncounted(t, b)
  BY <1>2, <1>11
<1>19. \A b : b \in unreset => b \in unreset'
  BY <1>1
<1>20. /\ fails' = F /\ streak' = [b \in Accounts |-> streak'[b]] /\ t.at # "idle"
       /\ \A b : Uncounted(t, b) => Uncounted(workers[w], b) /\ F[b] = fails[b]
  BY <1>2, <1>11, <1>12
<1> QED
  BY <1>1, <1>10, <1>11, <1>12, <1>15, <1>16, <1>17, <1>18, <1>19, <1>20, WorkerMoves

LEMMA DisposeStreak == ASSUME PatrolInv, NEW w \in Workers, Dispose(w) PROVE StreakInv'
<1>1. /\ WorkerStep(w) /\ workers' = [workers EXCEPT ![w] = Looping] /\ StreakInv
      /\ UNCHANGED <<fails, rows, unreset>>
  BY DEF Dispose, WorkerStep, CheckedAs, CheckedAfter, Becomes, Looping, PatrolInv
<1>2. streak' = streak \/ streak' = [streak EXCEPT ![Acct(w)] = 0]
  BY DEF Dispose
<1>3. /\ streak' = [b \in Accounts |-> streak'[b]]
      /\ \A b \in Accounts : streak'[b] = streak[b] \/ streak'[b] = 0
  BY <1>1, <1>2 DEF StreakInv
<1>4. \A b \in Accounts : StreakOK(b)'
  BY <1>1, <1>3, StreakSame
<1>5. PICK F : F = fails
  OBVIOUS
<1>6. F = [b \in Accounts |-> F[b]] /\ fails' = F
  BY <1>1, <1>5 DEF StreakInv
<1> QED
  BY <1>1, <1>3, <1>4, <1>5, <1>6, LoopingOK, WorkerMoves

LEMMA StreakInit == ASSUME Init PROVE StreakInv
<1>1. /\ run = NoRun /\ NoRun.at = "none" /\ workers = [w \in Workers |-> Idle]
      /\ fails = [a \in Accounts |-> IF a \in FailedBefore THEN {0} ELSE {}]
      /\ streak = [a \in Accounts |-> Cardinality(fails[a])]
  BY DEF Init, NoRun
<1>2. Idle.at = "idle" /\ WorkerOK(Idle)
  BY DEF Idle, WorkerOK
<1>3. ASSUME NEW a \in Accounts
      PROVE  StreakOK(a)
  <2>1. PICK F : F = fails[a]
    OBVIOUS
  <2>2. F = {0} \/ F = {}
    BY <1>1, <2>1
  <2>3. IsFiniteSet(F) /\ \A i \in F : i = 0
    BY <2>2, FS_EmptySet, FS_Singleton
  <2>4. Cardinality(F) \in Nat /\ streak[a] = Cardinality(F)
    BY <1>1, <2>1, <2>3, FS_CardinalityType
  <2> QED
    BY <2>1, <2>3, <2>4, IdsAre DEF StreakOK
<1>4. streak = [a \in Accounts |-> streak[a]] /\ fails = [a \in Accounts |-> fails[a]]
  BY <1>1
<1> QED
  BY <1>1, <1>2, <1>3, <1>4 DEF StreakInv

LEMMA PersistStreak == ASSUME PatrolInv, NEW e \in ending, Persist(e) PROVE StreakInv'
<1>1. PICK W : W = IF rows[e.id] = "trimmed" THEN rows ELSE [rows EXCEPT ![e.id] = e.status]
  OBVIOUS
<1>2. PICK n \in 0..MaxRuns : Filled(n)
  BY DEF PatrolInv, RowInv
<1>3. \A i \in Ids : W[i] = "none" => rows[i] = "none"
  <2>1. e.status # "none"
    BY <1>2 DEF Filled, EndingOK
  <2>2. rows = [i \in Ids |-> rows[i]]
    BY DEF PatrolInv, RowInv
  <2> QED
    BY <1>1, <2>1, <2>2
<1>4. UNCHANGED <<run, workers, streak, fails, unreset>> /\ rows' \in {rows, Trimmed(W), Trimmed(rows)}
  BY <1>1 DEF Persist, runVars, stateVars, historyVars
<1>5. \A i \in Ids : /\ Trimmed(W)[i] = "none" => W[i] = "none"
                     /\ Trimmed(rows)[i] = "none" => rows[i] = "none"
  BY TrimFacts
<1>6. \A i \in Ids : rows'[i] = "none" => rows[i] = "none"
  <2>1. PICK T, V : T = Trimmed(W) /\ V = Trimmed(rows)
    OBVIOUS
  <2>2. \A i \in Ids : (T[i] = "none" => W[i] = "none") /\ (V[i] = "none" => rows[i] = "none")
    BY <1>5, <2>1
  <2>3. rows' = rows \/ rows' = T \/ rows' = V
    BY <1>4, <2>1
  <2> QED
    BY <1>3, <2>2, <2>3
<1> QED
  BY <1>4, <1>6, StreakUnmoved DEF PatrolInv

LEMMA PatrolInit == ASSUME Init PROVE PatrolInv
<1>1. accounts = [a \in Accounts |-> accounts[a]]
  BY DEF Init
<1> QED
  BY <1>1, RowInit, StreakInit DEF PatrolInv

\* Only a worker that enables or disposes changes an account.
LEMMA WhoChangesAccounts ==
  ASSUME [Next]_vars
  PROVE  UNCHANGED accounts \/ \E w \in Workers : Enable(w) \/ Dispose(w)
<1>1. UNCHANGED vars => UNCHANGED accounts
  BY DEF vars, stateVars
<1> QED
  BY <1>1 DEF Next, Update, StopRun, Crash, Ask, CallerStep, Lock, InsertRun, InsertFails, RunStep, ListGroup,
              StartWorkers, Finish, WorkerStep, NextAccount, Check, Test, ResetOk, Escalate, Persist, stateVars

LEMMA PatrolStep == ASSUME PatrolInv, [Next]_vars PROVE PatrolInv'
<1>1. RowInv'
  BY RowStep DEF PatrolInv
<1>0. accounts' = [a \in Accounts |-> accounts'[a]]
  <2>1. accounts = [a \in Accounts |-> accounts[a]]
    BY DEF PatrolInv
  <2>2. UNCHANGED accounts \/ \E a, v : accounts' = [accounts EXCEPT ![a] = v]
    BY WhoChangesAccounts DEF Enable, Dispose
  <2> QED
    BY <2>1, <2>2
<1> SUFFICES StreakInv'
  BY <1>0, <1>1 DEF PatrolInv
<1>2. CASE UNCHANGED <<run, workers, streak, fails, unreset, rows>>
  BY <1>2, StreakUnmoved DEF PatrolInv
<1>3. CASE UNCHANGED vars \/ Update \/ StopRun
  BY <1>2, <1>3 DEF vars, Update, StopRun, runVars, stateVars, historyVars
<1>4. CASE \E c \in Callers : Ask(c) \/ CallerStep(c)
  <2>1. PICK c \in Callers : Ask(c) \/ Lock(c) \/ InsertRun(c) \/ InsertFails(c)
    BY <1>4 DEF CallerStep
  <2>2. CASE Ask(c) \/ Lock(c) \/ InsertFails(c)
    BY <1>2, <2>2 DEF Ask, Lock, InsertFails, runVars, stateVars, historyVars
  <2>3. CASE InsertRun(c)
    BY <2>3, InsertStreak
  <2> QED
    BY <2>1, <2>2, <2>3
<1>5. CASE RunStep
  <2>1. CASE Finish
    <3>1. PICK status \in {"stopped", "success"} : FinishAs(status, run.stats)
      BY <2>1 DEF Finish
    <3>2. UNCHANGED <<streak, fails, unreset, rows>> /\ run' = NoRun /\ workers' = [w \in Workers |-> Idle]
      BY <2>1, <3>1 DEF Finish, FinishAs, stateVars, historyVars
    <3> QED
      BY <3>2, EndRests DEF PatrolInv
  <2> QED
    BY <1>5, <2>1, ListStreak, StartStreak DEF RunStep
<1>6. CASE \E w \in Workers : WorkerStep(w)
  BY <1>6, TakeStreak, CheckStreak, TestStreak, ResetStreak, EnableStreak, EscalateStreak, DisposeStreak
     DEF WorkerStep
<1>7. CASE \E e \in ending : Persist(e)
  BY <1>7, PersistStreak
<1>8. CASE Crash
  <2>1. /\ run' = NoRun /\ workers' = [w \in Workers |-> Idle]
        /\ UNCHANGED <<streak, fails, unreset, rows>>
    BY <1>8 DEF Crash, stateVars
  <2> QED
    BY <2>1, EndRests DEF PatrolInv
<1> QED
  BY <1>3, <1>4, <1>5, <1>6, <1>7, <1>8 DEF Next

\* Only a worker that disposes turns an account off or deletes it.
LEMMA DisposalIsDue ==
  ASSUME PatrolInv, Next, NEW a \in Accounts, accounts'[a] # accounts[a], accounts'[a] # "on"
  PROVE  Cardinality(fails[a]) >= run.rt.threshold \/ a \in unreset
<1>1. accounts' # accounts /\ accounts = [b \in Accounts |-> accounts[b]]
  BY DEF PatrolInv
<1>2. PICK w \in Workers : Enable(w) \/ Dispose(w)
  BY <1>1, WhoChangesAccounts
<1>3. Dispose(w) /\ a = workers[w].acct
  <2>1. PICK b, v : b = workers[w].acct /\ accounts' = [accounts EXCEPT ![b] = v] /\ (v = "on" \/ Dispose(w))
    BY <1>1, <1>2 DEF Enable, Dispose, Acct
  <2>2. a = b /\ accounts'[a] = v
    BY <1>1, <2>1
  <2> QED
    BY <2>1, <2>2
<1>4. workers[w].at = "dispose" /\ run.at = "work" /\ run # NoRun
  BY <1>3 DEF Dispose, At, NoRun
<1> QED
  BY <1>3, <1>4 DEF PatrolInv, StreakInv, Counted

\* No account is disabled or deleted before it has failed in as many runs in a
\* row as the settings of the acting run say (escalate, handleFailure,
\* processAccount), unless the reset of its count was lost.
THEOREM NobodyIsDisposedHastily == Spec => NoHastyDisposal
<1>1. PatrolInv /\ [Next]_vars
        => [\A a \in Accounts :
               accounts'[a] # accounts[a] /\ accounts'[a] # "on"
                   => Cardinality(fails[a]) >= run.rt.threshold \/ a \in unreset]_vars
  BY DisposalIsDue
<1> QED
  BY <1>1, PatrolInit, PatrolStep, PTL DEF Spec, NoHastyDisposal

-----------------------------------------------------------------------------
(***************************************************************************)
(* Notifier and daily report, beside the patrol and apart from its state.   *)
(***************************************************************************)
WorkerRecords == {N!Looping} \cup [at : {"send", "wait"}, ev : Int, attempt : Int]

\* What the counters, the queue and the loop hold, and that they add up.
NotifierInv ==
    /\ queue \in Seq(Int)
    /\ worker \in WorkerRecords
    /\ counts \in [sent : Int, failed : Int, dropped : Int]
    /\ published \in Int
    /\ EventsAreAccounted

SchedulerHas(d) ==
    senders["scheduler"].at \in {"mark", "remember"} /\ senders["scheduler"].date = d

\* A date whose mark is not lost was delivered at most once; once it was, it is
\* marked, or the scheduler is about to mark it; and the scheduler sends only
\* dates not yet delivered.
OnceInv(d) ==
    d \notin excused =>
        /\ delivered[d]["scheduler"] \in {0, 1}
        /\ delivered[d]["scheduler"] = 1 => marked = d \/ SchedulerHas(d)
        /\ (senders["scheduler"].at = "send" /\ senders["scheduler"].date = d)
             => delivered[d]["scheduler"] = 0

SenderRecords ==
    {R!Idle} \cup [at : {"check", "send", "mark", "remember"}, date : Int]

ReportInv ==
    /\ clock \in [day : Int, due : BOOLEAN]
    /\ senders \in [R!Senders -> SenderRecords]
    /\ delivered \in [R!Dates -> [R!Senders -> Int]]
    /\ \A d \in R!Dates : OnceInv(d)

-----------------------------------------------------------------------------
LEMMA QueueFacts ==
    ASSUME NEW q \in Seq(Int), NEW e \in Int
    PROVE  /\ Append(q, e) \in Seq(Int) /\ Len(Append(q, e)) = Len(q) + 1
           /\ Len(q) \in Int
           /\ q # <<>> => Tail(q) \in Seq(Int) /\ Len(Tail(q)) = Len(q) - 1 /\ Head(q) \in Int
           /\ <<>> \in Seq(Int) /\ Len(<<>>) = 0
  OBVIOUS

LEMMA NotifierInit == ASSUME AlertsInit PROVE NotifierInv
  BY QueueFacts DEF AlertsInit, N!Init, N!Looping, NotifierInv, WorkerRecords, EventsAreAccounted,
     N!EventsAreAccounted, N!InHand

LEMMA WorkerFacts ==
    ASSUME NEW w \in WorkerRecords
    PROVE  /\ w.at \in {"loop", "send", "wait"}
           /\ w.at \in {"send", "wait"} => w \in [at : {"send", "wait"}, ev : Int, attempt : Int]
  BY DEF WorkerRecords, N!Looping

\* What is known of the events published, as a number.
Known == counts.sent + counts.failed + counts.dropped + Len(queue) + N!InHand

Account == Known = published

LEMMA AccountIs == EventsAreAccounted <=> Account
  BY DEF EventsAreAccounted, N!EventsAreAccounted, Known, Account

LEMMA AccountKept ==
    ASSUME queue' \in Seq(Int), worker' \in WorkerRecords,
           counts' \in [sent : Int, failed : Int, dropped : Int],
           published' \in Int,
           Account'
    PROVE  NotifierInv'
  <1>1. EventsAreAccounted'
    BY DEF EventsAreAccounted, N!EventsAreAccounted, Known, Account
  <1> QED
    BY <1>1 DEF NotifierInv

\* Each step of the notifier moves one event from one place to the next.
LEMMA NotifierStepKeeps == ASSUME NotifierInv, NotifierStep PROVE NotifierInv'
  <1>1. /\ queue \in Seq(Int) /\ worker \in WorkerRecords /\ published \in Int
        /\ counts \in [sent : Int, failed : Int, dropped : Int]
        /\ Len(queue) \in Int /\ counts.sent \in Int /\ counts.failed \in Int /\ counts.dropped \in Int
    BY DEF NotifierInv
  <1>a. Account /\ N!InHand \in Int
    BY AccountIs DEF NotifierInv, N!InHand
  <1>b. Known \in Int
    BY <1>1, <1>a DEF Known
  <1>2. CASE N!Publish
    <2>1. CASE Len(queue) < QueueSize
      <3>1. /\ queue' = Append(queue, published + 1) /\ published' = published + 1
            /\ UNCHANGED <<counts, worker>>
        BY <1>2, <2>1 DEF N!Publish
      <3>2. queue' \in Seq(Int) /\ Len(queue') = Len(queue) + 1
        BY <1>1, <3>1, QueueFacts
      <3>3. Known' = Known + 1
        BY <1>1, <1>a, <3>1, <3>2 DEF Known, N!InHand
      <3>9. Account'
        BY <1>1, <3>1, <3>2, <3>3, <1>a, <1>b DEF Account
      <3> QED
        BY <1>1, <3>1, <3>2, <3>3, <3>9, AccountKept
    <2>2. CASE ~(Len(queue) < QueueSize)
      <3>1. /\ counts' = [counts EXCEPT !["dropped"] = @ + 1]
            /\ published' = published + 1
            /\ UNCHANGED <<queue, worker>>
        BY <1>2, <2>2 DEF N!Publish, N!Counted
      <3>2. /\ counts' \in [sent : Int, failed : Int, dropped : Int]
            /\ counts'.sent = counts.sent /\ counts'.failed = counts.failed
            /\ counts'.dropped = counts.dropped + 1
        BY <1>1, <3>1
      <3>3. Known' = Known + 1
        BY <1>1, <1>a, <3>1, <3>2 DEF Known, N!InHand
      <3>9. Account'
        BY <1>1, <3>1, <3>2, <3>3, <1>a, <1>b DEF Account
      <3> QED
        BY <1>1, <3>1, <3>2, <3>3, <3>9, AccountKept
    <2> QED
      BY <2>1, <2>2
  <1>3. CASE N!Switch
    BY <1>3 DEF N!Switch, N!InHand, NotifierInv, EventsAreAccounted, N!EventsAreAccounted
  <1>5. CASE N!Take
    <2>1. /\ worker' = [at |-> "send", ev |-> Head(queue), attempt |-> 0]
          /\ worker.at = "loop" /\ worker'.at = "send"
          /\ queue # <<>> /\ queue' = Tail(queue)
          /\ UNCHANGED <<counts, published>>
      BY <1>5 DEF N!Take, N!Looping
    <2>2. queue' \in Seq(Int) /\ Len(queue') = Len(queue) - 1 /\ Head(queue) \in Int
      BY <1>1, <2>1, QueueFacts
    <2>3. worker' \in WorkerRecords
      BY <2>1, <2>2 DEF WorkerRecords
    <2>4. (N!InHand)' = 1 /\ N!InHand = 0
      BY <2>1 DEF N!InHand
    <2>5. Known' = Known
      BY <1>1, <2>1, <2>2, <2>4 DEF Known
    <2>9. Account'
      BY <1>1, <2>1, <2>2, <2>3, <2>5, <1>a, <1>b DEF Account
    <2> QED
      BY <1>1, <2>1, <2>2, <2>3, <2>5, <2>9, AccountKept
  <1>7. CASE N!SendOk
    <2>1. /\ worker.at = "send" /\ worker'.at = "loop" /\ worker' \in WorkerRecords
          /\ counts' = [counts EXCEPT !["sent"] = @ + 1]
          /\ UNCHANGED <<queue, published>>
      BY <1>7 DEF N!SendOk, N!Counted, N!Looping, WorkerRecords
    <2>2. /\ counts' \in [sent : Int, failed : Int, dropped : Int]
          /\ counts'.sent = counts.sent + 1 /\ counts'.failed = counts.failed
          /\ counts'.dropped = counts.dropped
      BY <1>1, <2>1
    <2>3. (N!InHand)' = 0 /\ N!InHand = 1
      BY <2>1 DEF N!InHand
    <2>4. Known' = Known
      BY <1>1, <2>1, <2>2, <2>3 DEF Known
    <2>9. Account'
      BY <1>1, <2>1, <2>2, <2>4, <1>a, <1>b DEF Account
    <2> QED
      BY <1>1, <2>1, <2>2, <2>4, <2>9, AccountKept
  <1>8. CASE N!SendFails
    <2>1. worker.at = "send" /\ UNCHANGED <<queue, published>> /\ N!InHand = 1
      BY <1>8 DEF N!SendFails, N!InHand
    <2>2. CASE worker.attempt = MaxRetries
      <3>1. /\ worker'.at = "loop" /\ worker' \in WorkerRecords
            /\ counts' = [counts EXCEPT !.failed = @ + 1]
        BY <1>8, <2>2 DEF N!SendFails, N!GivenUp, N!Looping, WorkerRecords
      <3>2. /\ counts' \in [sent : Int, failed : Int, dropped : Int]
            /\ counts'.sent = counts.sent /\ counts'.failed = counts.failed + 1
            /\ counts'.dropped = counts.dropped
        BY <1>1, <3>1
      <3>3. Known' = Known
        BY <1>1, <2>1, <3>1, <3>2 DEF Known, N!InHand
      <3>9. Account'
        BY <1>1, <2>1, <3>1, <3>2, <3>3, <1>a, <1>b DEF Account
      <3> QED
        BY <1>1, <2>1, <3>1, <3>2, <3>3, <3>9, AccountKept
    <2>3. CASE worker.attempt # MaxRetries
      <3>1. worker' = [worker EXCEPT !.at = "wait"] /\ UNCHANGED counts
        BY <1>8, <2>3 DEF N!SendFails
      <3>2. worker \in [at : {"send", "wait"}, ev : Int, attempt : Int]
        BY <1>1, <2>1, WorkerFacts
      <3>3. worker' \in WorkerRecords /\ worker'.at = "wait"
        BY <3>1, <3>2 DEF WorkerRecords
      <3>4. Known' = Known
        BY <2>1, <3>1, <3>3 DEF Known, N!InHand
      <3>9. Account'
        BY <1>1, <2>1, <3>1, <3>3, <3>4, <1>a, <1>b DEF Account
      <3> QED
        BY <1>1, <2>1, <3>1, <3>3, <3>4, <3>9, AccountKept
    <2> QED
      BY <2>2, <2>3
  <1>9. CASE N!Retry
    <2>1. worker \in [at : {"send", "wait"}, ev : Int, attempt : Int]
      BY <1>1, <1>9, WorkerFacts DEF N!Retry
    <2>2. worker' \in [at : {"send", "wait"}, ev : Int, attempt : Int]
      <3>1. PICK r \in [at : {"send", "wait"}, ev : Int, attempt : Int] : worker = r
        BY <2>1
      <3>2. worker' = [at |-> "send", ev |-> r.ev, attempt |-> r.attempt + 1]
        BY <1>9, <3>1 DEF N!Retry
      <3> QED
        BY <3>2
    <2>3. worker'.at = "send" /\ worker.at = "wait"
      BY <1>9, <2>1 DEF N!Retry
    <2>4. worker' \in WorkerRecords
      BY <2>2 DEF WorkerRecords
    <2>5. Known' = Known /\ UNCHANGED <<queue, counts, published>>
      BY <1>9, <2>3 DEF Known, N!InHand, N!Retry
    <2>9. Account'
      BY <1>1, <2>4, <2>5, <1>a, <1>b DEF Account
    <2> QED
      BY <1>1, <2>4, <2>5, <2>9, AccountKept
  <1> QED
    BY <1>2, <1>3, <1>5, <1>7, <1>8, <1>9 DEF NotifierStep, N!WorkerStep

LEMMA NotifierKept == ASSUME NotifierInv, [AlertsNext]_alertsVars PROVE NotifierInv'
  <1>1. CASE NotifierStep
    BY <1>1, NotifierStepKeeps
  <1>3. CASE AlertsCrash
    BY <1>3, QueueFacts DEF AlertsCrash, NotifierInv, WorkerRecords, N!Looping, EventsAreAccounted,
       N!EventsAreAccounted, N!InHand
  <1>4. CASE UNCHANGED notifierVars
    BY <1>4 DEF notifierVars, NotifierInv, EventsAreAccounted, N!EventsAreAccounted, N!InHand
  <1> QED
    BY <1>1, <1>3, <1>4 DEF AlertsNext, alertsVars, ReportStep

\* The counters of the notification centre (notifier.go), its queue and the event
\* in hand account for every event that was published, the dropped ones included,
\* for any size of the queue and number of retries.
THEOREM EventsAccounted == AlertsSpec => []EventsAreAccounted
  <1>1. AlertsInit => NotifierInv
    BY NotifierInit
  <1>2. NotifierInv /\ [AlertsNext]_alertsVars => NotifierInv'
    BY NotifierKept
  <1>3. NotifierInv => EventsAreAccounted
    BY DEF NotifierInv
  <1> QED
    BY <1>1, <1>2, <1>3, PTL DEF AlertsSpec

-----------------------------------------------------------------------------
LEMMA ReportInit == ASSUME AlertsInit PROVE ReportInv
  BY DEF AlertsInit, R!Init, R!Idle, R!Senders, R!Dates, R!Never, ReportInv, OnceInv,
     SchedulerHas, SenderRecords

\* What the step of a sender does to the dates, the scheduler's and the other's.
LEMMA SenderStepKeeps ==
    ASSUME ReportInv, NEW s \in R!Senders, R!SenderStep(s)
    PROVE  ReportInv'
  <1> USE DEF R!Date, R!Goes, R!Ends, R!Idle, R!Senders, SenderRecords, ReportInv
  <1>1. CASE R!Sent(s)
    <2>1. senders[s] \in [at : {"check", "send", "mark", "remember"}, date : Int]
      BY <1>1 DEF R!Sent
    <2>2. /\ senders' = [senders EXCEPT ![s].at = "mark"]
          /\ UNCHANGED <<clock, excused, marked>>
      BY <1>1 DEF R!Sent, R!MarkedAtSend
    <2>3. senders' \in [R!Senders -> SenderRecords]
      BY <2>1, <2>2
    <2>4. delivered' \in [R!Dates -> [R!Senders -> Int]]
      <3>1. PICK n : /\ delivered' = [delivered EXCEPT ![senders[s].date] =
                            [delivered[senders[s].date] EXCEPT ![s] = n]]
                     /\ n = IF s = "manual" THEN 1 ELSE delivered[senders[s].date][s] + 1
        BY <1>1 DEF R!Sent
      <3>2. CASE senders[s].date \in R!Dates
        <4>1. delivered[senders[s].date] \in [R!Senders -> Int] /\ n \in Int
          BY <3>1, <3>2
        <4>2. [delivered[senders[s].date] EXCEPT ![s] = n] \in [R!Senders -> Int]
          BY <4>1
        <4> QED
          BY <3>1, <3>2, <4>2
      <3>3. CASE senders[s].date \notin R!Dates
        BY <1>1, <3>3 DEF R!Sent
      <3> QED
        BY <3>2, <3>3
    <2>5. ASSUME NEW d \in R!Dates, OnceInv(d) PROVE OnceInv(d)'
      <3>1. CASE s = "manual"
        BY <1>1, <2>1, <2>2, <2>5, <3>1 DEF R!Sent, OnceInv, SchedulerHas
      <3>2. CASE s = "scheduler"
        BY <1>1, <2>1, <2>2, <2>5, <3>2 DEF R!Sent, OnceInv, SchedulerHas
      <3> QED BY <3>1, <3>2
    <2> QED BY <2>2, <2>3, <2>4, <2>5
  <1>2. CASE R!SendFails(s)
    BY <1>2 DEF R!SendFails, R!MarkedAtSend, OnceInv, SchedulerHas
  <1>3. CASE R!Mark(s)
    <2>1. senders[s] \in [at : {"check", "send", "mark", "remember"}, date : Int]
      BY <1>3 DEF R!Mark
    <2>2. /\ senders' = [senders EXCEPT ![s].at = "remember"]
          /\ UNCHANGED <<clock, delivered>>
          /\ \/ marked' = senders[s].date /\ excused' = excused \cup ({marked} \ {senders[s].date, R!Never})
             \/ UNCHANGED <<marked, excused>>
      BY <1>3 DEF R!Mark
    <2>3. senders' \in [R!Senders -> SenderRecords]
      BY <2>1, <2>2
    <2>4. ASSUME NEW d \in R!Dates, OnceInv(d) PROVE OnceInv(d)'
      <3>1. d # R!Never
        BY DEF R!Dates, R!Never
      <3> QED
        BY <1>3, <2>1, <2>2, <2>4, <3>1 DEF R!Mark, OnceInv, SchedulerHas
    <2> QED BY <2>2, <2>3, <2>4
  <1>4. CASE R!Remember(s)
    BY <1>4 DEF R!Remember, OnceInv, SchedulerHas
  <1> QED
    BY <1>1, <1>2, <1>3, <1>4 DEF R!SenderStep

LEMMA ReportStepKeeps == ASSUME ReportInv, ReportStep PROVE ReportInv'
  <1> USE DEF R!Date, R!Goes, R!Ends, R!Idle, R!Senders, SenderRecords, ReportInv
  <1>1. CASE \E s \in R!Senders : R!SenderStep(s)
    BY <1>1, SenderStepKeeps
  <1>2. CASE \E s \in R!Senders : R!Begin(s)
    <2>1. R!CoverDate \in Int
      BY DEF R!CoverDate
    <2> QED
      BY <1>2, <2>1 DEF R!Begin, OnceInv, SchedulerHas
  <1>3. CASE R!Check
    BY <1>3 DEF R!Check, R!SentBefore, OnceInv, SchedulerHas
  <1>4. CASE R!Tick
    <2>1. clock' \in [day : Int, due : BOOLEAN]
      <3>1. clock \in [day : Int, due : BOOLEAN] /\ clock.day + 1 \in Int
        OBVIOUS
      <3>2. \/ clock' = [day |-> clock.day + 1, due |-> FALSE]
            \/ clock' = [clock EXCEPT !.due = TRUE]
        BY <1>4, Zenon DEF R!Tick
      <3>3. CASE clock' = [day |-> clock.day + 1, due |-> FALSE]
        BY <3>1, <3>3
      <3>4. CASE clock' = [clock EXCEPT !.due = TRUE]
        BY <3>1, <3>4
      <3> QED
        BY <3>2, <3>3, <3>4
    <2> QED
      BY <1>4, <2>1 DEF R!Tick, OnceInv, SchedulerHas
  <1>5. CASE R!Update
    BY <1>5 DEF R!Update, OnceInv, SchedulerHas
  <1> QED
    BY <1>1, <1>2, <1>3, <1>4, <1>5 DEF ReportStep, R!SchedulerStep

LEMMA ReportKept == ASSUME ReportInv, [AlertsNext]_alertsVars PROVE ReportInv'
  <1>1. CASE ReportStep
    BY <1>1, ReportStepKeeps
  <1>2. CASE AlertsCrash
    <2>1. /\ senders' = [s \in R!Senders |-> R!Idle]
          /\ UNCHANGED <<clock, marked, delivered>>
          /\ \A d : d \in excused \/ SchedulerHas(d) => d \in excused'
      BY <1>2 DEF AlertsCrash, R!Crash, R!Date, SchedulerHas, R!Senders
    <2> QED
      BY <2>1 DEF ReportInv, OnceInv, SchedulerHas, SenderRecords, R!Senders, R!Idle
  <1>3. CASE UNCHANGED reportVars
    BY <1>3 DEF reportVars, ReportInv, OnceInv, SchedulerHas
  <1> QED
    BY <1>1, <1>2, <1>3 DEF AlertsNext, alertsVars, NotifierStep

\* The scheduler (report/service.go) delivers no date twice whose mark was written
\* and stayed, across any number of days, restarts and manual sends.
THEOREM ReportedOnce == AlertsSpec => []ScheduledOnce
  <1>1. AlertsInit => ReportInv
    BY ReportInit
  <1>2. ReportInv /\ [AlertsNext]_alertsVars => ReportInv'
    BY ReportKept
  <1>3. ReportInv => ScheduledOnce
    BY DEF ReportInv, OnceInv, ScheduledOnce, R!ScheduledOnce
  <1> QED
    BY <1>1, <1>2, <1>3, PTL DEF AlertsSpec

-----------------------------------------------------------------------------
(***************************************************************************)
(* Redistribution batches.  A deduction is the only one under its key, so   *)
(* what is known of a donor is known of the money: its entry is waiting and *)
(* nothing has moved, it is being charged, or it is settled.                *)
(***************************************************************************)
PB == INSTANCE Payout_proofs WITH
    Workers <- {Executor}, UpKeys <- Keys, UpKeyOf <- [k \in Keys |-> k],
    Requests <- [key : Keys, delta : {-a : a \in Amounts}],
    Mistakable <- {}

Statuses == {"draft", "running", "success", "partial", "stopped", "failed"}

\* Nothing has moved under the key, and nothing is on its way.
Untouched(k) == applied[k] = 0 /\ \A m \in sent : m.up # k

\* What has moved under the key is all that ever will.
Quiet(k) == applied[k] # 0 \/ \A m \in sent : m.up # k

\* No donor of the batch has been called on.
Unspent(b) ==
    /\ \A u \in Users : Untouched(SlotOf(b, u))
    /\ \A l \in lots : l.batch # b

MoneyInv ==
    /\ applied = [k \in Keys |-> applied[k]]
    /\ \A k \in Keys : applied[k] \in Int /\ applied[k] <= 0
    /\ \A m \in sent : m.up \in Keys /\ m.delta \in Int /\ m.delta < 0

\* A lot is what was taken from its donor.
LotsInv ==
    /\ IsFiniteSet(lots)
    /\ \A l \in lots :
          /\ l.batch \in BatchIds /\ l.user \in Users
          /\ l = [batch |-> l.batch, user |-> l.user, amount |-> TakenBy(l.batch, l.user)]
          /\ l.amount # 0

DonorRecords == [user : Users, planned : Nat, actual : Nat, status : {"planned", "processing", "success", "failed", "skipped"}]

DonorsOK(D) ==
    /\ D \in Seq(DonorRecords)
    /\ \A i, j \in DOMAIN D : i # j => D[i].user # D[j].user

NewDonor(d) == d.status = "planned" /\ d.actual = 0 /\ d.planned # 0

NewDonors(D) == DonorsOK(D) /\ \A i \in DOMAIN D : NewDonor(D[i])

\* Every deduction that nothing went wrong with has its lot.
AllInLots(b) ==
    \A u \in Users : SlotOf(b, u) \notin troubled =>
        /\ Quiet(SlotOf(b, u))
        /\ applied[SlotOf(b, u)] # 0 => [batch |-> b, user |-> u, amount |-> TakenBy(b, u)] \in lots

RowOK(b) ==
    \/ batches[b] = NoBatch /\ Unspent(b)
    \/ batches[b] = Deleted
    \/ /\ batches[b] \in [status : Statuses, trigger : {"manual", "schedule"}, policy : Policies,
                          donors : Seq(DonorRecords), reclaim : Nat, cancelled : BOOLEAN]
       /\ batches[b].reclaim <= TakenIn(b)
       /\ batches[b].status = "draft" => Unspent(b) /\ NewDonors(batches[b].donors)
       /\ batches[b].cancelled => Unspent(b) /\ batches[b].status = "stopped"
       /\ batches[b].status \in {"success", "partial"} => AllInLots(b)

Settled(b, d) ==
    \/ d.status = "success" /\ d.actual # 0 /\ d.actual = TakenBy(b, d.user)
    \/ /\ d.status \in {"failed", "skipped"} /\ d.actual = 0
       /\ SlotOf(b, d.user) \in troubled \/ Untouched(SlotOf(b, d.user))

Waiting(b, d) == NewDonor(d) /\ Untouched(SlotOf(b, d.user))

Charged(b, d) ==
    /\ d.status = "processing" /\ d.actual = 0 /\ d.planned # 0
    /\ \A m \in sent : m.up = SlotOf(b, d.user) => m.delta = -d.planned
    /\ TakenBy(b, d.user) \in {0, d.planned}

RunInv(r) ==
    /\ r \in [at : {"mark", "next", "pay", "abort"}, batch : BatchIds, donors : Seq(DonorRecords), row : Nat,
              stopping : BOOLEAN, status : {"running", "stopped", "failed"}]
    /\ r.at = "mark" => r.row = 0
    /\ r.at # "mark" =>
          /\ DonorsOK(r.donors)
          /\ batches[r.batch].status = "running"
          /\ r.row <= Len(r.donors)
          /\ r.at = "pay" => r.row < Len(r.donors)
          /\ \A i \in DOMAIN r.donors :
                IF i <= r.row THEN Settled(r.batch, r.donors[i])
                ELSE IF r.at = "pay" /\ i = r.row + 1 THEN Charged(r.batch, r.donors[i])
                ELSE Waiting(r.batch, r.donors[i])
          /\ \A u \in Users : (\A i \in DOMAIN r.donors : r.donors[i].user # u) => Untouched(SlotOf(r.batch, u))
          /\ \A l \in lots : l.batch = r.batch => r.at = "next" /\ r.row = Len(r.donors)
          /\ r.at = "abort" => r.status # "running"

CallInv ==
    IF Running("pay")
    THEN calls[Executor] = [pc |-> calls[Executor].pc,
                            req |-> [key |-> SlotOf(execution.batch, execution.donors[NextRow].user),
                                     delta |-> -execution.donors[NextRow].planned]]
    ELSE calls[Executor] = Credit!Idle

RoundInv ==
    ~blind =>
        /\ due = 0 \/ (due = 1 /\ HasScheduled = {})
        /\ \A b, c \in HasScheduled : b = c

BatchInv ==
    /\ policy \in Policies
    /\ income \in [Users -> Nat] /\ spent \in [Users -> Nat]
    /\ batches = [b \in BatchIds |-> batches[b]]
    /\ MoneyInv /\ LotsInv
    /\ \A b \in BatchIds : RowOK(b)
    /\ execution = AtRest \/ RunInv(execution)
    /\ CallInv
    /\ due \in Nat /\ RoundInv

-----------------------------------------------------------------------------
LEMMA SlotsMapped == PB!Mapped
  BY DEF PB!Mapped

\* A step of the service that no key but that of the running call can feel.
LEMMA ServiceIsMove ==
  ASSUME UNCHANGED creditVars \/ CreditStep \/ Upstream \/ BatchCrash
         \/ (\E k \in Keys : \E a : a # 0 /\ Credit!Call(Executor, [key |-> k, delta |-> a]) /\ UNCHANGED <<final, applied, sent>>)
         \/ (Credit!Return(Executor) /\ UNCHANGED <<final, applied, sent>>)
  PROVE  PB!Move
<1>1. Credit!Send(Executor) \/ Credit!Succeed(Executor) \/ Credit!Fail(Executor) => PB!WorkerStep(Executor)
  BY DEF Credit!Send, Credit!Succeed, Credit!Fail, Credit!End, Credit!Request, Credit!Final, PB!WorkerStep,
     PB!Send, PB!Succeed, PB!Fail, PB!End, PB!Request, PB!Final
<1>2. \A r : Credit!Call(Executor, r) => PB!Call(Executor, r)
  BY DEF Credit!Call, PB!Call, Credit!Idle, PB!Idle
<1>3. Credit!Return(Executor) => PB!Return(Executor)
  BY DEF Credit!Return, PB!Return, Credit!Idle, PB!Idle, Credit!Returned, PB!Returned
<1>4. Credit!Upstream => PB!Upstream
  BY DEF Credit!Upstream, Credit!Apply, Credit!Lose, PB!Upstream, PB!Apply, PB!Lose
<1>5. Credit!Crash => PB!Crash
  BY DEF Credit!Crash, PB!Crash, Credit!Idle, PB!Idle
<1>6. CASE UNCHANGED creditVars
  BY <1>6 DEF PB!Move, PB!vars, creditVars
<1>7. CASE CreditStep
  BY <1>1, <1>7 DEF PB!Move, CreditStep
<1>8. CASE Upstream
  BY <1>4, <1>8 DEF PB!Move, Upstream
<1>9. CASE BatchCrash
  BY <1>5, <1>9 DEF PB!Move, BatchCrash
<1>10. CASE \E k \in Keys : \E a : a # 0 /\ Credit!Call(Executor, [key |-> k, delta |-> a])
                                 /\ UNCHANGED <<final, applied, sent>>
  BY <1>2, <1>10 DEF PB!Move, PB!Pay
<1>11. CASE Credit!Return(Executor) /\ UNCHANGED <<final, applied, sent>>
  BY <1>3, <1>11 DEF PB!Move
<1> QED
  BY <1>6, <1>7, <1>8, <1>9, <1>10, <1>11

\* The key of the donor that is being charged.
Charging(k) == Running("pay") /\ k = SlotOf(execution.batch, execution.donors[NextRow].user)

\* What every step leaves of the money.
Moved ==
    /\ \A k \in Keys : applied[k] # 0 => applied'[k] = applied[k]
    /\ \A k \in Keys : ~Charging(k) => (Untouched(k) => Untouched(k)') /\ (Quiet(k) => Quiet(k)')

LEMMA ChargeIs ==
  ASSUME BatchInv, Running("pay"), NEW d, d = execution.donors[NextRow]
  PROVE  /\ RunInv(execution) /\ NextRow \in DOMAIN execution.donors
         /\ execution.batch \in BatchIds /\ d \in DonorRecords /\ Charged(execution.batch, d)
         /\ calls[Executor].req = [key |-> SlotOf(execution.batch, d.user), delta |-> -d.planned]
         /\ SlotOf(execution.batch, d.user) \in Keys
<1>1. RunInv(execution)
  BY DEF BatchInv, Running, AtRest
<1>2. /\ execution.donors \in Seq(DonorRecords) /\ execution.row \in Nat
      /\ execution.row < Len(execution.donors) /\ execution.batch \in BatchIds /\ execution.at = "pay"
  BY <1>1 DEF RunInv, Running
<1>3. Len(execution.donors) \in Nat /\ DOMAIN execution.donors = 1..Len(execution.donors)
  BY <1>2
<1>4. NextRow \in 1..Len(execution.donors) /\ NextRow = execution.row + 1
  BY <1>2, <1>3 DEF NextRow
<1>5. d \in DonorRecords
  BY <1>2, <1>4
<1>6. Charged(execution.batch, d)
  <2>1. ~(NextRow <= execution.row)
    BY <1>2, <1>4
  <2> QED
    BY <1>1, <1>2, <1>3, <1>4, <2>1 DEF RunInv
<1>7. calls[Executor].req = [key |-> SlotOf(execution.batch, d.user), delta |-> -d.planned]
  BY DEF BatchInv, CallInv
<1>8. SlotOf(execution.batch, d.user) \in Keys
  BY <1>2, <1>5 DEF SlotOf, Keys, DonorRecords
<1> QED
  BY <1>1, <1>2, <1>3, <1>4, <1>5, <1>6, <1>7, <1>8

LEMMA UnderIsCharging ==
  ASSUME BatchInv, NEW w \in {Executor}, NEW k \in Keys, PB!Under(w, k)
  PROVE  Charging(k)
<1>1. calls[Executor] # PB!Idle /\ [j \in Keys |-> j][calls[Executor].req.key] = k
  BY DEF PB!Under
<1>2. Running("pay")
  BY <1>1 DEF BatchInv, CallInv, Credit!Idle, PB!Idle
<1>3. PICK d : d = execution.donors[NextRow]
  OBVIOUS
<1>4. /\ calls[Executor].req = [key |-> SlotOf(execution.batch, d.user), delta |-> -d.planned]
      /\ SlotOf(execution.batch, d.user) \in Keys
  BY <1>2, <1>3, ChargeIs
<1> QED
  BY <1>1, <1>2, <1>3, <1>4 DEF Charging

LEMMA ServiceKeeps ==
  ASSUME BatchInv, PB!PayoutOK, PB!Move
  PROVE  PB!PayoutOK' /\ MoneyInv' /\ Moved
<1>1. PB!PayoutOK'
  BY SlotsMapped, PB!PayoutStep
<1>2. \A k \in Keys : applied'[k] = applied[k] \/ (applied[k] = 0 /\ \E m \in sent : m.up = k /\ applied'[k] = m.delta)
  BY PB!AppliedBy
<1>3. \A k \in Keys : applied[k] # 0 => applied'[k] = applied[k]
  BY <1>2
<1>4. ASSUME NEW k \in Keys, ~Charging(k)
      PROVE  (Untouched(k) => Untouched(k)') /\ (Quiet(k) => Quiet(k)')
  <2>1. \A w \in {Executor} : ~PB!Under(w, k)
    BY <1>4, UnderIsCharging
  <2>2. Quiet(k) => Quiet(k)' /\ applied'[k] = applied[k]
    BY <2>1, SlotsMapped, PB!CalmStays DEF Quiet, PB!Calm
  <2> QED
    BY <2>2 DEF Untouched, Quiet
<1>5. \A m \in sent' : m.up \in Keys /\ m.delta \in Int /\ m.delta < 0
  <2>1. SUFFICES ASSUME NEW m \in sent', m \notin sent
                 PROVE  m.up \in Keys /\ m.delta \in Int /\ m.delta < 0
    BY DEF BatchInv, MoneyInv
  <2>2. PB!Under(Executor, m.up) /\ m.delta = calls[Executor].req.delta
    BY <2>1, PB!SentBy
  <2>3. m.up \in Keys
    BY <1>1, <2>1 DEF PB!PayoutOK
  <2>4. Running("pay")
    BY <2>2, <2>3, UnderIsCharging DEF Charging
  <2>5. PICK d : d = execution.donors[NextRow]
    OBVIOUS
  <2>6. /\ d \in DonorRecords /\ Charged(execution.batch, d)
        /\ calls[Executor].req = [key |-> SlotOf(execution.batch, d.user), delta |-> -d.planned]
    BY <2>4, <2>5, ChargeIs
  <2> QED
    BY <2>2, <2>3, <2>6 DEF DonorRecords, Charged
<1>6. applied' = [k \in Keys |-> applied'[k]]
  BY <1>1 DEF PB!PayoutOK
<1>7. \A k \in Keys : applied'[k] \in Int /\ applied'[k] <= 0
  BY <1>2 DEF BatchInv, MoneyInv
<1> QED
  BY <1>1, <1>3, <1>4, <1>5, <1>6, <1>7 DEF MoneyInv, Moved

\* The deduction goes on asking for the same amount.
LEMMA ChargedKept ==
  ASSUME BatchInv, PB!PayoutOK, PB!Move, Running("pay"), NEW b, b = execution.batch,
         NEW d, d = execution.donors[NextRow]
  PROVE  Charged(b, d)'
<1>1. PICK k : k = SlotOf(b, d.user)
  OBVIOUS
<1>2. /\ k \in Keys /\ d \in DonorRecords /\ Charged(b, d)
      /\ calls[Executor].req = [key |-> k, delta |-> -d.planned]
  BY <1>1, ChargeIs
<1>3. PB!Asked(k, -d.planned)
  <2>1. -applied[k] \in {0, d.planned} /\ applied[k] \in Int
    BY <1>1, <1>2 DEF Charged, TakenBy, BatchInv, MoneyInv
  <2>2. applied[k] \in Int /\ d.planned \in Int
    BY <1>2, <2>1 DEF DonorRecords
  <2>3. applied[k] \in {0, -d.planned}
    BY <2>1, <2>2
  <2> QED
    BY <1>1, <1>2, <2>3 DEF PB!Asked, Charged
<1>4. \A w \in {Executor} : PB!Under(w, k) => calls[w].req.delta = -d.planned
  BY <1>2
<1>5. PB!Asked(k, -d.planned)'
  BY <1>2, <1>3, <1>4, SlotsMapped, PB!AskedStays
<1>6. applied'[k] \in {0, -d.planned} /\ \A m \in sent' : m.up = k => m.delta = -d.planned
  BY <1>5 DEF PB!Asked
<1>7. d.planned \in Nat /\ -applied'[k] \in {0, d.planned}
  BY <1>2, <1>6 DEF DonorRecords
<1> QED
  BY <1>1, <1>2, <1>6, <1>7 DEF Charged, TakenBy, SlotOf

LEMMA SlotIsKey == \A b \in BatchIds, u \in Users : SlotOf(b, u) \in Keys
  BY DEF SlotOf, Keys

LEMMA SumAgrees == \A f, S : SumFunctionOnSet(f, S) = PB!SumFunctionOnSet(f, S)
  BY DEF SumFunctionOnSet, FoldFunctionOnSet, MapThenFoldSet,
     PB!SumFunctionOnSet, PB!FoldFunctionOnSet, PB!MapThenFoldSet

LEMMA UsersAreFinite == PB!IsFiniteSet(Users) /\ PB!IsFiniteSet(BatchIds)
  BY BatchAssumption DEF IsFiniteSet, PB!IsFiniteSet

LEMMA TakenGrows ==
  ASSUME MoneyInv, MoneyInv', Moved, NEW b \in BatchIds
  PROVE  TakenIn(b) \in Nat /\ TakenIn(b)' \in Nat /\ TakenIn(b) <= TakenIn(b)'
<1>1. PICK f : f = [u \in Users |-> TakenBy(b, u)]
  OBVIOUS
<1>2. PICK g : g = [u \in Users |-> TakenBy(b, u)']
  OBVIOUS
<1>3. TakenIn(b) = PB!SumFunctionOnSet(f, Users)
  BY <1>1, SumAgrees DEF TakenIn
<1>4. TakenIn(b)' = PB!SumFunctionOnSet(g, Users)
  BY <1>2, SumAgrees DEF TakenIn
<1>5. ASSUME NEW u \in Users
      PROVE  f[u] \in Nat /\ g[u] \in Nat /\ f[u] <= g[u]
  <2>1. PICK k : k = SlotOf(b, u) /\ k \in Keys
    BY SlotIsKey
  <2>2. f[u] = -applied[k] /\ g[u] = -applied'[k]
    BY <1>1, <1>2, <2>1 DEF TakenBy, SlotOf
  <2>3. /\ applied[k] \in Int /\ applied[k] <= 0 /\ applied'[k] \in Int /\ applied'[k] <= 0
        /\ applied[k] # 0 => applied'[k] = applied[k]
    BY <2>1 DEF MoneyInv, Moved
  <2>4. CASE applied[k] # 0
    BY <2>2, <2>3, <2>4
  <2>5. CASE applied[k] = 0
    BY <2>2, <2>3, <2>5
  <2> QED
    BY <2>4, <2>5
<1>6. \A u \in Users : f[u] \in Int /\ g[u] \in Int
  BY <1>5
<1>7. PB!SumFunctionOnSet(f, Users) <= PB!SumFunctionOnSet(g, Users)
  BY <1>5, <1>6, UsersAreFinite, PB!SumBound
<1>8. PB!SumFunctionOnSet(f, Users) \in Nat /\ PB!SumFunctionOnSet(g, Users) \in Nat
  BY <1>5, UsersAreFinite, PB!SumNat
<1> QED
  BY <1>3, <1>4, <1>7, <1>8

\* A batch that no executor works on: its keys rest, and it gets no lots.
Resting(b) ==
    /\ \A u \in Users : ~Charging(SlotOf(b, u))
    /\ \A l \in lots' : l.batch = b => l \in lots

LEMMA UnspentKept ==
  ASSUME Moved, NEW b \in BatchIds, Resting(b), Unspent(b)
  PROVE  Unspent(b)'
<1>1. ASSUME NEW u \in Users PROVE Untouched(SlotOf(b, u))'
  <2>1. PICK k : k = SlotOf(b, u) /\ k \in Keys
    BY SlotIsKey
  <2>2. Untouched(k)'
    BY <2>1 DEF Moved, Resting, Unspent
  <2> QED
    BY <2>1, <2>2 DEF SlotOf
<1> QED
  BY <1>1 DEF Resting, Unspent

LEMMA AllInLotsKept ==
  ASSUME Moved, NEW b \in BatchIds, Resting(b), lots \subseteq lots', troubled \subseteq troubled', AllInLots(b)
  PROVE  AllInLots(b)'
<1>1. ASSUME NEW u \in Users, NEW k, k = SlotOf(b, u), k \notin troubled'
      PROVE  /\ Quiet(k)'
             /\ applied'[k] # 0 => [batch |-> b, user |-> u, amount |-> -applied'[k]] \in lots'
  <2>1. k \in Keys /\ k \notin troubled
    BY <1>1, SlotIsKey
  <2>2. Quiet(k) /\ (applied[k] # 0 => [batch |-> b, user |-> u, amount |-> -applied[k]] \in lots)
    BY <1>1, <2>1 DEF AllInLots, TakenBy
  <2>3. ~Charging(k)
    BY <1>1 DEF Resting
  <2>4. Quiet(k)'
    BY <2>1, <2>2, <2>3 DEF Moved
  <2>5. CASE applied[k] # 0
    <3>1. applied'[k] = applied[k]
      BY <2>1, <2>5 DEF Moved
    <3> QED
      BY <2>2, <2>4, <2>5, <3>1
  <2>6. CASE applied[k] = 0
    <3>1. Untouched(k)'
      BY <2>1, <2>2, <2>3, <2>6 DEF Moved, Untouched, Quiet
    <3> QED
      BY <2>4, <3>1 DEF Untouched
  <2> QED
    BY <2>5, <2>6
<1> QED
  BY <1>1 DEF AllInLots, TakenBy, SlotOf

\* A row that a step does not write stays as it should be.
LEMMA RowKept ==
  ASSUME MoneyInv, MoneyInv', Moved, NEW b \in BatchIds, lots \subseteq lots', troubled \subseteq troubled',
         batches'[b] = batches[b], RowOK(b), Resting(b) \/ batches[b].status = "running"
  PROVE  RowOK(b)'
<1>1. CASE batches[b] = NoBatch
  BY <1>1, UnspentKept DEF RowOK, NoBatch, Deleted
<1>2. CASE batches[b] = Deleted
  BY <1>2 DEF RowOK
<1>3. CASE batches[b] # NoBatch /\ batches[b] # Deleted
  <2>1. batches[b].reclaim <= TakenIn(b)'
    <3>1. batches[b].reclaim \in Nat /\ batches[b].reclaim <= TakenIn(b)
      BY <1>3 DEF RowOK
    <3>2. TakenIn(b) \in Nat /\ TakenIn(b)' \in Nat /\ TakenIn(b) <= TakenIn(b)'
      BY TakenGrows
    <3> QED
      BY <3>1, <3>2
  <2>2. batches[b].status = "draft" \/ batches[b].cancelled => Unspent(b)'
    BY <1>3, UnspentKept DEF RowOK
  <2>3. batches[b].status \in {"success", "partial"} => AllInLots(b)'
    BY <1>3, AllInLotsKept DEF RowOK
  <2> QED
    BY <1>3, <2>1, <2>2, <2>3 DEF RowOK
<1> QED
  BY <1>1, <1>2, <1>3

LEMMA LotsKept ==
  ASSUME Moved, LotsInv, lots' = lots
  PROVE  LotsInv'
<1>1. ASSUME NEW l \in lots
      PROVE  /\ l.batch \in BatchIds /\ l.user \in Users /\ l.amount # 0
             /\ l = [batch |-> l.batch, user |-> l.user, amount |-> -applied'[SlotOf(l.batch, l.user)]]
  <2>1. PICK k : k = SlotOf(l.batch, l.user) /\ k \in Keys
    BY SlotIsKey DEF LotsInv
  <2>2. /\ l.batch \in BatchIds /\ l.user \in Users /\ l.amount # 0
        /\ l = [batch |-> l.batch, user |-> l.user, amount |-> -applied[k]]
    BY <2>1 DEF LotsInv, TakenBy
  <2>3. l.amount = -applied[k]
    BY <2>2
  <2>4. applied[k] # 0
    BY <2>2, <2>3
  <2> QED
    BY <2>1, <2>2, <2>4 DEF Moved
<1> QED
  BY <1>1 DEF LotsInv, TakenBy, SlotOf

-----------------------------------------------------------------------------
(***************************************************************************)
(* The run.                                                                 *)
(***************************************************************************)
\* A donor whose turn is over, or has not come, stays as it is.
LEMMA DonorKept ==
  ASSUME Moved, troubled \subseteq troubled', NEW b \in BatchIds, NEW d \in DonorRecords,
         ~Charging(SlotOf(b, d.user))
  PROVE  /\ Settled(b, d) => Settled(b, d)'
         /\ Waiting(b, d) => Waiting(b, d)'
<1>1. PICK k : k = SlotOf(b, d.user) /\ k \in Keys
  BY SlotIsKey DEF DonorRecords
<1>2. Untouched(k) => Untouched(k)'
  BY <1>1 DEF Moved
<1>3. Waiting(b, d) => Waiting(b, d)'
  BY <1>1, <1>2 DEF Waiting, NewDonor, SlotOf
<1>4. CASE d.status = "success" /\ d.actual # 0 /\ d.actual = TakenBy(b, d.user)
  <2>1. d.actual = -applied[k]
    BY <1>1, <1>4 DEF TakenBy
  <2>2. applied[k] # 0
    BY <1>4, <2>1
  <2>3. d.actual = -applied'[k]
    BY <1>1, <2>1, <2>2 DEF Moved
  <2> QED
    BY <1>1, <1>3, <1>4, <2>3 DEF Settled, TakenBy, SlotOf
<1>5. CASE /\ d.status \in {"failed", "skipped"} /\ d.actual = 0
           /\ SlotOf(b, d.user) \in troubled \/ Untouched(SlotOf(b, d.user))
  <2>1. k \in troubled' \/ Untouched(k)'
    BY <1>1, <1>2, <1>5
  <2> QED
    BY <1>1, <1>3, <1>5, <2>1 DEF Settled, SlotOf
<1> QED
  BY <1>3, <1>4, <1>5 DEF Settled

\* A step beside the run, or one that only asks it to stop.
LEMMA RunKept ==
  ASSUME Moved, troubled \subseteq troubled', NEW r, r = execution, RunInv(r),
         \A l \in lots' : l.batch = r.batch => l \in lots,
         r.at # "mark" => batches'[r.batch].status = batches[r.batch].status,
         Running("pay") => Charged(r.batch, r.donors[r.row + 1])',
         NEW q, q.at = r.at, q.batch = r.batch, q.donors = r.donors, q.row = r.row, q.status = r.status,
         q \in [at : {"mark", "next", "pay", "abort"}, batch : BatchIds, donors : Seq(DonorRecords), row : Nat,
                stopping : BOOLEAN, status : {"running", "stopped", "failed"}]
  PROVE  RunInv(q)'
<1>1. CASE r.at = "mark"
  BY <1>1 DEF RunInv
<1>2. CASE r.at # "mark"
  <2>1. /\ r.batch \in BatchIds /\ r.donors \in Seq(DonorRecords) /\ r.row \in Nat
        /\ DonorsOK(r.donors) /\ r.row <= Len(r.donors)
    BY <1>2 DEF RunInv
  <2>2. Len(r.donors) \in Nat /\ DOMAIN r.donors = 1..Len(r.donors)
    BY <2>1
  <2>3. ASSUME NEW i \in DOMAIN r.donors, ~(Running("pay") /\ i = r.row + 1)
        PROVE  ~Charging(SlotOf(r.batch, r.donors[i].user))
    <3>1. CASE ~Running("pay")
      BY <3>1 DEF Charging
    <3>2. CASE Running("pay")
      <4>1. r.row + 1 \in DOMAIN r.donors /\ NextRow = r.row + 1
        BY <1>2, <2>1, <2>2, <3>2 DEF RunInv, Running, NextRow
      <4>2. r.donors[i].user # r.donors[r.row + 1].user
        BY <2>1, <2>3, <3>2, <4>1 DEF DonorsOK
      <4> QED
        BY <4>1, <4>2 DEF Charging, SlotOf
    <3> QED
      BY <3>1, <3>2
  <2>4. ASSUME NEW i \in DOMAIN r.donors
        PROVE  IF i <= r.row THEN Settled(r.batch, r.donors[i])'
               ELSE IF r.at = "pay" /\ i = r.row + 1 THEN Charged(r.batch, r.donors[i])'
               ELSE Waiting(r.batch, r.donors[i])'
    <3>0. PICK d \in DonorRecords : d = r.donors[i]
      BY <2>1, <2>2, <2>4
    <3>1. CASE i <= r.row
      <4>1. i # r.row + 1 /\ Settled(r.batch, d)
        BY <1>2, <2>1, <2>2, <3>0, <3>1 DEF RunInv
      <4> QED
        BY <2>1, <2>3, <3>0, <3>1, <4>1, DonorKept
    <3>2. CASE ~(i <= r.row) /\ r.at = "pay" /\ i = r.row + 1
      BY <3>2 DEF Running
    <3>3. CASE ~(i <= r.row) /\ ~(r.at = "pay" /\ i = r.row + 1)
      <4>1. Waiting(r.batch, d)
        BY <1>2, <3>0, <3>3 DEF RunInv
      <4> QED
        BY <2>1, <2>3, <3>0, <3>3, <4>1, DonorKept DEF Running
    <3> QED
      BY <3>1, <3>2, <3>3
  <2>5. ASSUME NEW u \in Users, \A i \in DOMAIN r.donors : r.donors[i].user # u
        PROVE  Untouched(SlotOf(r.batch, u))'
    <3>1. PICK k : k = SlotOf(r.batch, u) /\ k \in Keys
      BY <2>1, SlotIsKey
    <3>2. Untouched(k)
      BY <1>2, <2>5, <3>1 DEF RunInv
    <3>3. ~Charging(k)
      <4>1. SUFFICES ASSUME Running("pay") PROVE ~Charging(k)
        BY DEF Charging
      <4>2. r.row + 1 \in DOMAIN r.donors /\ NextRow = r.row + 1
        BY <1>2, <2>1, <2>2, <4>1 DEF RunInv, Running, NextRow
      <4> QED
        BY <2>5, <3>1, <4>2 DEF Charging, SlotOf
    <3>4. Untouched(k)'
      BY <3>1, <3>2, <3>3 DEF Moved
    <3> QED
      BY <3>1, <3>4 DEF SlotOf
  <2>6. \A l \in lots' : l.batch = r.batch => r.at = "next" /\ r.row = Len(r.donors)
    BY <1>2 DEF RunInv
  <2>7. batches'[r.batch].status = "running" /\ (r.at = "pay" => r.row < Len(r.donors))
        /\ (r.at = "abort" => r.status # "running")
    BY <1>2 DEF RunInv
  <2> QED
    BY <1>2, <2>1, <2>4, <2>5, <2>6, <2>7 DEF RunInv
<1> QED
  BY <1>1, <1>2

\* The round of the scheduler, where no batch of it is added.
LEMMA RoundKept ==
  ASSUME RoundInv, HasScheduled' \subseteq HasScheduled, UNCHANGED <<due, blind>>
  PROVE  RoundInv'
BY DEF RoundInv

LEMMA ScheduledAre ==
  ASSUME \A b \in BatchIds : batches'[b] = batches[b]
  PROVE  HasScheduled' = HasScheduled
BY DEF HasScheduled, Present

-----------------------------------------------------------------------------
(***************************************************************************)
(* Steps that write no row.                                                 *)
(***************************************************************************)
LEMMA RowsKept ==
  ASSUME BatchInv, MoneyInv', Moved, lots \subseteq lots', troubled \subseteq troubled',
         \A l \in lots' : l \in lots \/ batches[l.batch].status = "running",
         NEW b \in BatchIds, batches'[b] = batches[b]
  PROVE  RowOK(b)'
<1>1. MoneyInv /\ RowOK(b)
  BY DEF BatchInv
<1>2. CASE batches[b].status = "running"
  BY <1>1, <1>2, RowKept
<1>3. CASE batches[b].status # "running"
  <2>1. ASSUME NEW u \in Users PROVE ~Charging(SlotOf(b, u))
    <3>1. SUFFICES ASSUME Charging(SlotOf(b, u)) PROVE FALSE
      OBVIOUS
    <3>2. RunInv(execution) /\ execution.batch = b /\ execution.at # "mark"
      BY <3>1, ChargeIs DEF Charging, SlotOf, Running
    <3> QED
      BY <1>3, <3>2 DEF RunInv
  <2>2. \A l \in lots' : l.batch = b => l \in lots
    BY <1>3
  <2>3. Resting(b)
    BY <2>1, <2>2 DEF Resting
  <2> QED
    BY <1>1, <2>3, RowKept
<1> QED
  BY <1>2, <1>3

\* The executor's call goes on, if there is one.
LEMMA CallKept ==
  ASSUME BatchInv, PB!PayoutOK, PB!PayoutOK',
         UNCHANGED creditVars \/ CreditStep \/ Upstream,
         execution'.at = execution.at, execution'.batch = execution.batch,
         execution'.donors = execution.donors, execution'.row = execution.row
  PROVE  CallInv'
<1>1. Running("pay") <=> Running("pay")'
  BY DEF Running
<1>2. CASE UNCHANGED creditVars
  BY <1>1, <1>2 DEF BatchInv, CallInv, creditVars, NextRow, SlotOf
<1>3. CASE CreditStep \/ Upstream
  <2>0. UNCHANGED PB!vars \/ PB!Upstream \/ \E v \in {Executor} : PB!WorkerStep(v)
    BY <1>3 DEF CreditStep, Upstream, Credit!Send, Credit!Succeed, Credit!Fail, Credit!End, Credit!Request,
       Credit!Final, PB!WorkerStep, PB!Send, PB!Succeed, PB!Fail, PB!End, PB!Request, PB!Final,
       Credit!Upstream, Credit!Apply, Credit!Lose, PB!Upstream, PB!Apply, PB!Lose
  <2>1. CASE Running("pay")
    <3>1. PICK d : d = execution.donors[NextRow]
      OBVIOUS
    <3>2. PICK k : k = SlotOf(execution.batch, d.user)
      OBVIOUS
    <3>3. calls[Executor] = [pc |-> calls[Executor].pc, req |-> [key |-> k, delta |-> -d.planned]]
      BY <2>1, <3>1, <3>2 DEF BatchInv, CallInv
    <3>4. calls[Executor] # PB!Idle
      BY <3>3 DEF PB!Idle
    <3>5. calls'[Executor] # PB!Idle /\ calls'[Executor].req = calls[Executor].req
      BY <2>0, <3>4, PB!RequestsStay
    <3>6. PB!CallOK(calls[Executor])'
      BY DEF PB!PayoutOK, PB!CallsOK
    <3>7. calls'[Executor] = [pc |-> calls'[Executor].pc, req |-> calls'[Executor].req]
      BY <3>5, <3>6 DEF PB!CallOK, PB!Idle
    <3>8. calls'[Executor] = [pc |-> calls'[Executor].pc, req |-> [key |-> k, delta |-> -d.planned]]
      BY <3>3, <3>5, <3>7
    <3>9. execution'.donors[execution'.row + 1] = d /\ k = SlotOf(execution'.batch, d.user)
      BY <3>1, <3>2 DEF NextRow
    <3> QED
      BY <1>1, <2>1, <3>8, <3>9 DEF CallInv, NextRow, SlotOf
  <2>2. CASE ~Running("pay")
    <3>1. calls[Executor] = PB!Idle
      BY <2>2 DEF BatchInv, CallInv, Credit!Idle, PB!Idle
    <3>2. calls' = calls
      BY <1>3, <3>1 DEF CreditStep, Upstream, Credit!Send, Credit!Succeed, Credit!Fail, Credit!End, PB!Idle,
         Credit!Upstream, Credit!Apply, Credit!Lose
    <3> QED
      BY <1>1, <2>2, <3>2 DEF BatchInv, CallInv
  <2> QED
    BY <2>1, <2>2
<1> QED
  BY <1>2, <1>3

\* Steps beside the run: the service, the users, the settings, the request to stop.
LEMMA BesideStep ==
  ASSUME BatchInv, PB!PayoutOK, UNCHANGED creditVars \/ CreditStep \/ Upstream,
         UNCHANGED <<batches, lots, troubled>>, RoundInv', due' \in Nat,
         policy' \in Policies, income' \in [Users -> Nat], spent' \in [Users -> Nat],
         \/ execution' = execution
         \/ execution # AtRest /\ execution' = [execution EXCEPT !.stopping = TRUE]
  PROVE  BatchInv' /\ PB!PayoutOK'
<1>1. PB!Move
  BY ServiceIsMove
<1>2. PB!PayoutOK' /\ MoneyInv' /\ Moved
  BY <1>1, ServiceKeeps
<1>3. LotsInv'
  BY <1>2, LotsKept DEF BatchInv
<1>4. \A b \in BatchIds : RowOK(b)'
  BY <1>2, RowsKept
<1>5. /\ execution'.at = execution.at /\ execution'.batch = execution.batch
      /\ execution'.donors = execution.donors /\ execution'.row = execution.row
      /\ execution' = AtRest \/ RunInv(execution)'
  <2>1. CASE execution = AtRest
    BY <2>1
  <2>2. CASE execution # AtRest
    <3>1. PICK r : r = execution
      OBVIOUS
    <3>2. PICK q : q = execution'
      OBVIOUS
    <3>3. RunInv(r)
      BY <2>2, <3>1 DEF BatchInv
    <3>4. /\ q.at = r.at /\ q.batch = r.batch /\ q.donors = r.donors /\ q.row = r.row /\ q.status = r.status
          /\ q \in [at : {"mark", "next", "pay", "abort"}, batch : BatchIds, donors : Seq(DonorRecords), row : Nat,
                    stopping : BOOLEAN, status : {"running", "stopped", "failed"}]
      BY <3>1, <3>2, <3>3 DEF RunInv
    <3>5. Running("pay") => Charged(r.batch, r.donors[r.row + 1])'
      <4>1. SUFFICES ASSUME Running("pay") PROVE Charged(r.batch, r.donors[r.row + 1])'
        OBVIOUS
      <4>2. PICK d : d = execution.donors[NextRow]
        OBVIOUS
      <4>3. Charged(r.batch, d)'
        BY <1>1, <3>1, <4>1, <4>2, ChargedKept
      <4> QED
        BY <3>1, <4>2, <4>3 DEF NextRow
    <3>6. RunInv(q)'
      BY <1>2, <3>1, <3>3, <3>4, <3>5, RunKept
    <3> QED
      BY <3>1, <3>2, <3>4, <3>6
  <2> QED
    BY <2>1, <2>2
<1>6. CallInv'
  BY <1>2, <1>5, CallKept
<1>7. batches' = [b \in BatchIds |-> batches'[b]]
  BY DEF BatchInv
<1> QED
  BY <1>2, <1>3, <1>4, <1>5, <1>6, <1>7 DEF BatchInv

-----------------------------------------------------------------------------
(***************************************************************************)
(* A run begins, and ends.                                                  *)
(***************************************************************************)
LEMMA MoneyRests ==
  ASSUME BatchInv, PB!PayoutOK, UNCHANGED creditVars
  PROVE  PB!PayoutOK' /\ MoneyInv' /\ Moved
BY ServiceIsMove, ServiceKeeps

LEMMA StartStep ==
  ASSUME BatchInv, PB!PayoutOK, NEW b \in BatchIds, Starts(b), RoundInv', due' \in Nat,
         UNCHANGED <<creditVars, userVars, policy, batches, lots, troubled>>
  PROVE  BatchInv' /\ PB!PayoutOK'
<1>1. policy' \in Policies /\ income' \in [Users -> Nat] /\ spent' \in [Users -> Nat]
  BY DEF BatchInv, userVars
<1>2. CASE UNCHANGED execution
  BY <1>1, <1>2, BesideStep
<1>3. CASE ~UNCHANGED execution
  <2>1. /\ execution = AtRest
        /\ execution' = [at |-> "mark", batch |-> b, donors |-> <<>>, row |-> 0, stopping |-> FALSE, status |-> "running"]
    BY <1>3 DEF Starts
  <2>2. PB!PayoutOK' /\ MoneyInv' /\ Moved
    BY MoneyRests
  <2>3. LotsInv' /\ \A c \in BatchIds : RowOK(c)'
    BY <2>2, LotsKept, RowsKept DEF BatchInv
  <2>4. <<>> \in Seq(DonorRecords)
    OBVIOUS
  <2>5. RunInv(execution)'
    BY <2>1, <2>4 DEF RunInv
  <2>6. CallInv'
    BY <2>1 DEF BatchInv, CallInv, Running, AtRest, creditVars
  <2> QED
    BY <1>1, <2>2, <2>3, <2>5, <2>6 DEF BatchInv
<1> QED
  BY <1>2, <1>3

LEMMA EndStep ==
  ASSUME BatchInv, PB!PayoutOK, EndRun, ~Running("pay"), RoundInv', due' \in Nat,
         batches' = [b \in BatchIds |-> batches'[b]], \A b \in BatchIds : RowOK(b)',
         UNCHANGED <<creditVars, userVars, policy, lots, troubled>>
  PROVE  BatchInv' /\ PB!PayoutOK'
<1>1. policy' \in Policies /\ income' \in [Users -> Nat] /\ spent' \in [Users -> Nat]
  BY DEF BatchInv, userVars
<1>2. PB!PayoutOK' /\ MoneyInv' /\ Moved
  BY MoneyRests
<1>3. LotsInv'
  BY <1>2, LotsKept DEF BatchInv
<1>4. execution' = AtRest /\ CallInv'
  BY DEF BatchInv, CallInv, Running, AtRest, EndRun, creditVars
<1> QED
  BY <1>1, <1>2, <1>3, <1>4 DEF BatchInv

LEMMA RoundSame ==
  ASSUME BatchInv, UNCHANGED roundVars, batches' = batches
  PROVE  RoundInv' /\ due' \in Nat
BY ScheduledAre, RoundKept DEF BatchInv, roundVars

LEMMA EndOnly ==
  ASSUME BatchInv, PB!PayoutOK, EndRun, ~Running("pay"), batches' = batches,
         UNCHANGED <<creditVars, userVars, roundVars, policy, lots, troubled>>
  PROVE  BatchInv' /\ PB!PayoutOK'
<1>1. MoneyInv' /\ Moved
  BY MoneyRests
<1>2. \A b \in BatchIds : RowOK(b)'
  BY <1>1, RowsKept
<1>3. RoundInv' /\ due' \in Nat /\ batches' = [b \in BatchIds |-> batches'[b]]
  BY RoundSame DEF BatchInv
<1> QED
  BY <1>2, <1>3, EndStep

-----------------------------------------------------------------------------
(***************************************************************************)
(* A row is written that no run is at.                                      *)
(***************************************************************************)
LEMMA OneRow ==
  ASSUME BatchInv, PB!PayoutOK, NEW b \in BatchIds, NEW row, batches' = [batches EXCEPT ![b] = row],
         batches[b].status # "running", RowOK(b)', RoundInv', due' \in Nat,
         UNCHANGED <<creditVars, userVars, policy, lots, execution, troubled>>
  PROVE  BatchInv' /\ PB!PayoutOK'
<1>1. policy' \in Policies /\ income' \in [Users -> Nat] /\ spent' \in [Users -> Nat]
  BY DEF BatchInv, userVars
<1>2. PB!PayoutOK' /\ MoneyInv' /\ Moved
  BY MoneyRests
<1>3. LotsInv'
  BY <1>2, LotsKept DEF BatchInv
<1>4. batches' = [c \in BatchIds |-> batches'[c]] /\ \A c \in BatchIds : c # b => batches'[c] = batches[c]
  BY DEF BatchInv
<1>5. \A c \in BatchIds : RowOK(c)'
  BY <1>2, <1>4, RowsKept
<1>6. execution' = AtRest \/ RunInv(execution)'
  <2>1. PICK r : r = execution
    OBVIOUS
  <2>2. SUFFICES ASSUME r # AtRest PROVE RunInv(r)'
    BY <2>1
  <2>3. RunInv(r)
    BY <2>1, <2>2 DEF BatchInv
  <2>4. r.batch \in BatchIds /\ (r.at # "mark" => r.batch # b)
    BY <2>3 DEF RunInv
  <2>5. Running("pay") => Charged(r.batch, r.donors[r.row + 1])'
    <3>1. SUFFICES ASSUME Running("pay") PROVE Charged(r.batch, r.donors[r.row + 1])'
      OBVIOUS
    <3>2. PICK d : d = execution.donors[NextRow]
      OBVIOUS
    <3>3. Charged(r.batch, d)'
      BY <2>1, <3>1, <3>2, ServiceIsMove, ChargedKept
    <3> QED
      BY <2>1, <3>2, <3>3 DEF NextRow
  <2>6. r \in [at : {"mark", "next", "pay", "abort"}, batch : BatchIds, donors : Seq(DonorRecords), row : Nat,
               stopping : BOOLEAN, status : {"running", "stopped", "failed"}]
    BY <2>3 DEF RunInv
  <2> QED
    BY <1>2, <1>4, <2>1, <2>3, <2>4, <2>5, <2>6, RunKept
<1>7. CallInv'
  BY <1>2, CallKept
<1> QED
  BY <1>1, <1>2, <1>3, <1>4, <1>5, <1>6, <1>7 DEF BatchInv

LEMMA CancelStep ==
  ASSUME BatchInv, PB!PayoutOK, NEW b \in BatchIds, CancelRedistributionBatch(b)
  PROVE  BatchInv' /\ PB!PayoutOK'
<1>1. PICK old : old = batches[b]
  OBVIOUS
<1>2. /\ old.status = "draft" /\ RowOK(b)
      /\ old # NoBatch /\ old # Deleted
  BY <1>1 DEF CancelRedistributionBatch, Cancellable, NoBatch, Deleted, BatchInv
<1>3. /\ old \in [status : Statuses, trigger : {"manual", "schedule"}, policy : Policies,
                donors : Seq(DonorRecords), reclaim : Nat, cancelled : BOOLEAN]
      /\ old.reclaim <= TakenIn(b) /\ Unspent(b)
  BY <1>1, <1>2 DEF RowOK
<1>4. PICK S : S = [old EXCEPT !.status = "stopped", !.cancelled = TRUE]
  OBVIOUS
<1>5. /\ S \in [status : Statuses, trigger : {"manual", "schedule"}, policy : Policies,
                donors : Seq(DonorRecords), reclaim : Nat, cancelled : BOOLEAN]
      /\ S.status = "stopped" /\ S.reclaim = old.reclaim
  BY <1>3, <1>4 DEF Statuses
<1>6. batches' = [batches EXCEPT ![b] = S] /\ batches'[b] = S
  BY <1>1, <1>4 DEF CancelRedistributionBatch, BatchInv
<1>7. UNCHANGED <<creditVars, userVars, roundVars, policy, lots, execution, troubled>>
  BY DEF CancelRedistributionBatch
<1>8. TakenIn(b)' = TakenIn(b) /\ Unspent(b)'
  BY <1>3, <1>7 DEF TakenIn, TakenBy, SlotOf, Unspent, Untouched, creditVars
<1>9. RowOK(b)'
  BY <1>3, <1>5, <1>6, <1>8 DEF RowOK
<1>10. HasScheduled' \subseteq HasScheduled
  BY <1>1, <1>2, <1>5, <1>6 DEF HasScheduled, Present
<1>11. RoundInv' /\ due' \in Nat
  BY <1>7, <1>10, RoundKept DEF BatchInv, roundVars
<1> QED
  BY <1>1, <1>2, <1>6, <1>7, <1>9, <1>11, OneRow

LEMMA DeleteStep ==
  ASSUME BatchInv, PB!PayoutOK, NEW b \in BatchIds, DeleteRedistributionBatch(b)
  PROVE  BatchInv' /\ PB!PayoutOK'
<1>1. batches' = [batches EXCEPT ![b] = Deleted] /\ batches'[b] = Deleted
  BY DEF DeleteRedistributionBatch, BatchInv
<1>2. batches[b].status # "running" /\ UNCHANGED <<creditVars, userVars, roundVars, policy, lots, execution, troubled>>
  BY DEF DeleteRedistributionBatch
<1>3. RowOK(b)'
  BY <1>1 DEF RowOK
<1>4. HasScheduled' \subseteq HasScheduled
  BY <1>1 DEF HasScheduled, Present, Deleted
<1>5. RoundInv' /\ due' \in Nat
  BY <1>2, <1>4, RoundKept DEF BatchInv, roundVars
<1> QED
  BY <1>1, <1>2, <1>3, <1>5, OneRow

-----------------------------------------------------------------------------
(***************************************************************************)
(* Marking the batch as running, and writing down what it took.             *)
(***************************************************************************)
LEMMA MarkStep ==
  ASSUME BatchInv, PB!PayoutOK, MarkRunning
  PROVE  BatchInv' /\ PB!PayoutOK'
<1>1. PICK b : b = execution.batch
  OBVIOUS
<1>2. PICK old : old = batches[b]
  OBVIOUS
<1>3. /\ Running("mark") /\ ~Running("pay") /\ UNCHANGED <<creditVars, userVars, roundVars, policy, lots, troubled>>
      /\ \/ /\ old.status = "draft"
            /\ batches' = [batches EXCEPT ![b].status = "running", ![b].cancelled = FALSE]
            /\ \/ execution' = [execution EXCEPT !.at = "next", !.donors = old.donors]
               \/ EndRun
         \/ EndRun /\ batches' = batches
  BY <1>1, <1>2 DEF MarkRunning, Executable, Running
<1>4. RunInv(execution) /\ b \in BatchIds /\ execution.at = "mark"
  BY <1>1, <1>3 DEF BatchInv, Running, AtRest, RunInv
<1>5. CASE EndRun /\ batches' = batches
  BY <1>3, <1>5, EndOnly
<1>6. CASE /\ old.status = "draft"
           /\ batches' = [batches EXCEPT ![b].status = "running", ![b].cancelled = FALSE]
  <2>1. /\ RowOK(b) /\ old # NoBatch /\ old # Deleted
    BY <1>2, <1>4, <1>6 DEF NoBatch, Deleted, BatchInv
  <2>2. /\ old \in [status : Statuses, trigger : {"manual", "schedule"}, policy : Policies,
                  donors : Seq(DonorRecords), reclaim : Nat, cancelled : BOOLEAN]
        /\ old.reclaim <= TakenIn(b) /\ Unspent(b) /\ NewDonors(old.donors)
    BY <1>2, <1>6, <2>1 DEF RowOK
  <2>3. PICK S : S = [old EXCEPT !.status = "running", !.cancelled = FALSE]
    OBVIOUS
  <2>4. /\ S \in [status : Statuses, trigger : {"manual", "schedule"}, policy : Policies,
                  donors : Seq(DonorRecords), reclaim : Nat, cancelled : BOOLEAN]
        /\ S.status = "running" /\ S.reclaim = old.reclaim /\ S.cancelled = FALSE /\ S.trigger = old.trigger
    BY <2>2, <2>3 DEF Statuses
  <2>5. batches' = [batches EXCEPT ![b] = S] /\ batches'[b] = S
    BY <1>2, <1>4, <1>6, <2>3 DEF BatchInv
  <2>6. batches' = [c \in BatchIds |-> batches'[c]] /\ \A c \in BatchIds : c # b => batches'[c] = batches[c]
    BY <2>5 DEF BatchInv
  <2>7. MoneyInv' /\ Moved /\ PB!PayoutOK'
    BY <1>3, MoneyRests
  <2>8. TakenIn(b)' = TakenIn(b) /\ Unspent(b)'
    BY <1>3, <2>2 DEF TakenIn, TakenBy, SlotOf, Unspent, Untouched, creditVars
  <2>9. RowOK(b)'
    BY <2>2, <2>4, <2>5, <2>8 DEF RowOK
  <2>10. \A c \in BatchIds : RowOK(c)'
    BY <1>3, <2>6, <2>7, <2>9, RowsKept
  <2>11. HasScheduled' \subseteq HasScheduled
    BY <1>2, <1>4, <1>6, <2>1, <2>4, <2>5, <2>6 DEF HasScheduled, Present
  <2>12. RoundInv' /\ due' \in Nat
    BY <1>3, <2>11, RoundKept DEF BatchInv, roundVars
  <2>13. CASE EndRun
    BY <1>3, <2>6, <2>10, <2>12, <2>13, EndStep
  <2>14. CASE execution' = [execution EXCEPT !.at = "next", !.donors = old.donors]
    <3>1. PICK q : q = execution'
      OBVIOUS
    <3>2. /\ q.at = "next" /\ q.batch = b /\ q.donors = old.donors /\ q.row = 0
          /\ q \in [at : {"mark", "next", "pay", "abort"}, batch : BatchIds, donors : Seq(DonorRecords), row : Nat,
                    stopping : BOOLEAN, status : {"running", "stopped", "failed"}]
      BY <1>1, <1>4, <2>2, <2>14, <3>1 DEF RunInv
    <3>3. DonorsOK(old.donors) /\ Len(old.donors) \in Nat /\ DOMAIN old.donors = 1..Len(old.donors)
      BY <2>2 DEF NewDonors
    <3>4. ASSUME NEW i \in DOMAIN old.donors
          PROVE  ~(i <= 0) /\ Waiting(b, old.donors[i])'
      <4>1. PICK d \in DonorRecords : d = old.donors[i]
        BY <2>2, <3>3, <3>4
      <4>2. NewDonor(d) /\ d.user \in Users /\ i \in Nat \ {0}
        BY <2>2, <3>3, <3>4, <4>1 DEF NewDonors, DonorRecords
      <4>3. Untouched(SlotOf(b, d.user))'
        BY <2>8, <4>2 DEF Unspent, SlotOf
      <4> QED
        BY <4>1, <4>2, <4>3 DEF Waiting, NewDonor, SlotOf
    <3>5. \A u \in Users : Untouched(SlotOf(b, u))'
      BY <2>8 DEF Unspent, SlotOf
    <3>6. \A l \in lots' : l.batch # b
      BY <2>8 DEF Unspent
    <3>7. RunInv(q)'
      BY <2>4, <2>5, <3>2, <3>3, <3>4, <3>5, <3>6 DEF RunInv
    <3>8. LotsInv'
      BY <1>3, <2>7, LotsKept DEF BatchInv
    <3>9. CallInv'
      BY <1>3, <3>1, <3>2 DEF BatchInv, CallInv, Running, creditVars
    <3>10. policy' \in Policies /\ income' \in [Users -> Nat] /\ spent' \in [Users -> Nat]
      BY <1>3 DEF BatchInv, userVars
    <3> QED
      BY <2>6, <2>7, <2>10, <2>12, <3>1, <3>7, <3>8, <3>9, <3>10 DEF BatchInv
  <2> QED
    BY <1>3, <1>6, <2>13, <2>14, <1>5
<1> QED
  BY <1>3, <1>5, <1>6

\* What the donors gave is part of what was taken.
LEMMA ActualIsTaken ==
  ASSUME MoneyInv, NEW b \in BatchIds, NEW D, DonorsOK(D),
         \A i \in DOMAIN D : D[i].actual = 0 \/ D[i].actual = TakenBy(b, D[i].user)
  PROVE  Actual(D) \in Nat /\ Actual(D) <= TakenIn(b)
<1>1. D \in Seq(DonorRecords) /\ Len(D) \in Nat /\ DOMAIN D = 1..Len(D)
  BY DEF DonorsOK
<1>2. PICK f : f = [i \in DOMAIN D |-> D[i].actual]
  OBVIOUS
<1>3. PICK g : g = [u \in Users |-> TakenBy(b, u)]
  OBVIOUS
<1>4. PICK h : h = [i \in DOMAIN D |-> D[i].user]
  OBVIOUS
<1>5. \A u \in Users : g[u] \in Nat
  BY <1>3, SlotIsKey DEF MoneyInv, TakenBy
<1>6. \A i \in DOMAIN D : D[i] \in DonorRecords
  BY <1>1
<1>7. h \in [DOMAIN D -> Users] /\ \A i, j \in DOMAIN D : i # j => h[i] # h[j]
  BY <1>4, <1>6 DEF DonorsOK, DonorRecords
<1>8. \A i \in DOMAIN D : f[i] \in Nat /\ f[i] <= g[h[i]]
  <2>1. SUFFICES ASSUME NEW i \in DOMAIN D PROVE f[i] \in Nat /\ f[i] <= g[h[i]]
    OBVIOUS
  <2>2. f[i] = D[i].actual /\ g[h[i]] = TakenBy(b, D[i].user) /\ D[i].actual \in Nat
    BY <1>2, <1>3, <1>4, <1>6, <1>7 DEF DonorRecords
  <2>3. g[h[i]] \in Nat
    BY <1>5, <1>7
  <2> QED
    BY <2>2, <2>3
<1>9. PB!IsFiniteSet(DOMAIN D)
  <2>1. IsFiniteSet(1..Len(D))
    BY <1>1, FS_Interval
  <2> QED
    BY <1>1, <2>1 DEF IsFiniteSet, PB!IsFiniteSet
<1>10. PB!SumFunctionOnSet(f, DOMAIN D) <= PB!SumFunctionOnSet(g, Users)
  BY <1>5, <1>7, <1>8, <1>9, UsersAreFinite, PB!SumInjective
<1>11. PB!SumFunctionOnSet(f, DOMAIN D) \in Nat
  BY <1>8, <1>9, PB!SumNat
<1> QED
  BY <1>2, <1>3, <1>10, <1>11, SumAgrees DEF Actual, TakenIn

\* The row of the run gets its end.
LEMMA FinishedRow ==
  ASSUME BatchInv, PB!PayoutOK, ~Running("mark"), ~Running("pay"), execution # AtRest,
         NEW status \in {"success", "partial", "stopped", "failed"},
         status \in {"success", "partial"} => AllInLots(execution.batch),
         UNCHANGED <<creditVars, lots, troubled>>,
         NEW b \in BatchIds, b = execution.batch, batches'[b] = Finished(status)[b]
  PROVE  RowOK(b)' /\ batches'[b].status = status /\ batches'[b].trigger = batches[b].trigger
<1>1. PICK old : old = batches[b]
  OBVIOUS
<1>0. RunInv(execution)
  BY DEF BatchInv
<1>2. RunInv(execution) /\ execution.at \in {"next", "abort"}
  BY <1>0 DEF RunInv, Running
<1>3. old.status = "running" /\ DonorsOK(execution.donors)
  BY <1>1, <1>2 DEF RunInv
<1>4. old \in [status : Statuses, trigger : {"manual", "schedule"}, policy : Policies,
             donors : Seq(DonorRecords), reclaim : Nat, cancelled : BOOLEAN] /\ ~old.cancelled
  <2>1. RowOK(b) /\ old # NoBatch /\ old # Deleted
    BY <1>1, <1>3 DEF NoBatch, Deleted, BatchInv
  <2> QED
    BY <1>1, <1>3, <2>1 DEF RowOK
<1>5. PICK a : a = Actual(execution.donors)
  OBVIOUS
<1>6. a \in Nat /\ a <= TakenIn(b)
  <2>1. execution.donors \in Seq(DonorRecords) /\ execution.row \in Nat
    BY <1>2 DEF RunInv
  <2>2. \A i \in DOMAIN execution.donors : Settled(b, execution.donors[i]) \/ Waiting(b, execution.donors[i])
    BY <1>2 DEF RunInv
  <2>3. \A i \in DOMAIN execution.donors :
           execution.donors[i].actual = 0 \/ execution.donors[i].actual = TakenBy(b, execution.donors[i].user)
    BY <2>2 DEF Settled, Waiting, NewDonor
  <2> QED
    BY <1>3, <1>5, <2>3, ActualIsTaken DEF BatchInv
<1>7. batches'[b] = [old EXCEPT !.status = status, !.reclaim = a]
  BY <1>1, <1>5 DEF Finished, BatchInv
<1>8. TakenIn(b)' = TakenIn(b) /\ (AllInLots(b) => AllInLots(b)')
  BY DEF TakenIn, TakenBy, SlotOf, AllInLots, Quiet, creditVars
<1>9. PICK S : S = batches'[b]
  OBVIOUS
<1>10. /\ S \in [status : Statuses, trigger : {"manual", "schedule"}, policy : Policies,
                 donors : Seq(DonorRecords), reclaim : Nat, cancelled : BOOLEAN]
       /\ S.status = status /\ S.reclaim = a /\ ~S.cancelled /\ S.trigger = old.trigger
  BY <1>4, <1>6, <1>7, <1>9 DEF Statuses
<1>11. RowOK(b)'
  BY <1>6, <1>8, <1>9, <1>10 DEF RowOK
<1> QED
  BY <1>1, <1>9, <1>10, <1>11

LEMMA OverStep ==
  ASSUME BatchInv, PB!PayoutOK, EndRun, ~Running("mark"), ~Running("pay"), execution # AtRest,
         NEW status \in {"success", "partial", "stopped", "failed"},
         status \in {"success", "partial"} => AllInLots(execution.batch),
         NEW gone \in SUBSET BatchIds,
         batches' = [b \in BatchIds |-> IF b \in gone THEN Deleted ELSE Finished(status)[b]],
         UNCHANGED <<creditVars, userVars, roundVars, policy, lots, troubled>>
  PROVE  BatchInv' /\ PB!PayoutOK'
<1>1. PICK b \in BatchIds : b = execution.batch
  BY DEF BatchInv, RunInv
<1>2. MoneyInv' /\ Moved
  BY MoneyRests
<1>3. \A c \in BatchIds : c # b => Finished(status)[c] = batches[c]
  BY <1>1 DEF BatchInv, Finished
<1>4. batches[b].status = "running"
  <2>1. RunInv(execution)
    BY DEF BatchInv
  <2> QED
    BY <1>1, <2>1 DEF RunInv, Running
<1>5. ASSUME NEW c \in BatchIds
      PROVE  RowOK(c)' /\ (c \in Present' => c \in Present /\ batches'[c].trigger = batches[c].trigger
                            /\ (batches'[c].status \notin {"failed", "stopped"} => batches[c].status \notin {"failed", "stopped"}))
  <2>1. CASE c \in gone
    <3>1. batches'[c] = Deleted
      BY <2>1
    <3> QED
      BY <3>1 DEF RowOK, Present, Deleted
  <2>2. CASE c \notin gone /\ c = b
    <3>1. batches'[c] = Finished(status)[c]
      BY <2>2
    <3>2. RowOK(c)' /\ batches'[c].trigger = batches[c].trigger
      BY <1>1, <2>2, <3>1, FinishedRow
    <3> QED
      BY <1>4, <2>2, <3>2 DEF Present
  <2>3. CASE c \notin gone /\ c # b
    <3>1. batches'[c] = batches[c]
      BY <1>3, <2>3
    <3>2. RowOK(c)'
      BY <1>2, <3>1, RowsKept
    <3> QED
      BY <3>1, <3>2 DEF Present
  <2> QED
    BY <2>1, <2>2, <2>3
<1>6. HasScheduled' \subseteq HasScheduled
  BY <1>5 DEF HasScheduled, Present
<1>7. RoundInv' /\ due' \in Nat
  BY <1>6, RoundKept DEF BatchInv, roundVars
<1>8. batches' = [c \in BatchIds |-> batches'[c]]
  OBVIOUS
<1> QED
  BY <1>5, <1>7, <1>8, EndStep

LEMMA AbortStep ==
  ASSUME BatchInv, PB!PayoutOK, Abort
  PROVE  BatchInv' /\ PB!PayoutOK'
<1>1. /\ execution.at = "abort" /\ execution # AtRest /\ ~Running("mark") /\ ~Running("pay") /\ EndRun
      /\ UNCHANGED <<creditVars, userVars, roundVars, policy, lots, troubled>>
      /\ batches' = Finished(execution.status) \/ batches' = batches
  BY DEF Abort, Running, AtRest
<1>2. CASE batches' = batches
  BY <1>1, <1>2, EndOnly
<1>3. CASE batches' = Finished(execution.status)
  <2>1. RunInv(execution)
    BY <1>1 DEF BatchInv
  <2>2. execution.status \in {"stopped", "failed"}
    BY <1>1, <2>1 DEF RunInv
  <2>3. PICK status \in {"success", "partial", "stopped", "failed"} :
          status = execution.status /\ status \notin {"success", "partial"}
    BY <2>2
  <2>4. PICK gone \in SUBSET BatchIds : gone = {}
    OBVIOUS
  <2>5. batches' = [b \in BatchIds |-> IF b \in gone THEN Deleted ELSE Finished(status)[b]]
    BY <1>3, <2>3, <2>4 DEF Finished, BatchInv
  <2> QED
    BY <1>1, <2>3, <2>5, OverStep
<1> QED
  BY <1>1, <1>2, <1>3

LEMMA EndFailsStep ==
  ASSUME BatchInv, PB!PayoutOK, EndFails
  PROVE  BatchInv' /\ PB!PayoutOK'
<1>1. EndRun /\ ~Running("pay") /\ batches' = batches
      /\ UNCHANGED <<creditVars, userVars, roundVars, policy, lots, troubled>>
  BY DEF EndFails, Collected, Running
<1> QED
  BY <1>1, EndOnly

\* A batch whose donors are all done has its lots.
LEMMA LotsAreAll ==
  ASSUME BatchInv, Collected, Lotless = {}
  PROVE  AllInLots(execution.batch)
<1>1. PICK b \in BatchIds : b = execution.batch
  BY DEF BatchInv, RunInv, Collected, Running, AtRest
<1>2. PICK D : D = execution.donors
  OBVIOUS
<1>3. RunInv(execution) /\ execution.at = "next"
  BY DEF BatchInv, Collected, Running, AtRest
<1>4. /\ D \in Seq(DonorRecords) /\ execution.row \in Nat /\ execution.row <= Len(D)
      /\ NextRow > Len(D)
  BY <1>2, <1>3 DEF RunInv, Collected, DonorsOK
<1>5. Len(D) \in Nat /\ DOMAIN D = 1..Len(D) /\ \A i \in DOMAIN D : i <= execution.row
  BY <1>4 DEF NextRow
<1>6. \A i \in DOMAIN D : Settled(b, D[i])
  BY <1>1, <1>2, <1>3, <1>5 DEF RunInv
<1>7. ASSUME NEW u \in Users, NEW k, k = SlotOf(b, u), k \notin troubled
      PROVE  Quiet(k) /\ (applied[k] # 0 => [batch |-> b, user |-> u, amount |-> -applied[k]] \in lots)
  <2>1. CASE \A i \in DOMAIN D : D[i].user # u
    <3>1. Untouched(k)
      BY <1>1, <1>2, <1>3, <1>7, <2>1 DEF RunInv
    <3> QED
      BY <3>1 DEF Untouched, Quiet
  <2>2. CASE \E i \in DOMAIN D : D[i].user = u
    <3>1. PICK i \in DOMAIN D : D[i].user = u
      BY <2>2
    <3>2. PICK d \in DonorRecords : d = D[i] /\ Settled(b, d) /\ d.user = u
      BY <1>4, <1>5, <1>6, <3>1
    <3>3. CASE d.status = "success" /\ d.actual # 0 /\ d.actual = TakenBy(b, d.user)
      <4>1. d.actual = -applied[k] /\ d.actual \in Nat
        BY <1>7, <3>2, <3>3 DEF TakenBy, DonorRecords
      <4>2. Lot(i) \in lots
        BY <1>2, <3>1, <3>2, <3>3, <4>1 DEF Lotless, DonorRecords
      <4>3. Lot(i) = [batch |-> b, user |-> u, amount |-> -applied[k]]
        BY <1>1, <1>2, <3>1, <3>2, <4>1 DEF Lot
      <4>4. applied[k] # 0
        BY <3>3, <4>1
      <4> QED
        BY <4>2, <4>3, <4>4 DEF Quiet
    <3>4. CASE Untouched(SlotOf(b, d.user))
      <4>1. Untouched(k)
        BY <1>7, <3>2, <3>4
      <4> QED
        BY <4>1 DEF Untouched, Quiet
    <3> QED
      BY <1>7, <3>2, <3>3, <3>4 DEF Settled
  <2> QED
    BY <2>1, <2>2
<1> QED
  BY <1>1, <1>7 DEF AllInLots, TakenBy

LEMMA FinishStep ==
  ASSUME BatchInv, PB!PayoutOK, FinishBatch
  PROVE  BatchInv' /\ PB!PayoutOK'
<1>1. PICK status \in {"success", "partial"} :
        status = IF \E i \in DOMAIN execution.donors : execution.donors[i].status = "failed" THEN "partial" ELSE "success"
  OBVIOUS
<1>2. /\ Collected /\ Lotless = {} /\ EndRun
      /\ UNCHANGED <<creditVars, userVars, roundVars, policy, lots, troubled>>
      /\ \/ batches' = [b \in BatchIds |-> IF b \in TrimmedBatches THEN Deleted ELSE Finished(status)[b]]
         \/ batches' = Finished(status)
  BY <1>1 DEF FinishBatch
<1>3. ~Running("mark") /\ ~Running("pay") /\ execution # AtRest
  BY <1>2 DEF Collected, Running, AtRest
<1>4. AllInLots(execution.batch)
  BY <1>2, LotsAreAll
<1>5. TrimmedBatches \in SUBSET BatchIds
  BY DEF TrimmedBatches, Present
<1>6. PICK gone \in SUBSET BatchIds :
        batches' = [b \in BatchIds |-> IF b \in gone THEN Deleted ELSE Finished(status)[b]]
  <2>1. CASE batches' = Finished(status)
    <3>1. PICK none \in SUBSET BatchIds : none = {}
      OBVIOUS
    <3>2. batches' = [b \in BatchIds |-> IF b \in none THEN Deleted ELSE Finished(status)[b]]
      BY <2>1, <3>1 DEF Finished, BatchInv
    <3> QED
      BY <3>2
  <2> QED
    BY <1>2, <1>5, <2>1
<1> QED
  BY <1>2, <1>3, <1>4, <1>6, OverStep

-----------------------------------------------------------------------------
(***************************************************************************)
(* One donor after the other.                                               *)
(***************************************************************************)
RunRecords ==
    [at : {"mark", "next", "pay", "abort"}, batch : BatchIds, donors : Seq(DonorRecords), row : Nat,
     stopping : BOOLEAN, status : {"running", "stopped", "failed"}]

LEMMA RunIsRecord == \A r : RunInv(r) => r \in RunRecords
  BY DEF RunInv, RunRecords

LEMMA EntryReplaced ==
  ASSUME NEW D \in Seq(DonorRecords), NEW i, NEW e \in DonorRecords, NEW E, E = [D EXCEPT ![i] = e]
  PROVE  /\ E \in Seq(DonorRecords) /\ Len(E) = Len(D) /\ DOMAIN E = DOMAIN D
         /\ i \in DOMAIN D => E[i] = e
         /\ \A j \in DOMAIN D : j # i => E[j] = D[j]
<1>1. Len(D) \in Nat /\ DOMAIN D = 1..Len(D)
  OBVIOUS
<1>2. \A j \in DOMAIN D : D[j] \in DonorRecords
  OBVIOUS
<1>3. DOMAIN E = 1..Len(D) /\ \A j \in 1..Len(D) : E[j] = IF j = i THEN e ELSE D[j]
  BY <1>1
<1>4. E = [j \in 1..Len(D) |-> E[j]]
  BY <1>1
<1>5. \A j \in 1..Len(D) : E[j] \in DonorRecords
  BY <1>1, <1>2, <1>3
<1>6. E \in [1..Len(D) -> DonorRecords]
  BY <1>4, <1>5
<1>7. E \in Seq(DonorRecords)
  BY <1>1, <1>6, IsASeq
<1> QED
  BY <1>1, <1>3, <1>7

\* An entry of a row is written back or not.
Stored(b, i, e) == batches' = [batches EXCEPT ![b].donors[i] = e] \/ batches' = batches

LEMMA StoredRow ==
  ASSUME BatchInv, PB!PayoutOK, MoneyInv', Moved, lots' = lots, troubled \subseteq troubled',
         NEW b \in BatchIds, batches[b].status = "running", NEW i, NEW e \in DonorRecords,
         Stored(b, i, e), UNCHANGED roundVars
  PROVE  /\ \A c \in BatchIds : RowOK(c)'
         /\ batches' = [c \in BatchIds |-> batches'[c]] /\ batches'[b].status = "running"
         /\ RoundInv' /\ due' \in Nat
<1>1. PICK old : old = batches[b]
  OBVIOUS
<1>2. old \in [status : Statuses, trigger : {"manual", "schedule"}, policy : Policies,
             donors : Seq(DonorRecords), reclaim : Nat, cancelled : BOOLEAN]
      /\ ~old.cancelled /\ old.reclaim <= TakenIn(b) /\ old.status = "running"
  <2>1. RowOK(b) /\ old # NoBatch /\ old # Deleted
    BY <1>1 DEF NoBatch, Deleted, BatchInv
  <2> QED
    BY <1>1, <2>1 DEF RowOK
<1>3. CASE batches' = batches
  BY <1>1, <1>2, <1>3, RowsKept, RoundSame DEF BatchInv
<1>4. CASE batches' = [batches EXCEPT ![b].donors[i] = e]
  <2>1. PICK E : E = [old.donors EXCEPT ![i] = e]
    OBVIOUS
  <2>2. E \in Seq(DonorRecords)
    BY <1>2, <2>1, EntryReplaced
  <2>3. PICK S : S = [old EXCEPT !.donors = E]
    OBVIOUS
  <2>4. batches' = [batches EXCEPT ![b] = S] /\ batches'[b] = S
    BY <1>1, <1>4, <2>1, <2>3 DEF BatchInv
  <2>5. /\ S \in [status : Statuses, trigger : {"manual", "schedule"}, policy : Policies,
                  donors : Seq(DonorRecords), reclaim : Nat, cancelled : BOOLEAN]
        /\ S.status = "running" /\ S.reclaim = old.reclaim /\ S.cancelled = old.cancelled /\ S.trigger = old.trigger
    BY <1>2, <2>2, <2>3
  <2>6. S.reclaim <= TakenIn(b)'
    <3>1. TakenIn(b) \in Nat /\ TakenIn(b)' \in Nat /\ TakenIn(b) <= TakenIn(b)'
      BY TakenGrows DEF BatchInv
    <3> QED
      BY <1>2, <2>5, <3>1
  <2>7. RowOK(b)'
    BY <1>2, <2>4, <2>5, <2>6 DEF RowOK
  <2>8. batches' = [c \in BatchIds |-> batches'[c]] /\ \A c \in BatchIds : c # b => batches'[c] = batches[c]
    BY <2>4 DEF BatchInv
  <2>9. \A c \in BatchIds : RowOK(c)'
    BY <2>7, <2>8, RowsKept
  <2>10. HasScheduled' \subseteq HasScheduled
    BY <1>1, <1>2, <2>4, <2>5, <2>8 DEF HasScheduled, Present
  <2> QED
    BY <2>4, <2>5, <2>8, <2>9, <2>10, RoundKept DEF BatchInv, roundVars
<1> QED
  BY <1>3, <1>4 DEF Stored

\* The run comes to the next donor, or goes on with it.
LEMMA RunAdvances ==
  ASSUME Moved, troubled \subseteq troubled', NEW r, r = execution, RunInv(r), r.at \in {"next", "pay"},
         NEW i, i = r.row + 1, i <= Len(r.donors), lots' = lots, batches'[r.batch].status = "running",
         NEW e \in DonorRecords, e.user = r.donors[i].user,
         NEW q \in RunRecords, q.batch = r.batch, q.donors = [r.donors EXCEPT ![i] = e],
         \/ q.at = "pay" /\ q.row = r.row /\ Charged(r.batch, e)'
         \/ /\ q.at = "next" \/ (q.at = "abort" /\ q.status # "running")
            /\ q.row = i /\ Settled(r.batch, e)'
  PROVE  RunInv(q)'
<1>1. PICK D \in Seq(DonorRecords) : D = r.donors
  BY DEF RunInv
<1>2. /\ DonorsOK(D) /\ Len(D) \in Nat /\ DOMAIN D = 1..Len(D) /\ r.row \in Nat /\ i \in DOMAIN D
      /\ r.batch \in BatchIds
  BY <1>1 DEF RunInv
<1>3. PICK E : E = q.donors
  OBVIOUS
<1>4. /\ E \in Seq(DonorRecords) /\ Len(E) = Len(D) /\ DOMAIN E = DOMAIN D
      /\ E[i] = e /\ \A j \in DOMAIN D : j # i => E[j] = D[j]
  BY <1>1, <1>2, <1>3, EntryReplaced
<1>5. \A j \in DOMAIN D : E[j].user = D[j].user
  BY <1>1, <1>4
<1>6. DonorsOK(E)
  BY <1>2, <1>4, <1>5 DEF DonorsOK
<1>7. \A k : Charging(k) => k = SlotOf(r.batch, D[i].user)
  BY <1>1 DEF Charging, NextRow
<1>8. ASSUME NEW j \in DOMAIN D, j # i
      PROVE  IF j <= r.row THEN Settled(r.batch, E[j])' ELSE Waiting(r.batch, E[j])'
  <2>1. PICK d \in DonorRecords : d = D[j] /\ d = E[j]
    BY <1>2, <1>4, <1>8
  <2>2. d.user # D[i].user
    <3>1. \A j1, j2 \in DOMAIN D : j1 # j2 => D[j1].user # D[j2].user
      BY <1>2 DEF DonorsOK
    <3>2. i \in DOMAIN D
      BY <1>2
    <3>3. D[j].user # D[i].user
      BY <1>8, <3>1, <3>2, Zenon
    <3> QED
      BY <2>1, <3>3, Zenon
  <2>3. ~Charging(SlotOf(r.batch, d.user))
    BY <1>7, <2>2 DEF SlotOf
  <2>4. IF j <= r.row THEN Settled(r.batch, d) ELSE Waiting(r.batch, d)
    BY <1>1, <1>8, <2>1 DEF RunInv
  <2>5. (Settled(r.batch, d) => Settled(r.batch, d)') /\ (Waiting(r.batch, d) => Waiting(r.batch, d)')
    BY <1>2, <2>3, DonorKept
  <2> QED
    BY <2>1, <2>4, <2>5
<1>9. ASSUME NEW j \in DOMAIN E
      PROVE  IF j <= q.row THEN Settled(r.batch, E[j])'
             ELSE IF q.at = "pay" /\ j = q.row + 1 THEN Charged(r.batch, E[j])'
             ELSE Waiting(r.batch, E[j])'
  <2>1. j \in Nat /\ q.row \in {r.row, i}
    BY <1>2, <1>4
  <2>2. CASE j = i
    BY <1>2, <1>4, <2>1, <2>2
  <2>3. CASE j # i
    <3>1. (j <= q.row <=> j <= r.row) /\ ~(q.at = "pay" /\ j = q.row + 1)
      BY <1>2, <2>1, <2>3
    <3> QED
      BY <1>4, <1>8, <2>3, <3>1
  <2> QED
    BY <2>2, <2>3
<1>10. ASSUME NEW u \in Users, \A j \in DOMAIN E : E[j].user # u
       PROVE  Untouched(SlotOf(r.batch, u))'
  <2>1. PICK k : k = SlotOf(r.batch, u) /\ k \in Keys
    BY <1>2, SlotIsKey
  <2>2. \A j \in DOMAIN D : D[j].user # u
    BY <1>4, <1>5, <1>10
  <2>3. Untouched(k)
    BY <1>1, <2>1, <2>2 DEF RunInv
  <2>4. ~Charging(k)
    BY <1>2, <1>7, <2>1, <2>2 DEF SlotOf
  <2>5. Untouched(k)'
    BY <2>1, <2>3, <2>4 DEF Moved
  <2> QED
    BY <2>1, <2>5 DEF SlotOf
<1>11. \A l \in lots' : l.batch # r.batch
  BY <1>1, <1>2 DEF RunInv
<1>12. q.row <= Len(E) /\ (q.at = "pay" => q.row < Len(E))
  BY <1>1, <1>2, <1>4
<1>13. q.at # "mark" /\ (q.at = "abort" => q.status # "running")
  OBVIOUS
<1> QED
  BY <1>3, <1>6, <1>9, <1>10, <1>11, <1>12, <1>13 DEF RunInv, RunRecords

LEMMA AfterDonorIs ==
  ASSUME NEW i, NEW e, AfterDonor(i, e), RunInv(execution)
  PROVE  /\ execution' \in [at : {"next", "abort"}, batch : {execution.batch}, donors : {[execution.donors EXCEPT ![i] = e]},
                            row : {i}, stopping : BOOLEAN, status : {"running", "stopped", "failed"}]
         /\ execution'.at = "abort" => execution'.status = "failed"
<1>1. PICK r \in RunRecords : r = execution
  BY RunIsRecord
<1>2. PICK E : E = [r.donors EXCEPT ![i] = e]
  OBVIOUS
<1>3. PICK n : n = [r EXCEPT !.donors = E, !.row = i]
  OBVIOUS
<1>4. execution' = [n EXCEPT !.at = "abort", !.status = "failed"] \/ execution' = [n EXCEPT !.at = "next"]
  BY <1>1, <1>2, <1>3 DEF AfterDonor
<1>5. n = [r EXCEPT !.donors = E, !.row = i] /\ r \in RunRecords
  BY <1>1, <1>3
<1>6. n = [at |-> r.at, batch |-> r.batch, donors |-> E, row |-> i, stopping |-> r.stopping, status |-> r.status]
  BY <1>5 DEF RunRecords
<1>7. \/ execution' = [at |-> "abort", batch |-> r.batch, donors |-> E, row |-> i, stopping |-> r.stopping, status |-> "failed"]
      \/ execution' = [at |-> "next", batch |-> r.batch, donors |-> E, row |-> i, stopping |-> r.stopping, status |-> r.status]
  BY <1>4, <1>6
<1>8. r.stopping \in BOOLEAN /\ r.status \in {"running", "stopped", "failed"}
  BY <1>1 DEF RunRecords
<1> QED
  BY <1>1, <1>2, <1>7, <1>8

LEMMA StopAtStep ==
  ASSUME BatchInv, PB!PayoutOK, StopAtDonor
  PROVE  BatchInv' /\ PB!PayoutOK'
<1>1. PICK r : r = execution
  OBVIOUS
<1>2. /\ r.at = "next" /\ r # AtRest /\ NextRow <= Len(r.donors) /\ NextRow = r.row + 1
      /\ UNCHANGED <<creditVars, userVars, roundVars, policy, batches, lots, troubled>>
      /\ execution' = [r EXCEPT !.at = "abort", !.status = "stopped"]
  BY <1>1 DEF StopAtDonor, Donating, Running, NextRow, AtRest, batchHistory
<1>3. RunInv(r) /\ r \in RunRecords
  BY <1>1, <1>2, RunIsRecord DEF BatchInv
<1>4. PICK q : q = execution'
  OBVIOUS
<1>5. q = [at |-> "abort", batch |-> r.batch, donors |-> r.donors, row |-> r.row, stopping |-> r.stopping, status |-> "stopped"]
  BY <1>2, <1>3, <1>4 DEF RunRecords
<1>6. q \in RunRecords
  BY <1>3, <1>5 DEF RunRecords
<1>7. r.row \in Nat /\ Len(r.donors) \in Nat /\ r.row < Len(r.donors)
  BY <1>2, <1>3 DEF RunInv
<1>8. RunInv(q)
  <2>1. q.at = "abort" /\ q.batch = r.batch /\ q.donors = r.donors /\ q.row = r.row /\ q.status = "stopped"
    BY <1>5
  <2> QED
    BY <1>2, <1>3, <1>6, <1>7, <2>1 DEF RunInv, RunRecords
<1>9. RunInv(q)'
  BY <1>2, <1>8 DEF RunInv, Settled, Waiting, Charged, Untouched, TakenBy, SlotOf, creditVars
<1>10. MoneyInv' /\ Moved /\ PB!PayoutOK'
  BY <1>2, MoneyRests
<1>11. LotsInv' /\ \A b \in BatchIds : RowOK(b)'
  BY <1>2, <1>10, LotsKept, RowsKept DEF BatchInv
<1>12. RoundInv' /\ due' \in Nat
  BY <1>2, RoundSame
<1>13. CallInv'
  BY <1>1, <1>2, <1>4, <1>5 DEF BatchInv, CallInv, Running, creditVars
<1> QED
  BY <1>2, <1>4, <1>9, <1>10, <1>11, <1>12, <1>13 DEF BatchInv, userVars

\* A step of the loop keeps everything, if the run and the call are as they should be.
LEMMA LoopStep ==
  ASSUME BatchInv, PB!PayoutOK, PB!Move, execution # AtRest, execution.at \in {"next", "pay"},
         lots' = lots, troubled \subseteq troubled', UNCHANGED <<userVars, roundVars, policy>>,
         NEW i, NEW e \in DonorRecords, e.user = execution.donors[i].user,
         i = execution.row + 1, i <= Len(execution.donors),
         Stored(execution.batch, i, e), execution' \in RunRecords, execution'.batch = execution.batch,
         execution'.donors = [execution.donors EXCEPT ![i] = e],
         \/ execution'.at = "pay" /\ execution'.row = execution.row /\ Charged(execution.batch, e)'
         \/ /\ execution'.at = "next" \/ (execution'.at = "abort" /\ execution'.status # "running")
            /\ execution'.row = i /\ Settled(execution.batch, e)',
         CallInv'
  PROVE  BatchInv' /\ PB!PayoutOK'
<1>1. PICK r : r = execution /\ RunInv(r) /\ r.batch \in BatchIds /\ batches[r.batch].status = "running"
  <2>1. RunInv(execution)
    BY DEF BatchInv
  <2> QED
    BY <2>1 DEF RunInv
<1>2. PICK q : q = execution'
  OBVIOUS
<1>3. PB!PayoutOK' /\ MoneyInv' /\ Moved
  BY ServiceKeeps
<1>4. LotsInv'
  BY <1>3, LotsKept DEF BatchInv
<1>5. PICK b \in BatchIds : b = r.batch
  BY <1>1
<1>6. /\ UNCHANGED roundVars /\ batches[b].status = "running"
      /\ Stored(b, i, e)
  BY <1>1, <1>5
<1>7. MoneyInv' /\ Moved
  BY <1>3
<1>8. /\ \A c \in BatchIds : RowOK(c)'
      /\ batches' = [c \in BatchIds |-> batches'[c]] /\ batches'[b].status = "running"
      /\ RoundInv' /\ due' \in Nat
  BY <1>6, <1>7, StoredRow
<1>9. RunInv(q)'
  BY <1>1, <1>2, <1>5, <1>7, <1>8, RunAdvances
<1>10. policy' \in Policies /\ income' \in [Users -> Nat] /\ spent' \in [Users -> Nat]
  BY DEF BatchInv, userVars
<1> QED
  BY <1>2, <1>3, <1>4, <1>8, <1>9, <1>10 DEF BatchInv

\* Where the loop stands before a donor.
LEMMA AtDonor ==
  ASSUME BatchInv, Donating("next"), NEW d, d = execution.donors[NextRow]
  PROVE  /\ RunInv(execution) /\ execution # AtRest /\ execution.batch \in BatchIds
         /\ NextRow = execution.row + 1 /\ NextRow \in DOMAIN execution.donors
         /\ d \in DonorRecords /\ Waiting(execution.batch, d)
         /\ calls[Executor] = Credit!Idle
         /\ SlotOf(execution.batch, d.user) \in Keys
<1>1. execution.at = "next" /\ NextRow = execution.row + 1 /\ NextRow <= Len(execution.donors) /\ execution # AtRest
  BY DEF Donating, Running, NextRow, AtRest
<1>2. RunInv(execution)
  BY <1>1 DEF BatchInv
<1>3. execution.donors \in Seq(DonorRecords) /\ execution.row \in Nat /\ execution.batch \in BatchIds
  BY <1>2 DEF RunInv
<1>4. NextRow \in DOMAIN execution.donors /\ ~(NextRow <= execution.row)
  BY <1>1, <1>3
<1>5. d \in DonorRecords
  BY <1>3, <1>4
<1>6. Waiting(execution.batch, d)
  BY <1>1, <1>2, <1>4 DEF RunInv
<1>7. calls[Executor] = Credit!Idle
  BY <1>1 DEF BatchInv, CallInv, Running
<1> QED
  BY <1>1, <1>2, <1>3, <1>4, <1>5, <1>6, <1>7, SlotIsKey DEF DonorRecords

LEMMA UnreadableStep ==
  ASSUME BatchInv, PB!PayoutOK, UserUnreadable
  PROVE  BatchInv' /\ PB!PayoutOK'
<1>1. PICK d : d = execution.donors[NextRow]
  OBVIOUS
<1>2. Donating("next") /\ UNCHANGED <<creditVars, userVars, roundVars, policy, lots, troubled>>
  BY DEF UserUnreadable
<1>3. /\ RunInv(execution) /\ execution # AtRest /\ execution.batch \in BatchIds
      /\ NextRow = execution.row + 1 /\ NextRow \in DOMAIN execution.donors
      /\ d \in DonorRecords /\ Waiting(execution.batch, d)
      /\ calls[Executor] = Credit!Idle
  BY <1>1, <1>2, AtDonor
<1>4. PICK e : e = [d EXCEPT !.status = "failed"]
  OBVIOUS
<1>5. AfterDonor(NextRow, e) /\ Stored(execution.batch, NextRow, e)
  BY <1>1, <1>4 DEF UserUnreadable, StoreEntry, Stored
<1>6. e \in DonorRecords /\ e.user = d.user /\ e.status = "failed" /\ e.actual = 0
  BY <1>3, <1>4 DEF DonorRecords, Waiting, NewDonor
<1>7. /\ execution' \in [at : {"next", "abort"}, batch : {execution.batch}, donors : {[execution.donors EXCEPT ![NextRow] = e]},
                         row : {NextRow}, stopping : BOOLEAN, status : {"running", "stopped", "failed"}]
      /\ execution'.at = "abort" => execution'.status = "failed"
  BY <1>3, <1>5, AfterDonorIs
<1>8. Settled(execution.batch, e)
  BY <1>3, <1>6 DEF Settled, Waiting
<1>9. PICK b : b = execution.batch
  OBVIOUS
<1>10. Settled(b, e)'
  BY <1>2, <1>8, <1>9 DEF Settled, Untouched, TakenBy, SlotOf, creditVars
<1>11. CallInv'
  BY <1>2, <1>3, <1>7 DEF CallInv, Running, creditVars
<1>12. execution.donors \in Seq(DonorRecords) /\ [execution.donors EXCEPT ![NextRow] = e] \in Seq(DonorRecords)
  BY <1>3, <1>6, EntryReplaced DEF RunInv
<1>13. execution' \in RunRecords /\ execution.row \in Nat
  BY <1>3, <1>7, <1>12 DEF RunRecords, RunInv
<1>14. PB!Move
  BY <1>2, ServiceIsMove
<1>15. NextRow <= Len(execution.donors) /\ execution.at = "next"
  BY <1>2 DEF Donating, Running
<1>16. Settled(execution.batch, e)'
  BY <1>7, <1>9, <1>10
<1> QED
  BY <1>1, <1>2, <1>3, <1>5, <1>6, <1>7, <1>9, <1>10, <1>11, <1>13, <1>14, <1>15, LoopStep

-----------------------------------------------------------------------------
(***************************************************************************)
(* Amounts.                                                                 *)
(***************************************************************************)
LEMMA LeastOfTwo ==
  ASSUME NEW x \in Int, NEW y \in Int
  PROVE  Min({x, y}) \in {x, y} /\ Min({x, y}) <= x /\ Min({x, y}) <= y
<1>1. \E m \in {x, y} : \A n \in {x, y} : m <= n
  OBVIOUS
<1> QED
  BY <1>1 DEF Min

LEMMA LeastOfThree ==
  ASSUME NEW x \in Int, NEW y \in Int, NEW z \in Int
  PROVE  Min({x, y, z}) \in {x, y, z} /\ Min({x, y, z}) <= x /\ Min({x, y, z}) <= y
<1>1. PICK m : m = Min({x, y}) /\ m \in {x, y} /\ m <= x /\ m <= y
  BY LeastOfTwo
<1>2. PICK n : n = Min({m, z}) /\ n \in {m, z} /\ n <= m /\ n <= z
  <2>1. m \in Int
    BY <1>1
  <2> QED
    BY <2>1, LeastOfTwo
<1>3. n \in {x, y, z} /\ \A o \in {x, y, z} : n <= o
  BY <1>1, <1>2
<1> QED
  BY <1>3 DEF Min

LEMMA BalanceIsInt ==
  ASSUME BatchInv, NEW u \in Users
  PROVE  Balance(u) \in Int
<1>1. PICK f : f = [b \in BatchIds |-> TakenBy(b, u)]
  OBVIOUS
<1>2. \A b \in BatchIds : f[b] \in Int
  BY <1>1, SlotIsKey DEF BatchInv, MoneyInv, TakenBy
<1>3. PB!SumFunctionOnSet(f, BatchIds) \in Int
  BY <1>2, UsersAreFinite, PB!SumInt
<1>4. Taken(u) \in Int
  BY <1>1, <1>3, SumAgrees DEF Taken
<1>5. Start[u] \in Int /\ income[u] \in Int /\ spent[u] \in Int
  BY BatchAssumption DEF BatchInv
<1> QED
  BY <1>4, <1>5 DEF Balance

PolicyRecords ==
    [enabled : BOOLEAN, autoExecute : BOOLEAN, mode : {"percent", "excess", "fixed"}, value : Nat,
     reserve : Nat, min : Nat, minPerUser : Nat, maxPerUser : Nat, cap : Nat, threshold : Nat]

LEMMA PoliciesAre == Policies \subseteq PolicyRecords
  BY BatchAssumption DEF PolicyRecords

LEMMA AmountIsNat ==
  ASSUME NEW p \in Policies, NEW x \in Int
  PROVE  ReclaimAmount(p, x) \in Nat
<1>1. p \in PolicyRecords
  BY PoliciesAre
<1>2. p.value \in Nat /\ p.reserve \in Nat /\ p.minPerUser \in Nat /\ p.maxPerUser \in Nat /\ p.min \in Nat
  BY <1>1 DEF PolicyRecords
<1>3. PICK a \in Int : a = x - p.reserve
  BY <1>2
<1>4. PICK w \in Int : w = CASE p.mode = "percent" -> (x * p.value) \div 100
                             [] p.mode = "excess" -> a
                             [] OTHER -> p.value
  <2>1. PICK m \in Int : m = x * p.value
    BY <1>2
  <2>2. m \div 100 \in Int
    BY <2>1
  <2> QED
    BY <1>2, <1>3, <2>1, <2>2
<1>5. PICK n \in Int : n = Min({w, a} \cup (IF p.maxPerUser > 0 THEN {p.maxPerUser} ELSE {}))
  <2>1. CASE p.maxPerUser > 0
    <3>1. {w, a} \cup (IF p.maxPerUser > 0 THEN {p.maxPerUser} ELSE {}) = {w, a, p.maxPerUser}
      BY <2>1
    <3>2. PICK z \in Int : z = p.maxPerUser
      BY <1>2
    <3>3. Min({w, a, z}) \in {w, a, z}
      BY LeastOfThree
    <3> QED
      BY <3>1, <3>2, <3>3
  <2>2. CASE ~(p.maxPerUser > 0)
    <3>1. {w, a} \cup (IF p.maxPerUser > 0 THEN {p.maxPerUser} ELSE {}) = {w, a}
      BY <2>2
    <3>2. Min({w, a}) \in Int
      BY LeastOfTwo
    <3> QED
      BY <3>1, <3>2
  <2> QED
    BY <2>1, <2>2
<1>6. ReclaimAmount(p, x) = IF a <= 0 \/ x < p.min \/ n < p.minPerUser THEN 0 ELSE n
  BY <1>3, <1>4, <1>5 DEF ReclaimAmount
<1>7. n < p.minPerUser \/ n \in Nat
  BY <1>2
<1> QED
  BY <1>6, <1>7

LEMMA TakeStep ==
  ASSUME BatchInv, PB!PayoutOK, TakeFromDonor
  PROVE  BatchInv' /\ PB!PayoutOK'
<1>1. PICK d : d = execution.donors[NextRow]
  OBVIOUS
<1>2. PICK b : b = execution.batch
  OBVIOUS
<1>3. Donating("next") /\ UNCHANGED <<final, applied, sent, userVars, roundVars, policy, lots, troubled>>
  BY DEF TakeFromDonor, batchHistory
<1>4. /\ RunInv(execution) /\ execution # AtRest /\ b \in BatchIds
      /\ NextRow = execution.row + 1 /\ NextRow \in DOMAIN execution.donors
      /\ d \in DonorRecords /\ Waiting(b, d)
      /\ calls[Executor] = Credit!Idle
      /\ SlotOf(b, d.user) \in Keys
  BY <1>1, <1>2, <1>3, AtDonor
<1>5. NextRow <= Len(execution.donors) /\ execution.at = "next"
  BY <1>3 DEF Donating, Running
<1>6. batches[b].policy \in Policies
  <2>1. batches[b].status = "running" /\ RowOK(b)
    BY <1>2, <1>4, <1>5 DEF RunInv, BatchInv
  <2> QED
    BY <2>1 DEF RowOK, NoBatch, Deleted
<1>7. PICK n \in Nat : n = AmountNow(d)
  <2>1. PICK a \in Nat : a = ReclaimAmount(batches[b].policy, Balance(d.user))
    BY <1>4, <1>6, BalanceIsInt, AmountIsNat DEF DonorRecords
  <2>2. d.planned \in Nat
    BY <1>4 DEF DonorRecords
  <2>3. AmountNow(d) = Min({a, d.planned})
    BY <1>2, <2>1 DEF AmountNow, PolicyOf
  <2>4. PICK x, y \in Int : x = a /\ y = d.planned
    BY <2>1, <2>2
  <2>5. Min({x, y}) \in {x, y}
    BY LeastOfTwo
  <2> QED
    BY <2>1, <2>2, <2>3, <2>4, <2>5
<1>8. PICK e : e = [d EXCEPT !.planned = n, !.status = IF n = 0 THEN "skipped" ELSE "processing"]
  OBVIOUS
<1>9. /\ e \in DonorRecords /\ e.user = d.user /\ e.actual = 0 /\ e.planned = n
      /\ e.status = IF n = 0 THEN "skipped" ELSE "processing"
  BY <1>4, <1>7, <1>8 DEF DonorRecords, Waiting, NewDonor
<1>10. /\ batches' = [batches EXCEPT ![b].donors[NextRow] = e]
       /\ IF n = 0
          THEN AfterDonor(NextRow, e) /\ UNCHANGED calls
          ELSE /\ execution' = [execution EXCEPT !.at = "pay", !.donors[NextRow] = e]
               /\ Credit!Call(Executor, [key |-> SlotOf(b, d.user), delta |-> -n])
  BY <1>1, <1>2, <1>7, <1>8, <1>9 DEF TakeFromDonor, StoreEntry
<1>11. Stored(b, NextRow, e)
  BY <1>10 DEF Stored
<1>12. execution.donors \in Seq(DonorRecords) /\ [execution.donors EXCEPT ![NextRow] = e] \in Seq(DonorRecords)
  BY <1>4, <1>9, EntryReplaced DEF RunInv
<1>13. CASE n = 0
  <2>1. /\ execution' \in [at : {"next", "abort"}, batch : {b}, donors : {[execution.donors EXCEPT ![NextRow] = e]},
                           row : {NextRow}, stopping : BOOLEAN, status : {"running", "stopped", "failed"}]
        /\ execution'.at = "abort" => execution'.status = "failed"
    BY <1>2, <1>4, <1>10, <1>13, AfterDonorIs
  <2>2. Settled(b, e)
    BY <1>4, <1>9, <1>13 DEF Settled, Waiting
  <2>3. UNCHANGED creditVars
    BY <1>3, <1>10, <1>13 DEF creditVars
  <2>4. Settled(b, e)'
    BY <1>2, <1>3, <2>2 DEF Settled, Untouched, TakenBy, SlotOf
  <2>5. CallInv'
    BY <1>4, <1>10, <1>13, <2>1 DEF CallInv, Running
  <2>6. execution' \in RunRecords /\ execution.row \in Nat
    BY <1>2, <1>4, <1>12, <2>1 DEF RunRecords, RunInv
  <2>7. PB!Move
    BY <2>3, ServiceIsMove
  <2> QED
    BY <1>1, <1>2, <1>3, <1>4, <1>5, <1>9, <1>11, <2>1, <2>4, <2>5, <2>6, <2>7, LoopStep
<1>14. CASE n # 0
  <2>1. PICK r \in RunRecords : r = execution
    BY <1>4, RunIsRecord
  <2>2. PICK E : E = [execution.donors EXCEPT ![NextRow] = e]
    OBVIOUS
  <2>3. execution' = [at |-> "pay", batch |-> b, donors |-> E, row |-> r.row, stopping |-> r.stopping, status |-> r.status]
    <3>1. execution' = [r EXCEPT !.at = "pay", !.donors = E]
      BY <1>10, <1>14, <2>1, <2>2 DEF RunRecords
    <3> QED
      BY <1>2, <2>1, <3>1 DEF RunRecords
  <2>4. execution' \in RunRecords /\ execution'.row = execution.row /\ execution'.at = "pay" /\ execution'.batch = b
        /\ execution'.donors = E
    BY <1>4, <1>12, <2>1, <2>2, <2>3 DEF RunRecords
  <2>5. Charged(b, e)
    BY <1>4, <1>9, <1>14 DEF Charged, Waiting, Untouched, TakenBy
  <2>6. Charged(b, e)'
    BY <1>2, <1>3, <2>5 DEF Charged, TakenBy, SlotOf
  <2>7. PICK k \in Keys : k = SlotOf(b, d.user)
    BY <1>4
  <2>8. PB!Move
    <3>1. -n # 0
      BY <1>14
    <3>2. PICK a : a = -n /\ a # 0
      BY <3>1
    <3>3. Credit!Call(Executor, [key |-> k, delta |-> a]) /\ UNCHANGED <<final, applied, sent>>
      BY <1>3, <1>10, <1>14, <2>7, <3>2
    <3> QED
      BY <3>2, <3>3, ServiceIsMove
  <2>9. calls'[Executor] = [pc |-> "running", req |-> [key |-> k, delta |-> -n]]
    BY <1>10, <1>14, <2>7 DEF Credit!Call, PB!PayoutOK, PB!CallsOK
  <2>10. execution'.donors[execution'.row + 1] = e
    BY <1>4, <1>9, <1>12, <2>2, <2>4, EntryReplaced DEF RunInv
  <2>11. CallInv'
    <3>1. k = SlotOf(execution'.batch, e.user)
      BY <1>9, <2>4, <2>7
    <3>2. calls'[Executor] = [pc |-> calls'[Executor].pc, req |-> [key |-> k, delta |-> -e.planned]]
      BY <1>9, <2>9
    <3> QED
      BY <2>4, <2>10, <3>1, <3>2 DEF CallInv, Running, NextRow, SlotOf
  <2> QED
    BY <1>1, <1>2, <1>3, <1>4, <1>5, <1>9, <1>11, <2>2, <2>4, <2>6, <2>8, <2>11, LoopStep
<1> QED
  BY <1>13, <1>14

LEMMA ReclaimEndsStep ==
  ASSUME BatchInv, PB!PayoutOK, ReclaimEnds
  PROVE  BatchInv' /\ PB!PayoutOK'
<1>1. PICK d : d = execution.donors[NextRow]
  OBVIOUS
<1>2. PICK b : b = execution.batch
  OBVIOUS
<1>3. PICK e : e = EntryAfter(d, calls[Executor].pc)
  OBVIOUS
<1>4. /\ Running("pay") /\ Credit!Return(Executor) /\ AfterDonor(NextRow, e)
      /\ batches' = [batches EXCEPT ![b].donors[NextRow] = e] \/ batches' = batches
      /\ troubled' = IF calls[Executor].pc = "error" THEN troubled \cup {SlotOf(b, e.user)} ELSE troubled
      /\ UNCHANGED <<final, applied, sent, userVars, roundVars, policy, lots>>
  BY <1>1, <1>2, <1>3 DEF ReclaimEnds, StoreEntry
<1>5. /\ RunInv(execution) /\ NextRow \in DOMAIN execution.donors
      /\ b \in BatchIds /\ d \in DonorRecords /\ Charged(b, d)
      /\ calls[Executor].req = [key |-> SlotOf(b, d.user), delta |-> -d.planned]
      /\ SlotOf(b, d.user) \in Keys
  BY <1>1, <1>2, <1>4, ChargeIs
<1>6. PICK pc \in {"ok", "skipped", "error"} : pc = calls[Executor].pc
  BY <1>4 DEF Credit!Return, Credit!Returned
<1>7. /\ NextRow = execution.row + 1 /\ NextRow <= Len(execution.donors) /\ execution # AtRest /\ execution.at = "pay"
      /\ execution.donors \in Seq(DonorRecords)
  BY <1>4, <1>5 DEF RunInv, NextRow, Running, AtRest
<1>8. PICK k \in Keys : k = SlotOf(b, d.user)
  BY <1>5
<1>9. e = IF pc = "error" THEN [d EXCEPT !.status = "failed"]
          ELSE [d EXCEPT !.status = "success", !.actual = d.planned]
  BY <1>3, <1>6 DEF EntryAfter
<1>10. /\ e \in DonorRecords /\ e.user = d.user
       /\ IF pc = "error" THEN e.status = "failed" /\ e.actual = 0
          ELSE e.status = "success" /\ e.actual = d.planned
  BY <1>5, <1>9 DEF DonorRecords, Charged
<1>11. pc # "error" => applied[k] # 0
  <2>1. SUFFICES ASSUME pc # "error" PROVE applied[k] # 0
    OBVIOUS
  <2>2. calls[Executor] # PB!Idle /\ calls[Executor].req.key = k
    BY <1>4, <1>5, <1>8 DEF PB!Idle, BatchInv, CallInv
  <2>3. PB!CallOK(calls[Executor])
    BY DEF PB!PayoutOK, PB!CallsOK
  <2>4. PB!Served(k)
    BY <1>6, <2>1, <2>2, <2>3 DEF PB!CallOK
  <2> QED
    BY <1>6, <2>4 DEF PB!Served, PB!Moved
<1>12. PICK t : t = troubled'
  OBVIOUS
<1>13. IF pc = "error" THEN SlotOf(b, e.user) \in t
       ELSE e.actual # 0 /\ e.actual = TakenBy(b, e.user)
  <2>1. CASE pc = "error"
    BY <1>4, <1>6, <1>12, <2>1
  <2>2. CASE pc # "error"
    <3>1. applied[k] \in Int /\ -applied[k] \in {0, d.planned} /\ d.planned # 0
      BY <1>5, <1>8 DEF BatchInv, MoneyInv, Charged, TakenBy
    <3>2. -applied[k] # 0
      BY <1>11, <2>2, <3>1
    <3>3. TakenBy(b, e.user) = -applied[k]
      BY <1>8, <1>10 DEF TakenBy
    <3> QED
      BY <1>10, <2>2, <3>1, <3>2, <3>3
  <2> QED
    BY <2>1, <2>2
<1>14. Settled(b, e)'
  BY <1>4, <1>10, <1>12, <1>13 DEF Settled, TakenBy, SlotOf
<1>15. PICK E \in Seq(DonorRecords) : E = [execution.donors EXCEPT ![NextRow] = e]
  BY <1>7, <1>10, EntryReplaced
<1>16. /\ execution' \in [at : {"next", "abort"}, batch : {b}, donors : {E},
                          row : {NextRow}, stopping : BOOLEAN, status : {"running", "stopped", "failed"}]
       /\ execution'.at = "abort" => execution'.status = "failed"
  BY <1>2, <1>4, <1>5, <1>15, AfterDonorIs
<1>17. execution' \in RunRecords
  <2>1. execution.row \in Nat
    BY <1>5 DEF RunInv
  <2> QED
    BY <1>5, <1>7, <1>16, <2>1 DEF RunRecords
<1>18. CallInv'
  BY <1>4, <1>16 DEF CallInv, Running, Credit!Return, PB!PayoutOK, PB!CallsOK
<1>19. PB!Move
  BY <1>4, ServiceIsMove
<1>20. Stored(b, NextRow, e) /\ troubled \subseteq troubled' /\ UNCHANGED <<userVars, roundVars, policy>>
  BY <1>4 DEF Stored
<1> QED
  BY <1>1, <1>2, <1>4, <1>5, <1>7, <1>10, <1>14, <1>15, <1>16, <1>17, <1>18, <1>19, <1>20, LoopStep

-----------------------------------------------------------------------------
(***************************************************************************)
(* A lot is created; the process dies.                                      *)
(***************************************************************************)
LEMMA LotStep ==
  ASSUME BatchInv, PB!PayoutOK, CreateLot
  PROVE  BatchInv' /\ PB!PayoutOK'
<1>1. /\ Collected /\ Lotless # {} /\ lots' = lots \cup {Lot(Min(Lotless))}
      /\ UNCHANGED <<creditVars, userVars, roundVars, batchHistory, policy, batches, execution>>
  BY DEF CreateLot
<1>2. PICK r \in RunRecords : r = execution /\ RunInv(r) /\ r.at = "next" /\ r # AtRest
  BY <1>1, RunIsRecord DEF BatchInv, Collected, Running, AtRest
<1>3. PICK D \in Seq(DonorRecords) : D = r.donors
  BY <1>2 DEF RunRecords
<1>4. Len(D) \in Nat /\ DOMAIN D = 1..Len(D) /\ r.row \in Nat /\ r.row <= Len(D) /\ r.row = Len(D) /\ r.batch \in BatchIds
  BY <1>1, <1>2, <1>3 DEF RunInv, Collected, NextRow
<1>5. PICK i \in DOMAIN D : i = Min(Lotless) /\ i \in Lotless
  <2>1. Lotless \subseteq DOMAIN D /\ Lotless \in SUBSET Nat
    BY <1>2, <1>3, <1>4 DEF Lotless
  <2>2. \E x \in Lotless : \A y \in Lotless : x <= y
    BY <1>1, <2>1, PB!Least
  <2> QED
    BY <2>1, <2>2 DEF Min
<1>6. PICK d \in DonorRecords : d = D[i] /\ d.actual > 0
  <2>1. D[i] \in DonorRecords
    OBVIOUS
  <2>2. D[i].actual > 0
    BY <1>2, <1>3, <1>5 DEF Lotless
  <2> QED
    BY <2>1, <2>2
<1>7. Settled(r.batch, d)
  BY <1>2, <1>3, <1>4, <1>5, <1>6 DEF RunInv
<1>8. d.actual # 0 /\ d.actual = TakenBy(r.batch, d.user)
  BY <1>6, <1>7 DEF Settled
<1>9. PICK m : m = Lot(i)
  OBVIOUS
<1>10. m = [batch |-> r.batch, user |-> d.user, amount |-> d.actual]
  BY <1>2, <1>3, <1>6, <1>9 DEF Lot
<1>11. lots' = lots \cup {m}
  BY <1>1, <1>5, <1>9
<1>12. PB!PayoutOK' /\ MoneyInv' /\ Moved
  BY <1>1, MoneyRests
<1>13. LotsInv'
  <2>1. IsFiniteSet(lots')
    BY <1>11, FS_AddElement DEF BatchInv, LotsInv
  <2>2. \A l \in lots' :
           /\ l.batch \in BatchIds /\ l.user \in Users
           /\ l = [batch |-> l.batch, user |-> l.user, amount |-> TakenBy(l.batch, l.user)]
           /\ l.amount # 0
    BY <1>4, <1>8, <1>10, <1>11 DEF BatchInv, LotsInv, DonorRecords
  <2>3. \A c, u : TakenBy(c, u)' = TakenBy(c, u)
    BY <1>1 DEF TakenBy, creditVars
  <2> QED
    BY <2>1, <2>2, <2>3 DEF LotsInv
<1>14. UNCHANGED <<batches, troubled>> /\ batches[r.batch].status = "running" /\ lots \subseteq lots'
  BY <1>1, <1>2, <1>11 DEF RunInv, batchHistory
<1>15. \A l \in lots' : l \in lots \/ batches[l.batch].status = "running"
  BY <1>10, <1>11, <1>14
<1>16. \A b \in BatchIds : RowOK(b)'
  BY <1>12, <1>14, <1>15, RowsKept
<1>17. RunInv(r)'
  <2>1. \A i1 \in DOMAIN D : i1 <= r.row /\ Settled(r.batch, D[i1])
    BY <1>2, <1>3, <1>4 DEF RunInv
  <2>2. \A c, e : Settled(c, e) => Settled(c, e)'
    BY <1>1, <1>14 DEF Settled, Untouched, TakenBy, SlotOf, creditVars
  <2>3. \A k : Untouched(k) => Untouched(k)'
    BY <1>1 DEF Untouched, creditVars
  <2>4. \A u \in Users : (\A i1 \in DOMAIN D : D[i1].user # u) => Untouched(SlotOf(r.batch, u))'
    BY <1>2, <1>3, <2>3 DEF RunInv, SlotOf
  <2>5. DonorsOK(D) /\ batches'[r.batch].status = "running"
    BY <1>2, <1>3, <1>14 DEF RunInv
  <2>6. \A i1 \in DOMAIN D : Settled(r.batch, D[i1])'
    BY <2>1, <2>2
  <2> QED
    BY <1>2, <1>3, <1>4, <2>1, <2>4, <2>5, <2>6 DEF RunInv, RunRecords
<1>18. RoundInv' /\ due' \in Nat
  BY <1>1, RoundSame
<1>19. CallInv'
  BY <1>1, <1>12, CallKept
<1>20. policy' \in Policies /\ income' \in [Users -> Nat] /\ spent' \in [Users -> Nat]
  BY <1>1 DEF BatchInv, userVars
<1> QED
  BY <1>1, <1>2, <1>12, <1>13, <1>14, <1>16, <1>17, <1>18, <1>19, <1>20 DEF BatchInv

LEMMA CrashStep ==
  ASSUME BatchInv, PB!PayoutOK, BatchCrash
  PROVE  BatchInv' /\ PB!PayoutOK'
<1>1. /\ Credit!Crash /\ execution' = AtRest /\ due' = 0 /\ UNCHANGED <<userVars, blind, policy, batches, lots>>
      /\ troubled \subseteq troubled'
  BY DEF BatchCrash
<1>2. PB!PayoutOK' /\ MoneyInv' /\ Moved
  BY ServiceIsMove, ServiceKeeps
<1>3. LotsInv' /\ \A b \in BatchIds : RowOK(b)'
  BY <1>1, <1>2, LotsKept, RowsKept DEF BatchInv
<1>4. HasScheduled' = HasScheduled
  BY <1>1, ScheduledAre
<1>5. RoundInv' /\ due' \in Nat
  BY <1>1, <1>4 DEF RoundInv, BatchInv
<1>6. CallInv'
  BY <1>1 DEF CallInv, Running, AtRest, Credit!Crash
<1>7. policy' \in Policies /\ income' \in [Users -> Nat] /\ spent' \in [Users -> Nat]
      /\ batches' = [b \in BatchIds |-> batches'[b]]
  BY <1>1 DEF BatchInv, userVars
<1> QED
  BY <1>1, <1>2, <1>3, <1>5, <1>6, <1>7 DEF BatchInv

-----------------------------------------------------------------------------
(***************************************************************************)
(* The plan is a list of new donors, each of them once.  PlanOf folds over  *)
(* the places of the order, the last one first; that the recursion defines  *)
(* anything is derived as it is for sums (Payout_proofs).                   *)
(***************************************************************************)
Planned(p, order, s, g) == IF s = {} THEN EmptyPlan ELSE Considered(p, g[s \ {Max(s)}], order[Max(s)])

IsPlanning(p, order, g) == g = [s \in SUBSET DOMAIN order |-> Planned(p, order, s, g)]

Planning(p, order) == CHOOSE g : IsPlanning(p, order, g)

LEMMA PlanIs ==
  ASSUME NEW p, NEW order
  PROVE  PlanOf(p, order) = Planning(p, order)[DOMAIN order].donors
BY DEF PlanOf, FoldLeft, MapThenFoldSet, Planning, IsPlanning, Planned

LEMMA GreatestIsIn ==
  ASSUME NEW n \in Nat, NEW s \in SUBSET (1..n), s # {}
  PROVE  Max(s) \in s
<1>1. PICK t : t = {n - x : x \in s}
  OBVIOUS
<1>2. t \in SUBSET Nat /\ t # {}
  <2>1. \A x \in s : x \in Int /\ 1 <= x /\ x <= n
    OBVIOUS
  <2>2. \A x \in s : n - x \in Nat
    BY <2>1
  <2> QED
    BY <1>1, <2>2
<1>3. PICK y \in t : \A z \in t : y <= z
  BY <1>2, PB!Least
<1>4. PICK x \in s : y = n - x
  BY <1>1, <1>3
<1>5. \A z \in s : x >= z
  <2>1. SUFFICES ASSUME NEW z \in s PROVE x >= z
    OBVIOUS
  <2>2. n - z \in t
    BY <1>1, <2>1
  <2>3. y <= n - z /\ x \in Int /\ z \in Int
    BY <1>3, <1>4, <2>1, <2>2
  <2> QED
    BY <1>4, <2>3
<1> QED
  BY <1>4, <1>5 DEF Max

LEMMA FiniteAgrees == \A S : IsFiniteSet(S) <=> PB!IsFiniteSet(S)
  BY DEF IsFiniteSet, PB!IsFiniteSet

\* What a part of the order gives: donors among its users.
PlanOK(order, s, plan) ==
    /\ plan \in [planned : Nat, full : BOOLEAN, donors : Seq(DonorRecords)]
    /\ NewDonors(plan.donors)
    /\ \A i \in DOMAIN plan.donors : \E j \in s : plan.donors[i].user = order[j]

LEMMA PlanningExists ==
  ASSUME NEW p, NEW order, NEW n \in Nat, DOMAIN order = 1..n
  PROVE  IsPlanning(p, order, Planning(p, order))
<1> DEFINE D == DOMAIN order
           Small(m) == {s \in SUBSET D : Cardinality(s) <= m}
           Upto(m, g) == g = [s \in Small(m) |-> Planned(p, order, s, g)]
           good == {m \in Nat : \E g : Upto(m, g)}
<1>0. IsFiniteSet(D)
  BY FS_Interval
<1>1. \A s \in SUBSET D : IsFiniteSet(s) /\ Cardinality(s) \in Nat /\ (Cardinality(s) = 0 => s = {})
  BY <1>0, FS_Subset, FS_CardinalityType, FS_EmptySet
<1>2. 0 \in good
  <2>1. PICK g : g = [s \in Small(0) |-> EmptyPlan]
    OBVIOUS
  <2>2. \A s \in Small(0) : s = {}
    BY <1>1
  <2>3. Upto(0, g)
    BY <2>1, <2>2 DEF Planned
  <2> QED
    BY <2>3
<1>3. ASSUME NEW m \in good PROVE m + 1 \in good
  <2>1. PICK g : Upto(m, g)
    OBVIOUS
  <2>2. PICK h : h = [s \in Small(m + 1) |-> IF s \in Small(m) THEN g[s] ELSE Planned(p, order, s, g)]
    OBVIOUS
  <2>3. ASSUME NEW s \in Small(m + 1) PROVE h[s] = Planned(p, order, s, h)
    <3>1. CASE s = {}
      <4>1. s \in Small(m)
        BY <3>1, FS_EmptySet
      <4> QED
        BY <2>1, <2>2, <3>1, <4>1 DEF Planned
    <3>2. CASE s # {}
      <4>1. PICK c : c = Max(s) /\ c \in s
        BY <3>2, GreatestIsIn
      <4>2. PICK t : t = s \ {c} /\ t \in Small(m)
        <5>1. Cardinality(s \ {c}) = Cardinality(s) - 1
          BY <1>1, <4>1, FS_RemoveElement
        <5> QED
          BY <1>1, <5>1
      <4>3. h[t] = g[t]
        BY <1>1, <2>2, <4>2
      <4>4. /\ Planned(p, order, s, h) = Considered(p, h[t], order[c])
            /\ Planned(p, order, s, g) = Considered(p, g[t], order[c])
        BY <3>2, <4>1, <4>2 DEF Planned
      <4>5. h[s] = Planned(p, order, s, g)
        BY <2>1, <2>2
      <4> QED
        BY <4>3, <4>4, <4>5
    <3> QED
      BY <3>1, <3>2
  <2>4. Upto(m + 1, h) /\ m + 1 \in Nat
    BY <2>2, <2>3
  <2> QED
    <3> HIDE DEF Upto
    <3> QED
      BY <2>4
<1>4. good = Nat
  <2> HIDE DEF good
  <2>1. good \subseteq Nat
    BY DEF good
  <2> QED
    BY <1>2, <1>3, <2>1, PB!InductionOverNat
<1>5. Cardinality(D) \in Nat /\ Small(Cardinality(D)) = SUBSET D
  BY <1>0, <1>1, FS_Subset
<1>6. PICK g : Upto(Cardinality(D), g)
  <2>1. PICK m \in Nat : m = Cardinality(D)
    BY <1>5
  <2>2. m \in good
    BY <1>4, <2>1
  <2>3. \E g : Upto(m, g)
    BY <2>2
  <2> QED
    BY <2>1, <2>3
<1>7. IsPlanning(p, order, g)
  BY <1>5, <1>6 DEF IsPlanning
<1> QED
  BY <1>7 DEF Planning

LEMMA ShareIs ==
  ASSUME NEW p \in Policies, NEW planned \in Nat, NEW amount \in Nat
  PROVE  WithinCap(p, planned, amount) \in Nat
<1>1. p.cap \in Nat /\ p.minPerUser \in Nat
  BY PoliciesAre DEF PolicyRecords
<1>2. PICK room \in Int : room = p.cap - planned
  BY <1>1
<1>3. PICK x \in Int : x = amount
  OBVIOUS
<1>4. Min({x, room}) \in {x, room}
  BY LeastOfTwo
<1>5. PICK cut \in Int : cut = Min({amount, room})
  BY <1>3, <1>4
<1>6. WithinCap(p, planned, amount)
        = IF p.cap = 0 THEN amount ELSE IF room <= 0 \/ cut < p.minPerUser THEN 0 ELSE cut
  BY <1>2, <1>5 DEF WithinCap
<1>7. cut < p.minPerUser \/ cut \in Nat
  BY <1>1
<1> QED
  BY <1>6, <1>7

\* One more user is a new donor, or none.
LEMMA ConsideredIs ==
  ASSUME BatchInv, NEW p \in Policies, NEW order, NEW s, NEW c \in s, NEW t, t = s \ {c},
         NEW u \in Users, u = order[c], \A j \in t : order[j] # u,
         NEW plan, PlanOK(order, t, plan)
  PROVE  PlanOK(order, s, Considered(p, plan, u))
<1>1. PICK a \in Nat : a = IF Rich(p, u) THEN ReclaimAmount(p, Balance(u)) ELSE 0
  BY BalanceIsInt, AmountIsNat
<1>2. plan \in [planned : Nat, full : BOOLEAN, donors : Seq(DonorRecords)]
  BY DEF PlanOK
<1>3. PICK x \in Nat : x = WithinCap(p, plan.planned, a)
  BY <1>2, ShareIs
<1>4. Considered(p, plan, u) =
        IF plan.full \/ a = 0 THEN plan
        ELSE IF x = 0 THEN [plan EXCEPT !.full = TRUE]
        ELSE [plan EXCEPT !.planned = @ + x, !.donors = Append(@, Donor(u, x))]
  BY <1>1, <1>3 DEF Considered
<1>5. PICK D \in Seq(DonorRecords) : D = plan.donors
  BY <1>2
<1>6. NewDonors(D) /\ \A i \in DOMAIN D : \E j \in t : D[i].user = order[j]
  BY <1>5 DEF PlanOK
<1>7. CASE plan.full \/ a = 0
  BY <1>2, <1>4, <1>5, <1>6, <1>7 DEF PlanOK
<1>8. CASE ~(plan.full \/ a = 0) /\ x = 0
  <2>1. PICK q : q = [plan EXCEPT !.full = TRUE]
    OBVIOUS
  <2>2. q \in [planned : Nat, full : BOOLEAN, donors : Seq(DonorRecords)] /\ q.donors = D
    BY <1>2, <1>5, <2>1
  <2> QED
    BY <1>4, <1>6, <1>8, <2>1, <2>2 DEF PlanOK
<1>9. CASE ~(plan.full \/ a = 0) /\ x # 0
  <2>1. PICK d : d = Donor(u, x)
    OBVIOUS
  <2>2. d \in DonorRecords /\ NewDonor(d) /\ d.user = u
    BY <1>9, <2>1 DEF Donor, DonorRecords, NewDonor
  <2>3. PICK E : E = Append(D, d)
    OBVIOUS
  <2>4. PICK n \in Nat : n = Len(D) /\ DOMAIN D = 1..n
    OBVIOUS
  <2>5. E \in Seq(DonorRecords) /\ DOMAIN E = 1..(n + 1) /\ E[n + 1] = d /\ \A i \in 1..n : E[i] = D[i]
    BY <2>2, <2>3, <2>4, AppendProperties
  <2>6. \A i \in DOMAIN E : i \in 1..n \/ i = n + 1
    BY <2>4, <2>5
  <2>7. \A i \in 1..n : E[i].user # u
    <3>1. SUFFICES ASSUME NEW i \in 1..n PROVE E[i].user # u
      OBVIOUS
    <3>2. PICK j \in t : D[i].user = order[j]
      BY <1>6, <2>4
    <3>3. E[i] = D[i]
      BY <2>5
    <3> QED
      BY <3>2, <3>3
  <2>8. DonorsOK(E)
    <3>1. SUFFICES ASSUME NEW i \in DOMAIN E, NEW j \in DOMAIN E, i # j PROVE E[i].user # E[j].user
      BY <2>5 DEF DonorsOK
    <3>2. CASE i \in 1..n /\ j \in 1..n
      <4>1. D[i].user # D[j].user
        BY <1>6, <2>4, <3>1, <3>2 DEF NewDonors, DonorsOK
      <4> QED
        BY <2>5, <3>2, <4>1
    <3>3. CASE i = n + 1
      BY <2>2, <2>5, <2>6, <2>7, <3>1, <3>3
    <3>4. CASE j = n + 1
      BY <2>2, <2>5, <2>6, <2>7, <3>1, <3>4
    <3> QED
      BY <2>6, <3>2, <3>3, <3>4
  <2>9. NewDonors(E)
    BY <1>6, <2>2, <2>4, <2>5, <2>6, <2>8 DEF NewDonors
  <2>10. \A i \in DOMAIN E : \E j \in s : E[i].user = order[j]
    <3>1. SUFFICES ASSUME NEW i \in DOMAIN E PROVE \E j \in s : E[i].user = order[j]
      OBVIOUS
    <3>2. CASE i \in 1..n
      BY <1>6, <2>4, <2>5, <3>2
    <3>3. CASE i = n + 1
      BY <2>2, <2>5, <3>3
    <3> QED
      BY <2>6, <3>2, <3>3
  <2>11. PICK q : q = [planned |-> plan.planned + x, full |-> plan.full, donors |-> E]
    OBVIOUS
  <2>12. Considered(p, plan, u) = q
    BY <1>2, <1>4, <1>5, <1>9, <2>1, <2>3, <2>11
  <2>13. q \in [planned : Nat, full : BOOLEAN, donors : Seq(DonorRecords)] /\ q.donors = E
    BY <1>2, <2>5, <2>11
  <2> QED
    BY <2>9, <2>10, <2>12, <2>13 DEF PlanOK
<1> QED
  BY <1>7, <1>8, <1>9

LEMMA PlanIsNew ==
  ASSUME BatchInv, NEW p \in Policies, NEW order \in Orders
  PROVE  NewDonors(PlanOf(p, order))
<1>1. PICK idle \in SUBSET Users : order \in SetToSeqs(idle)
  BY DEF Orders
<1>2. PICK n \in Nat : /\ order \in [1..n -> idle]
                       /\ \A i, j \in 1..n : i # j => order[i] # order[j]
  <2>1. IsFiniteSet(idle)
    BY BatchAssumption, FS_Subset
  <2>2. PICK n \in Nat : n = Cardinality(idle)
    BY <2>1, FS_CardinalityType
  <2> QED
    BY <1>1, <2>2 DEF SetToSeqs
<1>3. DOMAIN order = 1..n /\ IsFiniteSet(1..n)
  BY <1>2, FS_Interval
<1>4. PICK g : g = Planning(p, order) /\ IsPlanning(p, order, g)
  BY <1>3, PlanningExists
<1>5. \A s \in SUBSET (1..n) : g[s] = Planned(p, order, s, g)
  BY <1>3, <1>4 DEF IsPlanning
<1>6. PICK good : good = {s \in SUBSET (1..n) : PlanOK(order, s, g[s])}
  OBVIOUS
<1>7. {} \in good
  <2>1. g[{}] = [planned |-> 0, full |-> FALSE, donors |-> <<>>]
    BY <1>5 DEF Planned, EmptyPlan
  <2>2. <<>> \in Seq(DonorRecords) /\ DOMAIN <<>> = {}
    OBVIOUS
  <2>3. NewDonors(<<>>)
    BY <2>2 DEF NewDonors, DonorsOK
  <2>4. PICK D : D = <<>> /\ D \in Seq(DonorRecords) /\ NewDonors(D) /\ \A i \in DOMAIN D : FALSE
    BY <2>2, <2>3
  <2>5. PICK e : e = [planned |-> 0, full |-> FALSE, donors |-> D]
    OBVIOUS
  <2>6. e \in [planned : Nat, full : BOOLEAN, donors : Seq(DonorRecords)] /\ e.donors = D
    BY <2>4, <2>5
  <2>7. PlanOK(order, {}, e)
    BY <2>4, <2>6 DEF PlanOK
  <2> QED
    BY <1>6, <2>1, <2>4, <2>5, <2>7
<1>8. ASSUME NEW s \in SUBSET (1..n), s # {}, \A x \in s : s \ {x} \in good
      PROVE  s \in good
  <2>1. PICK c \in s : c = Max(s)
    BY <1>8, GreatestIsIn
  <2>2. PICK t : t = s \ {c} /\ t \in good
    BY <1>8
  <2>3. PICK u \in Users : u = order[c]
    BY <1>2, <2>1
  <2>4. \A j \in t : order[j] # u
    BY <1>2, <2>1, <2>2, <2>3
  <2>5. g[s] = Considered(p, g[t], u)
    BY <1>5, <1>8, <2>1, <2>2, <2>3 DEF Planned
  <2>6. PlanOK(order, t, g[t])
    BY <1>6, <2>2
  <2>7. PICK plan : plan = g[t]
    OBVIOUS
  <2>8. PlanOK(order, s, Considered(p, plan, u))
    BY <2>2, <2>3, <2>4, <2>6, <2>7, ConsideredIs
  <2> QED
    BY <1>6, <2>5, <2>7, <2>8
<1>9. (1..n) \in good
  <2>1. good \in SUBSET SUBSET (1..n) /\ PB!IsFiniteSet(1..n)
    BY <1>3, <1>6, FiniteAgrees
  <2> QED
    BY <1>7, <1>8, <2>1, PB!InductionOverSubsets
<1>10. PlanOK(order, 1..n, g[1..n])
  BY <1>6, <1>9
<1> QED
  BY <1>3, <1>4, <1>10, PlanIs DEF PlanOK

-----------------------------------------------------------------------------
(***************************************************************************)
(* A batch is created; the scheduler's rounds; a batch is executed.         *)
(***************************************************************************)
LEMMA NextIsFree ==
  ASSUME BatchInv, \E b \in BatchIds : batches[b].status = "none"
  PROVE  /\ NextBatch \in BatchIds /\ batches[NextBatch].status = "none"
         /\ Unspent(NextBatch)
<1>1. PICK free : free = {b \in BatchIds : batches[b].status = "none"}
  OBVIOUS
<1>2. free \in SUBSET Nat /\ free # {}
  <2>1. Cardinality(BatchIds) \in Nat /\ BatchIds = 1..Cardinality(BatchIds)
    BY BatchAssumption, FS_CardinalityType
  <2>2. BatchIds \subseteq Nat
    BY <2>1
  <2> QED
    BY <1>1, <2>2
<1>3. \E x \in free : \A y \in free : x <= y
  BY <1>2, PB!Least
<1>4. PICK b \in free : b = NextBatch
  BY <1>1, <1>3 DEF NextBatch, Min
<1>5. b \in BatchIds /\ batches[b].status = "none" /\ RowOK(b)
  BY <1>1, <1>4 DEF BatchInv
<1>6. Unspent(b)
  BY <1>5 DEF RowOK, Deleted, Statuses
<1> QED
  BY <1>4, <1>5, <1>6

\* The entries of a batch are those of its plan, in another order.
LEMMA ListingIsNew ==
  ASSUME NEW plan, NewDonors(plan), NEW D \in Listings(plan)
  PROVE  NewDonors(D)
<1>1. plan \in Seq(DonorRecords) /\ \A i \in DOMAIN plan : plan[i] \in DonorRecords /\ NewDonor(plan[i])
  BY DEF NewDonors, DonorsOK
<1>2. PICK S : S = Range(plan)
  OBVIOUS
<1>3. \A x \in S : \E i \in DOMAIN plan : x = plan[i]
  BY <1>2 DEF Range
<1>4. PICK n \in Nat : DOMAIN plan = 1..n
  BY <1>1
<1>5. Cardinality(S) \in Nat
  <2>1. IsFiniteSet(1..n)
    BY FS_Interval
  <2>2. plan \in Surjection(1..n, S)
    BY <1>2, <1>4, <1>1 DEF Surjection, Range
  <2> QED
    BY <2>1, <2>2, FS_Surjection, FS_CardinalityType
<1>6. PICK c \in Nat : c = Cardinality(S)
  BY <1>5
<1>7. D \in [1..c -> S] /\ \A i, j \in 1..c : i # j => D[i] # D[j]
  BY <1>2, <1>6 DEF Listings, SetToSeqs
<1>8. \A i \in 1..c : D[i] \in DonorRecords /\ NewDonor(D[i])
  BY <1>1, <1>3, <1>7
<1>9. D \in Seq(DonorRecords) /\ DOMAIN D = 1..c
  BY <1>7, <1>8, SeqDef
<1>10. ASSUME NEW i \in 1..c, NEW j \in 1..c, i # j
       PROVE  D[i].user # D[j].user
  <2>1. PICK k \in DOMAIN plan, l \in DOMAIN plan : D[i] = plan[k] /\ D[j] = plan[l]
    BY <1>3, <1>7
  <2>2. k # l
    BY <1>7, <1>10, <2>1
  <2> QED
    BY <2>1, <2>2 DEF NewDonors, DonorsOK
<1> QED
  BY <1>8, <1>9, <1>10 DEF NewDonors, DonorsOK

LEMMA CreateStep ==
  ASSUME BatchInv, PB!PayoutOK, NEW trigger \in {"manual", "schedule"}, CreateBatch(trigger),
         due' \in Nat, blind' = blind,
         trigger = "manual" => due' = due,
         trigger = "schedule" => due > 0 /\ due' = due - 1,
         UNCHANGED <<creditVars, userVars, policy, lots, execution, troubled>>
  PROVE  BatchInv' /\ PB!PayoutOK'
<1>1. PICK b \in BatchIds : b = NextBatch /\ batches[b].status = "none" /\ Unspent(b)
  BY NextIsFree DEF CreateBatch
<1>2. PICK D : NewDonors(D) /\ batches' = [batches EXCEPT ![b] = Draft(trigger, D)]
  <2>1. PICK order \in Orders : \E D \in Listings(PlanOf(policy, order)) :
                batches' = [batches EXCEPT ![NextBatch] = Draft(trigger, D)]
    BY DEF CreateBatch
  <2>2. NewDonors(PlanOf(policy, order))
    BY PlanIsNew DEF BatchInv
  <2> QED
    BY <1>1, <2>1, <2>2, ListingIsNew
<1>3. PICK S : S = Draft(trigger, D)
  OBVIOUS
<1>4. /\ S \in [status : Statuses, trigger : {"manual", "schedule"}, policy : Policies,
                donors : Seq(DonorRecords), reclaim : Nat, cancelled : BOOLEAN]
      /\ S.status = "draft" /\ S.reclaim = 0 /\ S.cancelled = FALSE /\ S.trigger = trigger /\ S.donors = D
  BY <1>2, <1>3 DEF Draft, Statuses, BatchInv, NewDonors, DonorsOK
<1>5. batches' = [batches EXCEPT ![b] = S] /\ batches'[b] = S /\ \A c \in BatchIds : c # b => batches'[c] = batches[c]
  BY <1>2, <1>3 DEF BatchInv
<1>6. Unspent(b)'
  BY <1>1 DEF Unspent, Untouched, SlotOf, creditVars
<1>7. MoneyInv' /\ Moved
  BY MoneyRests
<1>8. TakenIn(b)' \in Nat
  BY <1>7, TakenGrows DEF BatchInv
<1>9. RowOK(b)'
  <2>1. S.reclaim <= TakenIn(b)'
    BY <1>4, <1>8
  <2> QED
    BY <1>2, <1>4, <1>5, <1>6, <2>1 DEF RowOK
<1>10. HasScheduled' = IF trigger = "manual" THEN HasScheduled ELSE HasScheduled \cup {b}
  BY <1>1, <1>4, <1>5 DEF HasScheduled, Present
<1>11. RoundInv'
  <2>1. CASE trigger = "manual"
    BY <1>10, <2>1, RoundKept DEF BatchInv
  <2>2. CASE trigger = "schedule"
    <3>1. SUFFICES ASSUME ~blind PROVE due' = 0 /\ HasScheduled' = {b}
      BY DEF RoundInv
    <3>2. due = 1 /\ HasScheduled = {}
      BY <2>2, <3>1 DEF BatchInv, RoundInv
    <3> QED
      BY <1>10, <2>2, <3>2
  <2> QED
    BY <2>1, <2>2
<1>12. batches[b].status # "running"
  BY <1>1
<1> QED
  BY <1>5, <1>9, <1>11, <1>12, OneRow

LEMMA AdminStep ==
  ASSUME BatchInv, PB!PayoutOK, Admin
  PROVE  BatchInv' /\ PB!PayoutOK'
<1>1. CASE PreviewManual
  <2>1. /\ CreateBatch("manual") /\ due' = due /\ blind' = blind
        /\ UNCHANGED <<creditVars, userVars, policy, lots, execution, troubled>>
    BY <1>1 DEF PreviewManual, roundVars
  <2> QED
    BY <2>1, CreateStep DEF BatchInv
<1>2. CASE SaveSettings
  <2>1. /\ policy' \in Policies
        /\ UNCHANGED <<creditVars, userVars, roundVars, batches, lots, execution, troubled>>
    BY <1>2 DEF SaveSettings
  <2>2. RoundInv' /\ due' \in Nat
    BY <2>1, RoundSame
  <2> QED
    BY <2>1, <2>2, BesideStep DEF BatchInv, userVars
<1>3. CASE Stop
  <2>1. /\ execution # AtRest /\ execution' = [execution EXCEPT !.stopping = TRUE]
        /\ UNCHANGED <<creditVars, userVars, roundVars, policy, batches, lots, troubled>>
    BY <1>3 DEF Stop
  <2>2. RoundInv' /\ due' \in Nat
    BY <2>1, RoundSame
  <2> QED
    BY <2>1, <2>2, BesideStep DEF BatchInv, userVars
<1>4. ASSUME NEW b \in BatchIds, ExecuteManual(b)
      PROVE  BatchInv' /\ PB!PayoutOK'
  <2>1. Starts(b) /\ UNCHANGED <<creditVars, userVars, roundVars, policy, batches, lots, troubled>>
    BY <1>4 DEF ExecuteManual
  <2>2. RoundInv' /\ due' \in Nat
    BY <2>1, RoundSame
  <2> QED
    BY <2>1, <2>2, StartStep
<1> QED
  BY <1>1, <1>2, <1>3, <1>4, CancelStep, DeleteStep DEF Admin

LEMMA SchedulerStep ==
  ASSUME BatchInv, PB!PayoutOK, Scheduler
  PROVE  BatchInv' /\ PB!PayoutOK'
<1>1. CASE Minute
  <2>1. /\ due' = due + 1
        /\ (HasScheduled = {} /\ blind' = (blind \/ due > 0)) \/ blind' = TRUE
        /\ UNCHANGED <<creditVars, userVars, policy, batches, lots, execution, troubled>>
    BY <1>1 DEF Minute
  <2>2. HasScheduled' = HasScheduled /\ due \in Nat
    BY <2>1, ScheduledAre DEF BatchInv
  <2>3. ~blind' => due' = 1 /\ HasScheduled = {}
    <3>1. SUFFICES ASSUME ~blind' PROVE due' = 1 /\ HasScheduled = {}
      OBVIOUS
    <3>2. HasScheduled = {} /\ ~(due > 0)
      BY <2>1, <3>1, Zenon
    <3> QED
      BY <2>1, <2>2, <3>2
  <2>4. RoundInv' /\ due' \in Nat
    BY <2>1, <2>2, <2>3 DEF RoundInv
  <2> QED
    BY <2>1, <2>4, BesideStep DEF BatchInv, userVars
<1>2. CASE PreviewScheduled
  <2>1. /\ due > 0 /\ due' = due - 1 /\ blind' = blind /\ due \in Nat
        /\ CreateBatch("schedule") \/ UNCHANGED batches
        /\ UNCHANGED <<creditVars, userVars, policy, lots, execution, troubled>>
    BY <1>2 DEF PreviewScheduled, BatchInv
  <2>2. due' \in Nat
    BY <2>1
  <2>3. CASE CreateBatch("schedule")
    BY <2>1, <2>2, <2>3, CreateStep
  <2>4. CASE UNCHANGED batches
    <3>1. HasScheduled' = HasScheduled
      BY <2>4, ScheduledAre
    <3>2. RoundInv'
      BY <2>1, <2>2, <3>1 DEF BatchInv, RoundInv
    <3> QED
      BY <2>1, <2>2, <2>4, <3>2, BesideStep DEF BatchInv, userVars
  <2> QED
    BY <2>1, <2>3, <2>4
<1>3. ASSUME NEW b \in BatchIds, ExecuteScheduled(b)
      PROVE  BatchInv' /\ PB!PayoutOK'
  <2>1. Starts(b) /\ UNCHANGED <<creditVars, userVars, due, blind, policy, batches, lots, troubled>>
    BY <1>3 DEF ExecuteScheduled, batchHistory
  <2>2. HasScheduled' = HasScheduled
    BY <2>1, ScheduledAre
  <2>3. RoundInv' /\ due' \in Nat
    BY <2>1, <2>2, RoundKept DEF BatchInv
  <2> QED
    BY <2>1, <2>3, StartStep
<1> QED
  BY <1>1, <1>2, <1>3 DEF Scheduler

LEMMA BatchStep ==
  ASSUME BatchInv, PB!PayoutOK, [BatchNext]_batchVars
  PROVE  BatchInv' /\ PB!PayoutOK'
<1>1. CASE Execution
  BY <1>1, MarkStep, StopAtStep, UnreadableStep, TakeStep, ReclaimEndsStep, AbortStep, LotStep, EndFailsStep,
     FinishStep DEF Execution
<1>2. CASE \/ CreditStep \/ Upstream \/ UNCHANGED batchVars \/ \E u \in Users : Move(u)
  <2>1. /\ UNCHANGED <<batches, lots, troubled, execution, policy, roundVars>>
        /\ UNCHANGED creditVars \/ CreditStep \/ Upstream
    BY <1>2 DEF CreditStep, Upstream, batchVars, batchHistory, Move
  <2>2. income' \in [Users -> Nat] /\ spent' \in [Users -> Nat]
    <3>1. CASE UNCHANGED userVars
      BY <3>1 DEF BatchInv, userVars
    <3>2. CASE \E u \in Users : Move(u)
      BY <3>2 DEF BatchInv, Move
    <3> QED
      BY <1>2, <3>1, <3>2 DEF CreditStep, Upstream, batchVars
  <2>3. RoundInv' /\ due' \in Nat /\ policy' \in Policies
    BY <2>1, RoundSame DEF BatchInv
  <2> QED
    BY <2>1, <2>2, <2>3, BesideStep
<1> QED
  BY <1>1, <1>2, AdminStep, SchedulerStep, CrashStep DEF BatchNext

LEMMA BatchStarts == BatchInit => BatchInv /\ PB!PayoutOK
<1> SUFFICES ASSUME BatchInit PROVE BatchInv /\ PB!PayoutOK
  OBVIOUS
<1>1. PB!PayoutOK
  BY PB!PayoutInit DEF BatchInit, Credit!Init, PB!Init, Credit!Idle, PB!Idle
<1>2. applied = [k \in Keys |-> 0] /\ sent = {} /\ lots = {}
  BY DEF BatchInit, Credit!Init
<1>3. \A b \in BatchIds : batches[b] = NoBatch
  BY DEF BatchInit
<1>4. HasScheduled = {}
  BY <1>3 DEF HasScheduled, Present, NoBatch
<1>5. \A b \in BatchIds : RowOK(b)
  BY <1>2, <1>3, SlotIsKey DEF RowOK, Unspent, Untouched
<1>6. MoneyInv /\ LotsInv
  BY <1>2, FS_EmptySet DEF MoneyInv, LotsInv
<1>7. CallInv
  BY DEF BatchInit, CallInv, Running, AtRest, Credit!Init
<1>8. RoundInv /\ due \in Nat
  BY <1>4 DEF BatchInit, RoundInv
<1> QED
  BY <1>1, <1>5, <1>6, <1>7, <1>8 DEF BatchInit, BatchInv

-----------------------------------------------------------------------------
(***************************************************************************)
(* What follows from the invariant.                                         *)
(***************************************************************************)
LEMMA BatchInvariant == BatchSpec => [](BatchInv /\ PB!PayoutOK)
<1>1. BatchInv /\ PB!PayoutOK /\ [BatchNext]_batchVars => (BatchInv /\ PB!PayoutOK)'
  BY BatchStep
<1> QED
  BY BatchStarts, <1>1, PTL DEF BatchSpec

LEMMA PresentIs ==
  ASSUME BatchInv, NEW b \in Present
  PROVE  /\ b \in BatchIds
         /\ batches[b] \in [status : Statuses, trigger : {"manual", "schedule"}, policy : Policies,
                            donors : Seq(DonorRecords), reclaim : Nat, cancelled : BOOLEAN]
         /\ batches[b].reclaim <= TakenIn(b)
         /\ batches[b].cancelled => Unspent(b)
         /\ batches[b].status \in {"success", "partial"} => AllInLots(b)
<1>1. b \in BatchIds /\ RowOK(b) /\ batches[b].status # "none" /\ batches[b].status # "deleted"
  BY DEF Present, BatchInv
<1>2. batches[b] # NoBatch /\ batches[b] # Deleted
  BY <1>1 DEF NoBatch, Deleted
<1> QED
  BY <1>1, <1>2 DEF RowOK

LEMMA NothingTaken ==
  ASSUME BatchInv
  PROVE  CancelledTakesNothing
<1>1. SUFFICES ASSUME NEW b \in Present, batches[b].cancelled
               PROVE  TakenIn(b) = 0 /\ LotsOf(b) = {}
  BY DEF CancelledTakesNothing
<1>2. b \in BatchIds /\ Unspent(b)
  BY <1>1, PresentIs
<1>3. PICK f : f = [u \in Users |-> TakenBy(b, u)]
  OBVIOUS
<1>4. \A u \in Users : f[u] = 0
  BY <1>2, <1>3 DEF Unspent, Untouched, TakenBy
<1>5. PB!SumFunctionOnSet(f, Users) = 0
  BY <1>4, UsersAreFinite, PB!SumOfNothing
<1> QED
  BY <1>2, <1>3, <1>5, SumAgrees DEF TakenIn, LotsOf, Unspent

(***************************************************************************)
(* A cancelled batch takes no money and gets no lots, whoever was about to  *)
(* execute it, whatever crashes come in between.                            *)
(***************************************************************************)
THEOREM CancelledStayEmpty == BatchSpec => []CancelledTakesNothing
  BY BatchInvariant, NothingTaken, PTL

LEMMA OneAtMost ==
  ASSUME BatchInv
  PROVE  OneScheduledBatch
<1>1. SUFFICES ASSUME ~blind PROVE Cardinality(HasScheduled) <= 1
  BY DEF OneScheduledBatch
<1>2. \A b, c \in HasScheduled : b = c
  BY <1>1 DEF BatchInv, RoundInv
<1>3. CASE HasScheduled = {}
  BY <1>3, FS_EmptySet
<1>4. CASE HasScheduled # {}
  <2>1. PICK b : HasScheduled = {b}
    BY <1>2, <1>4
  <2> QED
    BY <2>1, FS_Singleton
<1> QED
  BY <1>3, <1>4

(***************************************************************************)
(* As long as each round of the scheduler sees the others' batches, a day   *)
(* has one scheduled batch that lives.                                      *)
(***************************************************************************)
THEOREM OneScheduledADay == BatchSpec => []OneScheduledBatch
  BY BatchInvariant, OneAtMost, PTL

LEMMA FinishedAre ==
  ASSUME BatchInv
  PROVE  FinishedBatchesAccount
<1>1. SUFFICES ASSUME NEW b \in Present, batches[b].status \in {"success", "partial"},
                      NEW u \in Users, SlotOf(b, u) \notin troubled
               PROVE  LotMoney({l \in LotsOf(b) : l.user = u}) = TakenBy(b, u)
  BY DEF FinishedBatchesAccount
<1>2. b \in BatchIds /\ AllInLots(b)
  BY <1>1, PresentIs
<1>3. PICK S : S = {l \in LotsOf(b) : l.user = u}
  OBVIOUS
<1>4. PICK m : m = [batch |-> b, user |-> u, amount |-> TakenBy(b, u)]
  OBVIOUS
<1>5. \A l \in S : l = m /\ l.amount # 0
  BY <1>3, <1>4 DEF LotsOf, BatchInv, LotsInv
<1>6. PICK f : f = [l \in S |-> l.amount]
  OBVIOUS
<1>7. LotMoney(S) = PB!SumFunctionOnSet(f, S)
  BY <1>6, SumAgrees DEF LotMoney
<1>8. applied[SlotOf(b, u)] \in Int
  BY <1>2, SlotIsKey DEF BatchInv, MoneyInv
<1>9. CASE TakenBy(b, u) = 0
  <2>1. S = {}
    BY <1>4, <1>5, <1>9
  <2> QED
    BY <1>3, <1>7, <1>9, <2>1, PB!SumNone
<1>10. CASE TakenBy(b, u) # 0
  <2>1. applied[SlotOf(b, u)] # 0
    BY <1>8, <1>10 DEF TakenBy
  <2>2. m \in lots
    BY <1>1, <1>2, <1>4, <2>1 DEF AllInLots
  <2>3. S = {m}
    BY <1>3, <1>4, <1>5, <2>2 DEF LotsOf
  <2>4. f[m] = TakenBy(b, u) /\ f[m] \in Int
    BY <1>4, <1>6, <1>8, <2>3 DEF TakenBy
  <2>5. PB!IsFiniteSet(S)
    BY <2>3, FS_Singleton, FiniteAgrees
  <2>6. PB!SumFunctionOnSet(f, S) = f[m]
    BY <2>3, <2>4, <2>5, PB!SumOfOne
  <2> QED
    BY <1>3, <1>7, <2>4, <2>6
<1> QED
  BY <1>9, <1>10

(***************************************************************************)
(* Whatever a batch that ran to its end took from a donor is the donor's    *)
(* lot, to the last unit, unless the deduction ended in an error.           *)
(***************************************************************************)
THEOREM FinishedBatchesAdd == BatchSpec => []FinishedBatchesAccount
  BY BatchInvariant, FinishedAre, PTL

LEMMA TakenIsNat ==
  ASSUME BatchInv, NEW b \in BatchIds
  PROVE  TakenIn(b) \in Nat /\ \A u \in Users : TakenBy(b, u) \in Nat
<1>1. PICK f : f = [u \in Users |-> TakenBy(b, u)]
  OBVIOUS
<1>2. \A u \in Users : f[u] \in Nat /\ f[u] = TakenBy(b, u)
  BY <1>1, SlotIsKey DEF BatchInv, MoneyInv, TakenBy
<1>3. PB!SumFunctionOnSet(f, Users) \in Nat
  BY <1>2, UsersAreFinite, PB!SumNat
<1> QED
  BY <1>1, <1>2, <1>3, SumAgrees DEF TakenIn

\* What the batches say they took, they took.
LEMMA RecordsAreBacked ==
  ASSUME BatchInv, NEW f, f = [b \in Present |-> batches[b].reclaim],
         NEW g, g = [b \in BatchIds |-> TakenIn(b)]
  PROVE  /\ SumFunctionOnSet(f, Present) \in Nat
         /\ SumFunctionOnSet(f, Present) <= SumFunctionOnSet(g, BatchIds)
<1>1. PICK h : h = [b \in Present |-> b]
  OBVIOUS
<1>2. Present \in SUBSET BatchIds /\ PB!IsFiniteSet(Present)
  BY BatchAssumption, FS_Subset, FiniteAgrees DEF Present
<1>3. h \in [Present -> BatchIds] /\ \A x, y \in Present : x # y => h[x] # h[y]
  BY <1>1, <1>2
<1>4. \A x \in BatchIds : g[x] \in Nat
  BY TakenIsNat
<1>5. \A x \in Present : f[x] \in Nat /\ f[x] <= g[h[x]]
  <2>1. SUFFICES ASSUME NEW x \in Present PROVE f[x] \in Nat /\ f[x] <= g[h[x]]
    OBVIOUS
  <2>2. f[x] = batches[x].reclaim /\ h[x] = x /\ g[x] = TakenIn(x)
    BY <1>1, <1>2
  <2> QED
    BY <2>2, PresentIs
<1>6. PB!SumFunctionOnSet(f, Present) <= PB!SumFunctionOnSet(g, BatchIds)
  BY <1>2, <1>3, <1>4, <1>5, UsersAreFinite, PB!SumInjective
<1>7. PB!SumFunctionOnSet(f, Present) \in Nat
  BY <1>2, <1>5, PB!SumNat
<1> QED
  BY <1>6, <1>7, SumAgrees

\* The lots of a batch are what its donors gave.
LEMMA LotsOfBatchAreBacked ==
  ASSUME BatchInv, NEW b \in BatchIds, NEW f, f = [l \in lots |-> l.amount],
         NEW S, S = {l \in lots : l.batch = b}
  PROVE  PB!SumFunctionOnSet(f, S) \in Nat /\ PB!SumFunctionOnSet(f, S) <= TakenIn(b)
<1>1. PICK h : h = [l \in S |-> l.user]
  OBVIOUS
<1>2. PICK g : g = [u \in Users |-> TakenBy(b, u)]
  OBVIOUS
<1>3. PB!IsFiniteSet(S)
  BY FS_Subset, FiniteAgrees DEF BatchInv, LotsInv
<1>4. \A l \in S : l.user \in Users /\ l = [batch |-> b, user |-> l.user, amount |-> TakenBy(b, l.user)]
  BY DEF BatchInv, LotsInv
<1>5. h \in [S -> Users] /\ \A x, y \in S : x # y => h[x] # h[y]
  BY <1>1, <1>4
<1>6. \A u \in Users : g[u] \in Nat
  BY <1>2, TakenIsNat
<1>7. \A l \in S : f[l] \in Nat /\ f[l] <= g[h[l]]
  <2>1. SUFFICES ASSUME NEW l \in S PROVE f[l] \in Nat /\ f[l] <= g[h[l]]
    OBVIOUS
  <2>2. PICK u \in Users : u = l.user /\ l = [batch |-> b, user |-> u, amount |-> TakenBy(b, u)]
    BY <1>4
  <2>3. f[l] = TakenBy(b, u) /\ h[l] = u /\ g[u] = TakenBy(b, u)
    BY <1>1, <1>2, <2>2
  <2>4. g[u] \in Nat
    BY <1>6
  <2> QED
    BY <2>3, <2>4
<1>8. PB!SumFunctionOnSet(f, S) <= PB!SumFunctionOnSet(g, Users)
  BY <1>3, <1>5, <1>6, <1>7, UsersAreFinite, PB!SumInjective
<1>9. PB!SumFunctionOnSet(f, S) \in Nat
  BY <1>3, <1>7, PB!SumNat
<1> QED
  BY <1>2, <1>8, <1>9, SumAgrees DEF TakenIn

LEMMA LotsAreBacked ==
  ASSUME BatchInv, NEW g, g = [b \in BatchIds |-> TakenIn(b)]
  PROVE  LotMoney(lots) \in Nat /\ LotMoney(lots) <= SumFunctionOnSet(g, BatchIds)
<1>1. PICK f : f = [l \in lots |-> l.amount]
  OBVIOUS
<1>2. PICK c : c = [l \in lots |-> l.batch]
  OBVIOUS
<1>3. PICK p : p = [b \in BatchIds |-> PB!SumFunctionOnSet(f, {l \in lots : c[l] = b})]
  OBVIOUS
<1>4. c \in [lots -> BatchIds] /\ PB!IsFiniteSet(lots)
  BY <1>2, FiniteAgrees DEF BatchInv, LotsInv
<1>5. \A l \in lots : f[l] \in Int
  <2>1. SUFFICES ASSUME NEW l \in lots PROVE f[l] \in Int
    OBVIOUS
  <2>2. l.batch \in BatchIds /\ l.user \in Users /\ l.amount = TakenBy(l.batch, l.user)
    BY DEF BatchInv, LotsInv
  <2>3. TakenBy(l.batch, l.user) \in Nat
    BY <2>2, TakenIsNat
  <2> QED
    BY <1>1, <2>2, <2>3
<1>6. \A b \in BatchIds : p[b] \in Nat /\ p[b] <= g[b]
  <2>1. SUFFICES ASSUME NEW b \in BatchIds PROVE p[b] \in Nat /\ p[b] <= g[b]
    OBVIOUS
  <2>2. PICK S : S = {l \in lots : l.batch = b}
    OBVIOUS
  <2>3. {l \in lots : c[l] = b} = S
    BY <1>2, <2>2
  <2>4. p[b] = PB!SumFunctionOnSet(f, S) /\ g[b] = TakenIn(b)
    BY <1>3, <2>3
  <2> QED
    BY <1>1, <2>2, <2>4, LotsOfBatchAreBacked
<1>7. \A b \in BatchIds : p[b] \in Int /\ g[b] \in Int /\ p[b] <= g[b]
  BY <1>6, TakenIsNat
<1>8. PB!SumFunctionOnSet(f, lots) = PB!SumFunctionOnSet(p, BatchIds)
  BY <1>3, <1>4, <1>5, UsersAreFinite, PB!SumByClass
<1>9. PB!SumFunctionOnSet(p, BatchIds) <= PB!SumFunctionOnSet(g, BatchIds)
  BY <1>7, UsersAreFinite, PB!SumBound
<1>10. PB!SumFunctionOnSet(p, BatchIds) \in Nat
  BY <1>6, UsersAreFinite, PB!SumNat
<1> QED
  BY <1>1, <1>8, <1>9, <1>10, SumAgrees DEF LotMoney

LEMMA PoolHolds ==
  ASSUME BatchInv
  PROVE  PoolIsBacked
<1>1. PICK f : f = [b \in Present |-> batches[b].reclaim]
  OBVIOUS
<1>2. PICK g : g = [b \in BatchIds |-> TakenIn(b)]
  OBVIOUS
<1>3. PICK a \in Nat : a = SumFunctionOnSet(f, Present) /\ a <= SumFunctionOnSet(g, BatchIds)
  BY <1>1, <1>2, RecordsAreBacked
<1>4. PICK m \in Nat : m = LotMoney(lots) /\ m <= SumFunctionOnSet(g, BatchIds)
  BY <1>2, LotsAreBacked
<1>5. SumFunctionOnSet(g, BatchIds) \in Int
  <2>1. \A b \in BatchIds : g[b] \in Int
    BY <1>2, TakenIsNat
  <2> QED
    BY <2>1, UsersAreFinite, PB!SumInt, SumAgrees
<1>6. PICK x \in Int : x = a - m
  OBVIOUS
<1>7. Max({x, 0}) = IF x >= 0 THEN x ELSE 0
  <2>1. \A y \in {x, 0} : y \in {x, 0} /\ (\A z \in {x, 0} : y >= z) => y = IF x >= 0 THEN x ELSE 0
    OBVIOUS
  <2>2. \E y \in {x, 0} : \A z \in {x, 0} : y >= z
    OBVIOUS
  <2> QED
    BY <2>1, <2>2 DEF Max
<1>8. Pool = (IF x >= 0 THEN x ELSE 0) + m
  BY <1>1, <1>3, <1>4, <1>6, <1>7 DEF Pool
<1>9. Pool <= SumFunctionOnSet(g, BatchIds)
  BY <1>3, <1>4, <1>5, <1>6, <1>8
<1> QED
  BY <1>2, <1>9 DEF PoolIsBacked

(***************************************************************************)
(* The pool never shows more money than all batches have taken from their   *)
(* donors.                                                                  *)
(***************************************************************************)
THEOREM PoolStaysBacked == BatchSpec => []PoolIsBacked
  BY BatchInvariant, PoolHolds, PTL
=============================================================================
