--------------------------- MODULE MigratorProofs ---------------------------
(***************************************************************************)
(* Proofs about Migrator, for any number of processes, releases and steps. *)
(* The invariant says that the holder of the advisory lock is the only     *)
(* process past it, and that what it read from schema_migrations is still  *)
(* true; the lock is needed for the second part only.                      *)
(***************************************************************************)
EXTENDS Migrator, TLAPS

USE DEF Idle, Run

\* With no migration applied and no process running the invariant holds.
LEMMA InitInv == Init => MigratorInv
BY MigratorAssumption DEF Init, MigratorInv, TypeOK, AppliedIsPrefix, Exclusive, TodoIsTrue

\* A record of proc is changed only for the process that takes a step.
LEMMA BeginInv ==
  ASSUME MigratorInv, NEW p \in Process, NEW down \in BOOLEAN, NEW steps \in 0 .. MaxSteps,
         Begin(p, down, steps)
  PROVE  MigratorInv'
<1> DEFINE n == IF down /\ steps = 0 THEN 1 ELSE steps
<1>1. n \in Nat /\ (n > 0) \in BOOLEAN
  BY MigratorAssumption
<1>2. proc' = [proc EXCEPT ![p] =
                [pc |-> "lock", down |-> down, left |-> n, limited |-> n > 0, todo |-> {}]]
  BY DEF Begin
<1> HIDE DEF n
<1>3. TypeOK'
  <2>1. [pc |-> "lock", down |-> down, left |-> n, limited |-> n > 0, todo |-> {}] \in
          Run
    BY <1>1
  <2>2. runs' \in 0 .. MaxRuns /\ applied' = applied /\ lock' = lock
    BY MigratorAssumption DEF MigratorInv, TypeOK, Begin
  <2> QED
    BY <2>1, <2>2, <1>2 DEF MigratorInv, TypeOK
<1>4. Exclusive'
  BY <1>2 DEF MigratorInv, TypeOK, Exclusive, Begin
<1>5. TodoIsTrue'
  <2>1. proc'[p].pc = "lock" /\ applied' = applied /\ \A q \in Process \ {p} : proc'[q] = proc[q]
    BY <1>2 DEF MigratorInv, TypeOK, Begin
  <2> QED
    BY <2>1 DEF MigratorInv, TodoIsTrue, Known
<1>6. QED
  BY <1>3, <1>4, <1>5 DEF MigratorInv, AppliedIsPrefix, Begin

\* Taking the advisory lock, which is free, keeps the invariant.
LEMMA LockInv == ASSUME MigratorInv, NEW p \in Process, Lock(p) PROVE MigratorInv'
<1>1. TypeOK'
  BY DEF MigratorInv, TypeOK, Lock
<1>2. Exclusive'
  BY DEF MigratorInv, TypeOK, Exclusive, Lock, LockFree
<1>3. TodoIsTrue'
  BY DEF MigratorInv, TypeOK, TodoIsTrue, Lock
<1>4. QED
  BY <1>1, <1>2, <1>3 DEF MigratorInv, AppliedIsPrefix, Lock

\* The versions loadAppliedVersions reads under the lock are those of the table.
LEMMA LoadInv == ASSUME MigratorInv, NEW p \in Process, Load(p) PROVE MigratorInv'
<1>1. TypeOK'
  <2>1. applied \subseteq Nat /\ Known(p) \subseteq Nat
    BY MigratorAssumption DEF MigratorInv, TypeOK, Known
  <2>2. PICK t \in SUBSET Nat : proc' = [proc EXCEPT ![p] = [@ EXCEPT !.pc = "apply", !.todo = t]]
    <3>1. (IF proc[p].down THEN applied ELSE Known(p) \ applied) \in SUBSET Nat
      BY <2>1
    <3> QED
      BY <3>1, Zenon DEF Load
  <2>3. proc' \in [Process -> Run]
    <3>1. [proc[p] EXCEPT !.pc = "apply", !.todo = t] \in Run
      BY DEF MigratorInv, TypeOK
    <3> HIDE DEF Run
    <3> QED
      BY <3>1, <2>2 DEF MigratorInv, TypeOK
  <2>4. applied' = applied /\ lock' = lock /\ runs' = runs
    BY DEF Load
  <2> QED
    BY <2>3, <2>4 DEF MigratorInv, TypeOK
<1>2. Exclusive'
  BY DEF MigratorInv, TypeOK, Exclusive, Load
<1>3. TodoIsTrue'
  BY DEF MigratorInv, TypeOK, TodoIsTrue, Load
<1>4. QED
  BY <1>1, <1>2, <1>3 DEF MigratorInv, AppliedIsPrefix, Load

\* What Took does to the record of its process.
LEMMA TookRecord ==
  ASSUME TypeOK, NEW p \in Process, NEW v \in Nat, Took(p, v), More(proc[p])
  PROVE  /\ proc' \in [Process -> Run]
         /\ proc'[p].todo = proc[p].todo \ {v}
         /\ proc'[p].pc = proc[p].pc /\ proc'[p].down = proc[p].down
         /\ \A q \in Process \ {p} : proc'[q] = proc[q]
<1>1. PICK n \in Nat : proc' = [proc EXCEPT ![p].todo = proc[p].todo \ {v}, ![p].left = n]
  <2>1. CASE proc[p].limited
    <3>1. proc[p].left - 1 \in Nat
      BY <2>1 DEF TypeOK, More
    <3> QED
      BY <2>1, <3>1 DEF TypeOK, Took
  <2>2. CASE ~proc[p].limited
    BY <2>2 DEF TypeOK, Took
  <2> QED
    BY <2>1, <2>2
<1> QED
  BY <1>1 DEF TypeOK

\* applyUp applies the version after the last one, so no gap opens.
LEMMA ApplyOneUpInv == ASSUME MigratorInv, NEW p \in Process, ApplyOneUp(p) PROVE MigratorInv'
<1> PICK v \in proc[p].todo : IsNext(proc[p], v) /\ v \notin applied /\ applied' = applied \cup {v} /\ Took(p, v)
  BY DEF ApplyOneUp
<1>1. proc[p].pc = "apply" /\ ~proc[p].down /\ More(proc[p]) /\ lock' = lock /\ runs' = runs
  BY DEF ApplyOneUp
<1>2. v \in Nat /\ proc[p].todo = Known(p) \ applied
  BY <1>1 DEF MigratorInv, TypeOK, TodoIsTrue
<1>3. TypeOK'
  BY <1>1, <1>2, TookRecord DEF MigratorInv, TypeOK
<1>4. AppliedIsPrefix'
  <2> SUFFICES ASSUME NEW u \in applied', NEW w \in 1 .. u PROVE w \in applied'
    BY DEF AppliedIsPrefix
  <2>1. CASE u \in applied
    BY <2>1 DEF MigratorInv, AppliedIsPrefix
  <2>2. CASE u = v /\ w # v
    <3>1. w \in Known(p) /\ ~(v <= w)
      BY <2>2, <1>2, MigratorAssumption DEF Known
    <3>2. w \notin proc[p].todo
      BY <3>1, <1>1 DEF IsNext
    <3> QED
      BY <3>1, <3>2, <1>2
  <2> QED
    BY <2>1, <2>2
<1>5. Exclusive'
  BY <1>1, <1>2, TookRecord DEF MigratorInv, Exclusive
<1>6. TodoIsTrue'
  <2> SUFFICES ASSUME NEW q \in Process, proc'[q].pc = "apply"
               PROVE  proc'[q].todo = IF proc'[q].down THEN applied' ELSE Known(q) \ applied'
    BY DEF TodoIsTrue, Known
  <2>1. q = p
    BY <1>1, <1>2, TookRecord DEF MigratorInv, Exclusive
  <2> QED
    BY <2>1, <1>1, <1>2, TookRecord DEF MigratorInv
<1> QED
  BY <1>3, <1>4, <1>5, <1>6 DEF MigratorInv

\* applyDown takes back the last version, so no gap opens.
LEMMA ApplyOneDownInv == ASSUME MigratorInv, NEW p \in Process, ApplyOneDown(p) PROVE MigratorInv'
<1> PICK v \in proc[p].todo : IsNext(proc[p], v) /\ v \in Known(p) /\ applied' = applied \ {v} /\ Took(p, v)
  BY DEF ApplyOneDown
<1>1. proc[p].pc = "apply" /\ proc[p].down /\ More(proc[p]) /\ lock' = lock /\ runs' = runs
  BY DEF ApplyOneDown
<1>2. v \in Nat /\ proc[p].todo = applied
  BY <1>1 DEF MigratorInv, TypeOK, TodoIsTrue
<1>3. TypeOK'
  BY <1>1, <1>2, TookRecord DEF MigratorInv, TypeOK
<1>4. AppliedIsPrefix'
  <2> SUFFICES ASSUME NEW u \in applied', NEW w \in 1 .. u PROVE w \in applied'
    BY DEF AppliedIsPrefix
  <2>1. u \in applied /\ u # v /\ w \in applied
    BY DEF MigratorInv, AppliedIsPrefix
  <2>2. v >= u /\ u \in Nat
    BY <2>1, <1>1, <1>2 DEF IsNext, MigratorInv, TypeOK
  <2> QED
    BY <2>1, <2>2, <1>2
<1>5. Exclusive'
  BY <1>1, <1>2, TookRecord DEF MigratorInv, Exclusive
<1>6. TodoIsTrue'
  <2> SUFFICES ASSUME NEW q \in Process, proc'[q].pc = "apply"
               PROVE  proc'[q].todo = IF proc'[q].down THEN applied' ELSE Known(q) \ applied'
    BY DEF TodoIsTrue, Known
  <2>1. q = p
    BY <1>1, <1>2, TookRecord DEF MigratorInv, Exclusive
  <2> QED
    BY <2>1, <1>1, <1>2, TookRecord DEF MigratorInv
<1> QED
  BY <1>3, <1>4, <1>5, <1>6 DEF MigratorInv

\* The steps that end a run change no migration.
LEMMA EndInv ==
  ASSUME MigratorInv, NEW p \in Process, Done(p) \/ Fail(p) \/ Exit(p)
  PROVE  MigratorInv'
<1>1. PICK r \in [pc : {"idle", "done"}, down : BOOLEAN, left : Nat, limited : BOOLEAN, todo : SUBSET Nat] :
        proc' = [proc EXCEPT ![p] = r]
  <2>1. CASE Done(p)
    <3> DEFINE r == [Idle EXCEPT !.pc = "done", !.down = proc[p].down, !.limited = proc[p].limited]
    <3>1. r \in [pc : {"idle", "done"}, down : BOOLEAN, left : Nat, limited : BOOLEAN, todo : SUBSET Nat]
      BY DEF MigratorInv, TypeOK
    <3> QED
      BY <2>1, <3>1 DEF Done
  <2>2. CASE Fail(p) \/ Exit(p)
    <3>1. Idle \in [pc : {"idle", "done"}, down : BOOLEAN, left : Nat, limited : BOOLEAN, todo : SUBSET Nat]
      OBVIOUS
    <3> HIDE DEF Idle
    <3> QED
      BY <2>2, <3>1 DEF Fail, Exit
  <2> QED
    BY <2>1, <2>2
<1>2. applied' = applied /\ runs' = runs /\ lock' = lock \ {p}
  BY DEF MigratorInv, Exclusive, Done, Fail, Exit
<1>3. TypeOK'
  BY <1>1, <1>2 DEF MigratorInv, TypeOK
<1>4. Exclusive'
  BY <1>1, <1>2 DEF MigratorInv, TypeOK, Exclusive
<1>5. TodoIsTrue'
  BY <1>1, <1>2 DEF MigratorInv, TypeOK, TodoIsTrue, Known
<1> QED
  BY <1>2, <1>3, <1>4, <1>5 DEF MigratorInv, AppliedIsPrefix

\* The invariant is inductive: every step of every process keeps it.
LEMMA NextInv == MigratorInv /\ [Next]_vars => MigratorInv'
<1> SUFFICES ASSUME MigratorInv, [Next]_vars PROVE MigratorInv'
  OBVIOUS
<1>1. CASE UNCHANGED vars
  BY <1>1 DEF MigratorInv, TypeOK, AppliedIsPrefix, Exclusive, TodoIsTrue, vars, Known
<1>2. CASE Next
  <2> PICK p \in Process : (\E down \in BOOLEAN, steps \in 0 .. MaxSteps : Begin(p, down, steps)) \/ Step(p) \/ Exit(p)
    BY <1>2 DEF Next
  <2> QED
    BY BeginInv, LockInv, LoadInv, ApplyOneUpInv, ApplyOneDownInv, EndInv DEF Step
<1> QED
  BY <1>1, <1>2

\* The inductive invariant of migrate holds for every set of processes and
\* every release.
THEOREM MigratorInvariant == Spec => []MigratorInv
BY InitInv, NextInv, PTL DEF Spec

\* The applied migrations never have a gap (applyUp and applyDown under the
\* advisory lock).
THEOREM MigrationsHaveNoGap == Spec => []AppliedIsPrefix
<1>1. MigratorInv => AppliedIsPrefix
  BY DEF MigratorInv
<1> QED
  BY <1>1, MigratorInvariant, PTL

\* A successful MigrateUp without a limit leaves its whole release applied.
THEOREM UpBringsUpToDate == Spec => UpToDate
<1> DEFINE A == \A p \in Process :
       proc[p].pc = "apply" /\ proc'[p].pc = "done" /\ ~proc[p].down /\ ~proc[p].limited =>
         Known(p) \subseteq applied'
<1>1. MigratorInv /\ [Next]_vars => [A]_vars
  <2> SUFFICES ASSUME MigratorInv, Next, NEW p \in Process,
                      proc[p].pc = "apply", proc'[p].pc = "done", ~proc[p].down, ~proc[p].limited
               PROVE  Known(p) \subseteq applied'
    BY DEF vars
  <2> PICK q \in Process : (\E down \in BOOLEAN, steps \in 0 .. MaxSteps : Begin(q, down, steps)) \/ Step(q) \/ Exit(q)
    BY DEF Next
  <2>1. Done(p)
    <3>1. ~(\E down \in BOOLEAN, steps \in 0 .. MaxSteps : Begin(q, down, steps))
      BY DEF MigratorInv, TypeOK, Begin
    <3>2. ~Lock(q) /\ ~Load(q)
      BY DEF MigratorInv, TypeOK, Lock, Load
    <3>3. ~ApplyOneUp(q) /\ ~ApplyOneDown(q)
      <4>1. ASSUME NEW v, Took(q, v) PROVE proc'[p].pc = proc[p].pc
        BY <4>1 DEF MigratorInv, TypeOK, Took
      <4> QED
        BY <4>1 DEF ApplyOneUp, ApplyOneDown
    <3>4. ~Fail(q) /\ ~Exit(q)
      BY DEF MigratorInv, TypeOK, Fail, Exit
    <3>5. Done(q) => p = q
      BY DEF MigratorInv, TypeOK, Done
    <3> QED
      BY <3>1, <3>2, <3>3, <3>4, <3>5 DEF Step
  <2>2. proc[p].todo = {} /\ applied' = applied
    BY <2>1 DEF Done, More, MigratorInv, TypeOK
  <2> QED
    BY <2>2 DEF MigratorInv, TodoIsTrue
<1> QED
  BY <1>1, MigratorInvariant, PTL DEF Spec, UpToDate

=============================================================================
