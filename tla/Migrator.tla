------------------------------ MODULE Migrator ------------------------------
(***************************************************************************)
(* Schema migrations (internal/storage/postgres/migrator.go), run by the   *)
(* replicas of the service when they start (EnsureSchema) and by           *)
(* cmd/migrate, with binaries of different releases against one database.  *)
(* migrate takes an advisory lock that belongs to its connection, reads    *)
(* the applied versions once, and applies or rolls back one migration per  *)
(* transaction.                                                            *)
(***************************************************************************)
EXTENDS Integers, FiniteSets

CONSTANTS
  Process,   \* processes that migrate
  Release,   \* the number of migrations a process's binary knows
  MaxSteps,  \* largest number of steps asked for
  MaxRuns    \* bound on runs of migrate

ASSUME MigratorAssumption ==
  /\ Release \in [Process -> Nat \ {0}]
  /\ MaxSteps \in Nat /\ MaxRuns \in Nat

VARIABLES
  applied,  \* schema_migrations
  lock,     \* the holder of the advisory lock, or {}
  proc,     \* what each process does
  runs      \* runs so far

vars == <<applied, lock, proc, runs>>

\* Migration files are numbered without gaps and only ever added.
Known(p) == 1 .. Release[p]

\* todo: the versions still to apply or to roll back; left: steps left, 0 when
\* there is no limit.
Idle == [pc |-> "idle", down |-> FALSE, left |-> 0, limited |-> FALSE, todo |-> {}]

Run == [pc : {"idle", "lock", "load", "apply", "done"}, down : BOOLEAN,
        left : Nat, limited : BOOLEAN, todo : SUBSET Nat]

TypeOK ==
  /\ applied \subseteq Nat
  /\ lock \subseteq Process
  /\ runs \in 0 .. MaxRuns
  /\ proc \in [Process -> Run]

Init ==
  /\ applied = {} /\ lock = {} /\ runs = 0
  /\ proc = [p \in Process |-> Idle]

-----------------------------------------------------------------------------

\* MigrateUp and MigrateDown; down rolls back one step if it is told none.
Begin(p, down, steps) ==
  /\ proc[p] = Idle /\ runs < MaxRuns
  /\ runs' = runs + 1
  /\ LET n == IF down /\ steps = 0 THEN 1 ELSE steps
     IN  proc' = [proc EXCEPT ![p] =
                    [pc |-> "lock", down |-> down, left |-> n, limited |-> n > 0, todo |-> {}]]
  /\ UNCHANGED <<applied, lock>>

\* Variant: the lock is not waited for.
LockFreeAlways == TRUE

LockFree == lock = {}

\* pg_advisory_lock.
Lock(p) ==
  /\ proc[p].pc = "lock" /\ LockFree
  /\ lock' = lock \cup {p}
  /\ proc' = [proc EXCEPT ![p].pc = "load"]
  /\ UNCHANGED <<applied, runs>>

\* loadAppliedVersions and loadAppliedVersionsDesc.
Load(p) ==
  /\ proc[p].pc = "load"
  /\ LET found == IF proc[p].down THEN applied ELSE Known(p) \ applied
     IN  proc' = [proc EXCEPT ![p] = [@ EXCEPT !.pc = "apply", !.todo = found]]
  /\ UNCHANGED <<applied, lock, runs>>

\* Variant: the oldest migration is rolled back first.
IsNextOldest(m, v) == \A w \in m.todo : v <= w

\* Up goes from the oldest version, down from the newest.
IsNext(m, v) == \A w \in m.todo : IF m.down THEN v >= w ELSE v <= w

\* There is a version to take and the steps are not used up.
More(m) == m.todo # {} /\ (m.limited => m.left > 0)

Took(p, v) ==
  proc' = [proc EXCEPT ![p].todo = @ \ {v}, ![p].left = IF proc[p].limited THEN @ - 1 ELSE @]

\* applyOneUp: the schema and its record in one transaction.
ApplyOneUp(p) ==
  /\ proc[p].pc = "apply" /\ ~proc[p].down /\ More(proc[p])
  /\ \E v \in proc[p].todo :
       IsNext(proc[p], v) /\ v \notin applied /\ applied' = applied \cup {v} /\ Took(p, v)
  /\ UNCHANGED <<lock, runs>>

\* applyOneDown, of a migration this binary knows.
ApplyOneDown(p) ==
  /\ proc[p].pc = "apply" /\ proc[p].down /\ More(proc[p])
  /\ \E v \in proc[p].todo :
       IsNext(proc[p], v) /\ v \in Known(p) /\ applied' = applied \ {v} /\ Took(p, v)
  /\ UNCHANGED <<lock, runs>>

\* migrate returns nil and the lock is released.
Done(p) ==
  /\ proc[p].pc = "apply" /\ ~More(proc[p])
  /\ lock' = lock \ {p}
  /\ proc' = [proc EXCEPT ![p] = [Idle EXCEPT !.pc = "done", !.down = proc[p].down, !.limited = proc[p].limited]]
  /\ UNCHANGED <<applied, runs>>

\* Variant: only an orderly end releases the lock.
FailKeepsLock(p) ==
  /\ proc[p].pc \in {"lock", "load", "apply"}
  /\ proc' = [proc EXCEPT ![p] = Idle]
  /\ UNCHANGED <<applied, lock, runs>>

\* The lock is not given within its five seconds, a statement fails and its
\* transaction is rolled back, the version is unknown, or the process dies:
\* the lock goes with the call or with the connection.  A commit whose answer
\* is lost has been made, by the step before.
Fail(p) ==
  /\ proc[p].pc \in {"lock", "load", "apply"}
  /\ lock' = lock \ {p}
  /\ proc' = [proc EXCEPT ![p] = Idle]
  /\ UNCHANGED <<applied, runs>>

\* The process ends and may be run again.
Exit(p) ==
  /\ proc[p].pc = "done"
  /\ proc' = [proc EXCEPT ![p] = Idle]
  /\ UNCHANGED <<applied, lock, runs>>

Step(p) == Lock(p) \/ Load(p) \/ ApplyOneUp(p) \/ ApplyOneDown(p) \/ Done(p) \/ Fail(p)

Next ==
  \E p \in Process :
    \/ \E down \in BOOLEAN, steps \in 0 .. MaxSteps : Begin(p, down, steps)
    \/ Step(p) \/ Exit(p)

Spec == Init /\ [][Next]_vars

\* A run goes on, fails, or has its context expire.
FairSpec == Spec /\ \A p \in Process : WF_vars(Step(p))

-----------------------------------------------------------------------------
(* Properties.                                                             *)

\* The applied migrations have no gap, whatever runs of whatever releases
\* interleave, fail or die: a migration is never applied before an older one
\* and never rolled back before a newer one.
AppliedIsPrefix == \A v \in applied : \A w \in 1 .. v : w \in applied

\* An unlimited up that succeeds leaves every migration of its release applied.
UpToDate ==
  [][\A p \in Process :
       proc[p].pc = "apply" /\ proc'[p].pc = "done" /\ ~proc[p].down /\ ~proc[p].limited =>
         Known(p) \subseteq applied']_vars

\* Nobody keeps the lock for ever.
LockIsFreed == []<>(lock = {})

-----------------------------------------------------------------------------
(* The inductive invariant of the proofs.                                  *)

\* Only the holder of the lock is past it.
Exclusive ==
  \A p, q \in Process :
    /\ proc[p].pc \in {"load", "apply"} <=> p \in lock
    /\ p \in lock /\ q \in lock => p = q

\* What a run is still to do was read from schema_migrations, and is true.
TodoIsTrue ==
  \A p \in Process :
    proc[p].pc = "apply" =>
      proc[p].todo = IF proc[p].down THEN applied ELSE Known(p) \ applied

MigratorInv == TypeOK /\ AppliedIsPrefix /\ Exclusive /\ TodoIsTrue

=============================================================================
