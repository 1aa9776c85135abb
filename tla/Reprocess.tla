----------------------------- MODULE Reprocess ------------------------------
(***************************************************************************)
(* The dead letter reprocessor (cmd/dlq-reprocess/main.go) together with   *)
(* the consumer whose dead letters it puts back into the topic.  A run     *)
(* reads the partitions of the dead letter topic in order, from the oldest *)
(* entry or from the newest ones, up to cfg.limit entries; it remembers    *)
(* nothing from one run to the next.  Meanwhile the consumer works on the  *)
(* replayed messages and may write new dead letters.                       *)
(***************************************************************************)
EXTENDS Consumer

CONSTANTS
  limit,   \* cfg.limit
  MaxRuns  \* bound: runs of the tool

ASSUME ReprocessAssumption ==
  limit \in Nat \ {0} /\ MaxRuns \in Nat /\ Partition \subseteq Nat /\ IsFiniteSet(Partition)

VARIABLES
  replay,  \* the running tool
  runs     \* runs so far

vars == <<consumerVars, replay, runs>>

\* todo: partitions left; processed, stats: entries processed in the partitions
\* before and in this one; next, end: offsets in this partition; sent: entries
\* replayed; snapshot: the end of each partition the run reached (auxiliary);
\* early: the idle timer ended a partition before its end (auxiliary).
Replay ==
  [pc : {"idle", "partition", "read", "finished"}, todo : SUBSET Partition, partition : Nat,
   processed : Nat, stats : Nat, next : Nat, end : Nat,
   fromNewest : BOOLEAN, execute : BOOLEAN,
   sent : SUBSET (Partition \X Nat), snapshot : [Partition -> Nat], early : BOOLEAN]

TypeOK == ConsumerTypeOK /\ replay \in Replay /\ runs \in Nat

NoReplay ==
  [pc |-> "idle", todo |-> {}, partition |-> 0, processed |-> 0, stats |-> 0, next |-> 0, end |-> 0,
   fromNewest |-> FALSE, execute |-> FALSE,
   sent |-> {}, snapshot |-> [p \in Partition |-> 0], early |-> FALSE]

Init == ConsumerInit /\ replay = NoReplay /\ runs = 0

-----------------------------------------------------------------------------

\* Variant: every partition gets the whole limit.
RemainingAll == limit

\* remaining := cfg.limit - processed.
Remaining == limit - replay.processed

\* startOffset, as the number of entries before it.
StartOffset(newest) ==
  IF replay.fromNewest /\ newest > Remaining THEN newest - Remaining ELSE 0

\* The run is through with its partition.
NextPartition(r) ==
  [r EXCEPT !.pc = "partition", !.todo = @ \ {r.partition},
            !.processed = @ + r.stats, !.stats = 0, !.next = 0, !.end = 0, !.partition = 0]

StartReplay ==
  /\ replay.pc = "idle" /\ runs < MaxRuns
  /\ runs' = runs + 1
  /\ \E fromNewest, execute \in BOOLEAN :
       replay' = [NoReplay EXCEPT !.pc = "partition", !.todo = Partition,
                                  !.fromNewest = fromNewest, !.execute = execute]
  /\ UNCHANGED consumerVars

\* The head of processPartition: the offsets of the next partition.
OpenPartition ==
  /\ replay.pc = "partition" /\ replay.todo # {} /\ replay.processed < limit
  /\ LET p == CHOOSE q \in replay.todo : \A o \in replay.todo : q <= o
         newest == Len(dlq[p])
     IN  replay' = IF newest = 0 THEN [replay EXCEPT !.todo = @ \ {p}]
                   ELSE [replay EXCEPT !.pc = "read", !.partition = p,
                                       !.next = StartOffset(newest) + 1, !.end = newest,
                                       !.snapshot[p] = newest]
  /\ UNCHANGED <<consumerVars, runs>>

Entry == dlq[replay.partition][replay.next]

Reading == replay.pc = "read" /\ replay.stats < Remaining

\* extractReplayMessage knows both kinds of dead letters, unless the original
\* value is empty.
Supported(entry) == entry.kind # "empty"

Counted == [replay EXCEPT !.stats = @ + 1, !.next = @ + 1]

\* An entry that cannot be replayed counts as processed; the loop then reads
\* on even at the end of the partition.
SkipEntry ==
  /\ Reading /\ replay.next <= replay.end /\ ~Supported(Entry)
  /\ replay' = Counted
  /\ UNCHANGED <<consumerVars, runs>>

\* Variant: the last entry of the partition is taken for its end.
LastEntryEarly == replay.next + 1 >= replay.end

\* msg.Offset+1 >= endOffset.
LastEntry == replay.next >= replay.end

\* The replayed message has no headers: its retry count is 0 again.
ReplayEntry ==
  /\ Reading /\ replay.next <= replay.end /\ Supported(Entry)
  /\ IF replay.execute
     THEN Publish(Entry.event, 0) /\ UNCHANGED <<group, consumer, dlq, outcome, stops>>
     ELSE UNCHANGED consumerVars
  /\ LET r == [Counted EXCEPT !.sent = @ \cup {<<replay.partition, replay.next>>}]
     IN  replay' = IF LastEntry THEN NextPartition(r) ELSE r
  /\ UNCHANGED runs

\* The limit is reached, or the end is: a later message or the idle timer
\* ends the loop.
LeavePartition ==
  /\ replay.pc = "read" /\ (replay.stats >= Remaining \/ replay.next > replay.end)
  /\ replay' = NextPartition(replay)
  /\ UNCHANGED <<consumerVars, runs>>

\* No message comes before the idle timer, or the partition consumer closes:
\* no error for the run.
IdleTimeout ==
  /\ Reading /\ replay.next <= replay.end
  /\ replay' = [NextPartition(replay) EXCEPT !.early = TRUE]
  /\ UNCHANGED <<consumerVars, runs>>

FinishReplay ==
  /\ replay.pc = "partition" /\ (replay.todo = {} \/ replay.processed >= limit)
  /\ replay' = [replay EXCEPT !.pc = "finished"]
  /\ UNCHANGED <<consumerVars, runs>>

\* An offset cannot be read, a message not be published, or the run is
\* canceled: the tool exits.  Or it has finished and exits.
ExitReplay ==
  /\ replay.pc # "idle"
  /\ replay' = NoReplay
  /\ UNCHANGED <<consumerVars, runs>>

ReplayNext ==
  \/ StartReplay \/ OpenPartition \/ SkipEntry \/ ReplayEntry \/ LeavePartition
  \/ IdleTimeout \/ FinishReplay \/ ExitReplay

Next ==
  \/ ConsumerNext /\ UNCHANGED <<replay, runs>>
  \/ ReplayNext

Spec == Init /\ [][Next]_vars

\* The group is served for as long as there are messages: sarama calls
\* ConsumeClaim again after every session, and every handler returns, with success or not.
FairSpec == Spec /\ WF_vars(ConsumerStep /\ UNCHANGED <<replay, runs>>)

-----------------------------------------------------------------------------
(* Properties of the reprocessor.                                          *)

\* A run takes no more than limit entries, over all partitions.
WithinLimit == Cardinality(replay.sent) <= limit

\* A run that came to its end, within its limit and with no partition cut
\* short, has replayed every dead letter it can read of those that were there
\* when it reached their partition.
FinishedIsComplete ==
  replay.pc = "finished" /\ replay.processed < limit /\ ~replay.early =>
    \A p \in Partition : \A i \in 1 .. replay.snapshot[p] :
      Supported(dlq[p][i]) => <<p, i>> \in replay.sent

=============================================================================
