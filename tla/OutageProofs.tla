----------------------------- MODULE OutageProofs -----------------------------
(***************************************************************************)
(* What PartitionDelivery promises when the coordinator drops dead members  *)
(* only: a source is blocked for a cause, and a skipped record is not sent  *)
(* again.  Crashes, restarts, rebalances, closed gates, late commits and    *)
(* lost history are all allowed, at any time.                               *)
(***************************************************************************)
EXTENDS PartitionDeliveryProofs

\* No live member is ever evicted.
NoEvictions == \A b \in Budgets : b["evict"] = 0

-------------------------------------------------------------------------------
(* The inductive invariant *)

\* Every worker belongs to the owner of the partition.
WorkersOwn ==
    /\ budget["evict"] = 0
    /\ \A c \in Clients :
         /\ consumer[c] = "down" => pc[c] = "none"
         /\ pc[c] # "none" => owner = c

\* Offsets that are read, requested or committed lie within the log.
WithinLog ==
    /\ first <= end
    /\ committed <= end \/ torn
    /\ \A c \in Clients :
         /\ low[c] <= first
         /\ late[c] <= end \/ torn
         /\ nxt[c] <= top[c]
         /\ top[c] <= end \/ torn
         /\ pc[c] \in Processing => nxt[c] < top[c]

\* A worker that has listed the offsets knows every skip but its own as
\* history, and puts no skipped record on the wire.
SkipsKnown ==
    /\ \A o \in skips : o < end \/ torn
    /\ \A c \in Clients :
         /\ pc[c] \in {"decide", "baseline", "mark", "idle", "resume"} \cup Processing =>
              \A o \in skips :
                 \/ o < horizon[c] \/ o < nxt[c] \/ torn
                 \/ o = nxt[c] /\ pc[c] \in {"audit", "commit", "committing"}
         /\ pc[c] \in {"send", "wait"} => nxt[c] \notin skips \/ torn

\* What an attempt of initialize has read is still so, and a baseline is on its
\* way only to a partition that has not been started.
ReadsHold ==
    \A c \in Clients :
        /\ seen[c] # None /\ pc[c] \in {"list", "decide"} => committed = seen[c]
        /\ pc[c] = "decide" => seen[c] <= horizon[c] \/ torn
        /\ pc[c] \in {"list", "decide"} /\ seen[c] = None => committed = None \/ ~started
        /\ pc[c] = "baseline" => ~started
        /\ late[c] # None /\ committed = None => ~started

SkipInv == WorkersOwn /\ WithinLog /\ SkipsKnown

\* As long as no record has been deleted from the start.
CauseInv == first = 0 => IndInv /\ ReadsHold /\ BlockedForCause

-------------------------------------------------------------------------------
(* Skips *)

\* Every step keeps what a worker knows of the log and of the skips.
LEMMA SkipInvStep ==
    ASSUME TypeOK, TypeOK', SkipInv, [Next]_vars
    PROVE  SkipInv'
<1> USE ClientsAssumption
    DEF TypeOK, KafkaTypes, StoreTypes, ConsumerTypes, PositionTypes, HistoryTypes, None, PCs,
        Initializing, Processing, Committing, FaultKinds, kafkaVars, storeVars, controlVars,
        workerVars, clientVars, historyVars, SkipInv, WorkersOwn, WithinLog, SkipsKnown
<1>1. CASE UNCHANGED vars
  BY <1>1 DEF vars
<1>2. ASSUME NEW c \in Clients, WorkerStep(c) PROVE SkipInv'
  <2>1. CASE FetchOffsets(c)
    BY <2>1 DEF FetchOffsets, Goto
  <2>2. CASE ListOffsets(c)
    BY <2>2 DEF ListOffsets, Goto
  <2>3. CASE PartitionStarted(c)
    BY <2>3 DEF PartitionStarted, Goto, HistoryMissing
  <2>4. CASE MarkPartitionStarted(c)
    BY <2>4 DEF MarkPartitionStarted, Goto
  <2>5. CASE InitializeFails(c)
    BY <2>5 DEF InitializeFails, Goto
  <2>6. CASE Process(c)
    BY <2>6 DEF Process, Decodes, Goto, Fail, Cancel, HasRecord
  <2>7. CASE Skipped(c)
    BY <2>7 DEF Skipped, MatchesFilter, Goto, HasSkip
  <2>8. CASE Send(c)
    BY <2>8 DEF Send, Goto
  <2>9. CASE Reply(c)
    BY <2>9 DEF Reply, AfterReply, Acknowledgements, Goto
  <2>10. CASE SaveSkip(c)
    BY <2>10 DEF SaveSkip, Goto
  <2>11. CASE Commit(c)
    BY <2>11 DEF Commit, Goto
  <2>12. CASE CommitOk(c)
    BY <2>12 DEF CommitOk, Goto, Accept, Target
  <2>13. CASE CommitFails(c)
    BY <2>13 DEF CommitFails, Goto, Accept, Target
  <2>14. CASE Abort(c)
    BY <2>14 DEF Abort, Goto
  <2>15. CASE ResumeFetch(c)
    BY <2>15 DEF ResumeFetch, Goto
  <2>16. QED
    BY <1>2, <2>1, <2>2, <2>3, <2>4, <2>5, <2>6, <2>7, <2>8, <2>9, <2>10, <2>11, <2>12,
        <2>13, <2>14, <2>15 DEF WorkerStep
<1>3. ASSUME NEW c \in Clients, ConsumerStep(c) PROVE SkipInv'
  <2>1. CASE Join(c)
    BY <2>1 DEF Join
  <2>2. CASE OnAssigned(c)
    BY <2>2 DEF OnAssigned, Goto
  <2>3. CASE OnRevoked(c)
    BY <2>3 DEF OnRevoked, BeginStop, Spend
  <2>4. CASE OnLost(c)
    BY <2>4 DEF OnLost, BeginStop
  <2>5. CASE RunReturns(c)
    BY <2>5 DEF RunReturns, BeginStop
  <2>6. CASE Disown(c)
    BY <2>6 DEF Disown
  <2>7. CASE EndStop(c)
    BY <2>7 DEF EndStop, ClearWorker, Release, Goto
  <2>8. CASE ResolvePosition(c)
    BY <2>8 DEF ResolvePosition, Position
  <2>9. CASE PollRecords(c)
    BY <2>9 DEF PollRecords, Fetchable, HistoryLost
  <2>10. CASE PollFails(c)
    BY <2>10 DEF PollFails, Cancel, HistoryLost, Fetchable
  <2>11. QED
    BY <1>3, <2>1, <2>2, <2>3, <2>4, <2>5, <2>6, <2>7, <2>8, <2>9, <2>10 DEF ConsumerStep
<1>4. ASSUME NEW c \in Clients, EnvironmentStep(c) PROVE SkipInv'
  <2>1. CASE LateCommit(c)
    BY <2>1 DEF LateCommit, Accept
  <2>2. CASE EvictLive(c)
    BY <2>2 DEF EvictLive, Drop, Release, Spend
  <2>3. CASE EvictDead(c)
    BY <2>3 DEF EvictDead, Drop, Release
  <2>4. CASE Crash(c)
    BY <2>4 DEF Crash, ClearWorker, Goto, Spend, Target
  <2>5. CASE Stop(c)
    BY <2>5 DEF Stop, Cancel, Spend
  <2>6. CASE GateDown(c)
    BY <2>6 DEF GateDown, Spend
  <2>7. CASE GateUp(c)
    BY <2>7 DEF GateUp
  <2>8. CASE LearnBlock(c)
    BY <2>8 DEF LearnBlock
  <2>9. QED
    BY <1>4, <2>1, <2>2, <2>3, <2>4, <2>5, <2>6, <2>7, <2>8 DEF EnvironmentStep
<1>5. CASE Append
  BY <1>5 DEF Append
<1>6. CASE Truncate
  BY <1>6 DEF Truncate, Spend
<1>7. CASE TailLost
  BY <1>7 DEF TailLost, Spend
<1>8. CASE OffsetsLost
  BY <1>8 DEF OffsetsLost, Spend
<1>9. QED
  BY <1>1, <1>2, <1>3, <1>4, <1>5, <1>6, <1>7, <1>8 DEF Next

\* SkipInv holds of every reachable state.
LEMMA SkipInvariant ==
    ASSUME NoEvictions PROVE Spec => [](TypeOK /\ SkipInv)
<1>1. Init => SkipInv
  BY BudgetAssumption DEF NoEvictions, Init, None, Processing, SkipInv, WorkersOwn, WithinLog, SkipsKnown
<1>2. TypeOK /\ TypeOK' /\ SkipInv /\ [Next]_vars => SkipInv'
  BY SkipInvStep
<1>3. QED
  BY <1>1, <1>2, TypeCorrect, PTL DEF Spec

\* A record whose skip is stored is never put on the wire again, whichever
\* process delivers, when no live member is evicted.
THEOREM SkippedStaysSkipped ==
    ASSUME NoEvictions PROVE Spec => SkippedNotResent
<1> DEFINE NotResent == \A c \in Clients :
              pc[c] = "send" /\ pc'[c] = "wait" => nxt[c] \notin skips \/ torn
<1>1. ASSUME SkipInv, [Next]_vars PROVE NotResent
  BY <1>1 DEF SkipInv, SkipsKnown
<1>2. QED
  BY <1>1, SkipInvariant, PTL DEF Spec, SkippedNotResent

-------------------------------------------------------------------------------
(* Causes *)

\* A step that leaves the start of the log alone keeps what initialize has read,
\* and the cause of every block.
LEMMA ReadsStep ==
    ASSUME TypeOK, TypeOK', SkipInv, SkipInv', IndInv, ReadsHold, BlockedForCause,
           [Next]_vars, first = 0, first' = 0
    PROVE  ReadsHold' /\ BlockedForCause'
<1> USE ClientsAssumption, OffsetsAssumption
    DEF TypeOK, KafkaTypes, StoreTypes, ControlTypes, ConsumerTypes, PositionTypes,
        HistoryTypes, None, PCs, Initializing, Processing, Committing, kafkaVars, storeVars,
        controlVars, workerVars, clientVars, historyVars, SkipInv, WorkersOwn, WithinLog,
        IndInv, Membership, Baseline, Positions, ReadsHold, BlockedForCause
<1>1. CASE UNCHANGED vars
  BY <1>1 DEF vars
<1>2. ASSUME NEW c \in Clients, WorkerStep(c) PROVE (ReadsHold /\ BlockedForCause)'
  <2>1. CASE FetchOffsets(c)
    BY <2>1 DEF FetchOffsets, Goto
  <2>2. CASE ListOffsets(c)
    BY <2>2 DEF ListOffsets, Goto
  <2>3. CASE PartitionStarted(c)
    BY <2>3 DEF PartitionStarted, Goto, HistoryMissing
  <2>4. CASE MarkPartitionStarted(c)
    BY <2>4 DEF MarkPartitionStarted, Goto
  <2>5. CASE InitializeFails(c)
    BY <2>5 DEF InitializeFails, Goto
  <2>6. CASE Process(c)
    BY <2>6 DEF Process, Decodes, Goto, Fail, Cancel, HasRecord
  <2>7. CASE Skipped(c)
    BY <2>7 DEF Skipped, MatchesFilter, Goto, HasSkip
  <2>8. CASE Send(c)
    BY <2>8 DEF Send, Goto
  <2>9. CASE Reply(c)
    BY <2>9 DEF Reply, AfterReply, Acknowledgements, Goto
  <2>10. CASE SaveSkip(c)
    BY <2>10 DEF SaveSkip, Goto
  <2>11. CASE Commit(c)
    BY <2>11 DEF Commit, Goto
  <2>12. CASE CommitOk(c)
    BY <2>12 DEF CommitOk, Goto, Accept, Target
  <2>13. CASE CommitFails(c)
    BY <2>13 DEF CommitFails, Goto, Accept, Target
  <2>14. CASE Abort(c)
    BY <2>14 DEF Abort, Goto
  <2>15. CASE ResumeFetch(c)
    BY <2>15 DEF ResumeFetch, Goto
  <2>16. QED
    BY <1>2, <2>1, <2>2, <2>3, <2>4, <2>5, <2>6, <2>7, <2>8, <2>9, <2>10, <2>11, <2>12,
        <2>13, <2>14, <2>15 DEF WorkerStep
<1>3. ASSUME NEW c \in Clients, ConsumerStep(c) PROVE (ReadsHold /\ BlockedForCause)'
  <2>1. CASE Join(c)
    BY <2>1 DEF Join
  <2>2. CASE OnAssigned(c)
    BY <2>2 DEF OnAssigned, Goto
  <2>3. CASE OnRevoked(c)
    BY <2>3 DEF OnRevoked, BeginStop, Spend
  <2>4. CASE OnLost(c)
    BY <2>4 DEF OnLost, BeginStop
  <2>5. CASE RunReturns(c)
    BY <2>5 DEF RunReturns, BeginStop
  <2>6. CASE Disown(c)
    BY <2>6 DEF Disown
  <2>7. CASE EndStop(c)
    BY <2>7 DEF EndStop, ClearWorker, Release, Goto
  <2>8. CASE ResolvePosition(c)
    BY <2>8 DEF ResolvePosition, Position
  <2>9. CASE PollRecords(c)
    BY <2>9 DEF PollRecords, Fetchable, HistoryLost
  <2>10. CASE PollFails(c)
    BY <2>10 DEF PollFails, Cancel, HistoryLost, Fetchable
  <2>11. QED
    BY <1>3, <2>1, <2>2, <2>3, <2>4, <2>5, <2>6, <2>7, <2>8, <2>9, <2>10 DEF ConsumerStep
<1>4. ASSUME NEW c \in Clients, EnvironmentStep(c) PROVE (ReadsHold /\ BlockedForCause)'
  <2>1. CASE LateCommit(c)
    BY <2>1 DEF LateCommit, Accept
  <2>2. CASE EvictLive(c)
    BY <2>2 DEF EvictLive, Drop, Release, Spend
  <2>3. CASE EvictDead(c)
    BY <2>3 DEF EvictDead, Drop, Release
  <2>4. CASE Crash(c)
    BY <2>4 DEF Crash, ClearWorker, Goto, Spend, Target
  <2>5. CASE Stop(c)
    BY <2>5 DEF Stop, Cancel, Spend
  <2>6. CASE GateDown(c)
    BY <2>6 DEF GateDown, Spend
  <2>7. CASE GateUp(c)
    BY <2>7 DEF GateUp
  <2>8. CASE LearnBlock(c)
    BY <2>8 DEF LearnBlock
  <2>9. QED
    BY <1>4, <2>1, <2>2, <2>3, <2>4, <2>5, <2>6, <2>7, <2>8 DEF EnvironmentStep
<1>5. CASE Append
  BY <1>5 DEF Append
<1>6. CASE Truncate
  BY <1>6 DEF Truncate, Spend
<1>7. CASE TailLost
  BY <1>7 DEF TailLost, Spend
<1>8. CASE OffsetsLost
  BY <1>8 DEF OffsetsLost, Spend
<1>9. QED
  BY <1>1, <1>2, <1>3, <1>4, <1>5, <1>6, <1>7, <1>8 DEF Next

\* The log only ever loses records from its start.
LEMMA FirstNeverFalls ==
    ASSUME TypeOK, [Next]_vars PROVE first' >= first
<1> USE DEF TypeOK, KafkaTypes, vars, kafkaVars, storeVars, controlVars, workerVars, clientVars, historyVars
<1>1. ASSUME NEW c \in Clients, WorkerStep(c) PROVE first' = first
  BY <1>1 DEF WorkerStep, FetchOffsets, ListOffsets, PartitionStarted, MarkPartitionStarted,
      InitializeFails, Process, Decodes, Skipped, MatchesFilter, Send, Reply, AfterReply,
      Acknowledgements, SaveSkip, Commit, CommitOk, CommitFails, ResumeFetch, Abort
<1>2. ASSUME NEW c \in Clients, ConsumerStep(c) PROVE first' = first
  BY <1>2 DEF ConsumerStep, Join, OnAssigned, OnRevoked, OnLost, RunReturns, Disown,
      EndStop, ResolvePosition, PollRecords, PollFails, BeginStop
<1>3. ASSUME NEW c \in Clients, EnvironmentStep(c) PROVE first' = first
  BY <1>3 DEF EnvironmentStep, LateCommit, EvictLive, EvictDead, Crash, Stop, GateDown,
      GateUp, LearnBlock, Drop
<1>4. CASE Append \/ Truncate \/ TailLost \/ OffsetsLost
  BY <1>4 DEF Append, Truncate, TailLost, OffsetsLost
<1>5. QED
  BY <1>1, <1>2, <1>3, <1>4 DEF Next

\* A source is blocked only when history is gone or a record cannot be decoded,
\* when no live member is evicted.
THEOREM BlockedOnlyForCause ==
    ASSUME NoEvictions PROVE Spec => []BlockedForCause
<1>1. Init => CauseInv
  BY ClientsAssumption, OffsetsAssumption
  DEF Init, None, Processing, Committing, Initializing, CauseInv, ReadsHold, BlockedForCause,
      IndInv, Membership, Frontier, Workers, Baseline, Positions, Started, Bounds, Finished,
      Settled
<1>2. ASSUME TypeOK, TypeOK', SkipInv, SkipInv', CauseInv, [Next]_vars PROVE CauseInv'
  <2>1. SUFFICES ASSUME first' = 0 PROVE (IndInv /\ ReadsHold /\ BlockedForCause)'
    BY DEF CauseInv
  <2>2. first = 0
    BY <1>2, <2>1, FirstNeverFalls DEF TypeOK, KafkaTypes
  <2>3. IndInv /\ ReadsHold /\ BlockedForCause
    BY <1>2, <2>2 DEF CauseInv
  <2>4. IndInv'
    BY <1>2, <2>1, <2>2, <2>3, IndInvStep
  <2>5. QED
    BY <1>2, <2>1, <2>2, <2>3, <2>4, ReadsStep
<1>3. CauseInv => BlockedForCause \/ first # 0
  BY DEF CauseInv
<1>4. TypeOK /\ CauseInv => BlockedForCause
  BY <1>3 DEF TypeOK, KafkaTypes, BlockedForCause
<1>5. QED
  BY <1>1, <1>2, <1>4, SkipInvariant, PTL DEF Spec
==============================================================================
