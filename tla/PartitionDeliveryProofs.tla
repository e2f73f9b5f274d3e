----------------------- MODULE PartitionDeliveryProofs -----------------------
(***************************************************************************)
(* Safety of PartitionDelivery for any number of clients, records and       *)
(* faults.                                                                  *)
(***************************************************************************)
EXTENDS PartitionDelivery, TLAPS

-------------------------------------------------------------------------------
(* The inductive invariant *)

Finished(o) == o \in (Settled \cup Excluded) \ Malformed

\* The coordinator's owner is a member, and a member's worker or late commit
\* is the owner's.
Membership ==
    /\ owner # NoOne => owner \in members
    /\ \A c \in members : pc[c] # "none" => owner = c
    /\ \A c \in Clients : late[c] # None => owner = c

\* The frontier covers finished records only, and nothing was sent beyond it.
Frontier ==
    /\ committed <= high
    /\ \A o \in 0 .. high - 1 : Finished(o)
    /\ \A o \in sent : o <= high
    /\ Settled \cap Malformed = {}

\* A record is processed at or below the frontier, and committed when finished.
Workers ==
    \A c \in Clients :
        /\ pc[c] \in Processing => nxt[c] \notin Malformed
        /\ pc[c] \in {"mark", "idle", "resume"} \cup Processing => nxt[c] <= high
        /\ pc[c] \in {"commit", "committing"} => nxt[c] \in Settled \cup Excluded
        /\ pc[c] \in {"wait", "audit"} => nxt[c] \in sent
        /\ pc[c] \in {"none", "fetch", "mark"} => seen[c] = None
        /\ pc[c] = "none" => nxt[c] = None
        /\ pc[c] = "baseline" => low[c] = 0 /\ seen[c] = None
        /\ late[c] > 0 => Finished(late[c] - 1) /\ late[c] - 1 <= high

\* A group without a commit gets a baseline at the very start of the partition
\* or none at all.
Baseline ==
    /\ \A c \in Clients :
        /\ nxt[c] > high => committed = None /\ first > 0
        /\ seen[c] # None => nxt[c] <= high
        /\ late[c] # None /\ committed = None => \A d \in Clients : nxt[d] <= high
    /\ \A c \in Clients : owner = c =>
        /\ pc[c] \in {"mark", "idle", "resume"} \cup Processing => committed # None
        /\ seen[c] # None => committed # None
        /\ committed = None /\ pc[c] \in {"decide", "baseline"} => low[c] = first
        /\ committed = None /\ late[c] # None /\ pc[c] # "none" => first = 0

\* Where the owner stands relative to the committed offset, and which request
\* of its can still arrive.
Positions ==
    \A c \in Clients : owner = c =>
        /\ late[c] # None => late[c] \in {committed, committed + 1}
        /\ pc[c] \in Initializing /\ late[c] # None => late[c] = 0
        /\ pc[c] \in {"idle", "resume"} \cup Processing /\ late[c] # None =>
             late[c] = committed \/ (pc[c] \in {"commit", "committing"} /\ late[c] = nxt[c] + 1)
        /\ pc[c] \in {"list", "decide", "baseline"} /\ seen[c] = None => committed \in {None, 0}
        /\ pc[c] \notin {"none", "done"} /\ nxt[c] # None =>
             \/ nxt[c] = committed
             \/ pc[c] \in {"commit", "committing"} /\ nxt[c] + 1 = committed
             \/ committed = None /\ nxt[c] = first

\* Progress is made in a started partition only.
Started ==
    /\ high > 0 => started
    /\ \A c \in Clients :
        /\ pc[c] \in {"idle", "resume"} \cup Processing => started
        /\ late[c] > 0 => started
        /\ owner = c /\ committed = None /\ (pc[c] = "baseline" \/ late[c] # None) => high = 0

\* No offset goes beyond the log.
Bounds ==
    /\ end <= MaxOffset /\ first <= MaxOffset /\ high <= MaxOffset
    /\ \A c \in Clients :
        /\ top[c] <= MaxOffset /\ late[c] <= MaxOffset
        /\ pc[c] \in Processing => nxt[c] < top[c]

IndInv == Membership /\ Frontier /\ Workers /\ Baseline /\ Positions /\ Started /\ Bounds

-------------------------------------------------------------------------------
(* Types *)

\* The steps with several outcomes, one part of the type invariant at a time.
LEMMA PartitionStartedTypes ==
    ASSUME TypeOK, NEW c \in Clients, PartitionStarted(c) PROVE TypeOK'
<1> USE DEF TypeOK, None, kafkaVars, storeVars, clientVars, historyVars
<1>1. KafkaTypes' /\ StoreTypes'
  BY DEF PartitionStarted, KafkaTypes, StoreTypes
<1>2. ControlTypes'
  BY DEF PartitionStarted, ControlTypes
<1>3. ConsumerTypes'
  BY DEF PartitionStarted, ConsumerTypes, Goto, PCs, Initializing, Processing
<1>4. PositionTypes'
  BY DEF PartitionStarted, PositionTypes, ConsumerTypes, Goto, Processing
<1>5. HistoryTypes'
  BY DEF PartitionStarted, HistoryTypes
<1>6. QED
  BY <1>1, <1>2, <1>3, <1>4, <1>5

LEMMA ProcessTypes ==
    ASSUME TypeOK, NEW c \in Clients, Process(c) PROVE TypeOK'
<1> USE DEF TypeOK, None, kafkaVars, storeVars, historyVars
<1>1. KafkaTypes' /\ StoreTypes'
  BY DEF Process, Decodes, KafkaTypes, StoreTypes
<1>2. ControlTypes'
  BY DEF Process, Decodes, ControlTypes
<1>3. ConsumerTypes'
  BY DEF Process, Decodes, ConsumerTypes, Goto, Fail, Cancel, PCs, Initializing, Processing
<1>4. PositionTypes'
  BY DEF Process, Decodes, HasRecord, PositionTypes, ConsumerTypes, Goto, Fail, Processing
<1>5. HistoryTypes'
  BY DEF Process, Decodes, HistoryTypes
<1>6. QED
  BY <1>1, <1>2, <1>3, <1>4, <1>5

LEMMA ReplyTypes ==
    ASSUME TypeOK, NEW c \in Clients, Reply(c) PROVE TypeOK'
<1> USE DEF TypeOK, None, kafkaVars, storeVars, controlVars, clientVars
<1>1. KafkaTypes' /\ StoreTypes' /\ ControlTypes'
  BY DEF Reply, AfterReply, Acknowledgements, KafkaTypes, StoreTypes, ControlTypes
<1>2. ConsumerTypes'
  BY DEF Reply, AfterReply, Acknowledgements, ConsumerTypes, Goto, PCs, Initializing, Processing
<1>3. PositionTypes'
  BY DEF Reply, AfterReply, Acknowledgements, PositionTypes, ConsumerTypes, Goto, Processing
<1>4. HistoryTypes'
  BY DEF Reply, AfterReply, Acknowledgements, HistoryTypes, PositionTypes, Processing
<1>5. QED
  BY <1>1, <1>2, <1>3, <1>4

\* Every step keeps the types.
LEMMA TypeStep == TypeOK /\ [Next]_vars => TypeOK'
<1> SUFFICES ASSUME TypeOK, [Next]_vars PROVE TypeOK'
  OBVIOUS
<1> USE DEF TypeOK, KafkaTypes, StoreTypes, ControlTypes, ConsumerTypes, PositionTypes,
        HistoryTypes, None, PCs, Initializing, Processing, FaultKinds, kafkaVars, storeVars,
        controlVars, workerVars, clientVars, historyVars
<1>1. CASE UNCHANGED vars
  BY <1>1 DEF vars
<1>2. ASSUME NEW c \in Clients, WorkerStep(c) PROVE TypeOK'
  <2>1. CASE FetchOffsets(c)
    BY <2>1 DEF FetchOffsets, Goto
  <2>2. CASE ListOffsets(c)
    BY <2>2 DEF ListOffsets, Goto
  <2>3. CASE PartitionStarted(c)
    BY <2>3, PartitionStartedTypes
  <2>4. CASE MarkPartitionStarted(c)
    BY <2>4 DEF MarkPartitionStarted, Goto
  <2>5. CASE InitializeFails(c)
    BY <2>5 DEF InitializeFails, Goto
  <2>6. CASE Process(c)
    BY <2>6, ProcessTypes
  <2>7. CASE Skipped(c)
    BY <2>7 DEF Skipped, MatchesFilter, Goto, HasSkip
  <2>8. CASE Send(c)
    BY <2>8 DEF Send, Goto
  <2>9. CASE Reply(c)
    BY <2>9, ReplyTypes
  <2>10. CASE SaveSkip(c)
    BY <2>10 DEF SaveSkip, Goto
  <2>11. CASE Commit(c)
    BY <2>11 DEF Commit, Goto
  <2>12. CASE CommitOk(c)
    BY <2>12 DEF CommitOk, Goto, Accept, Target, Committing
  <2>13. CASE CommitFails(c)
    BY <2>13 DEF CommitFails, Goto, Accept, Target, Committing
  <2>14. CASE Abort(c)
    BY <2>14 DEF Abort, Goto
  <2>15. CASE ResumeFetch(c)
    BY <2>15 DEF ResumeFetch, Goto
  <2>16. QED
    BY <1>2, <2>1, <2>2, <2>3, <2>4, <2>5, <2>6, <2>7, <2>8, <2>9, <2>10, <2>11, <2>12,
        <2>13, <2>14, <2>15 DEF WorkerStep
<1>3. ASSUME NEW c \in Clients, ConsumerStep(c) PROVE TypeOK'
  <2>1. CASE Join(c)
    BY <2>1 DEF Join
  <2>2. CASE OnAssigned(c)
    BY <2>2 DEF OnAssigned, Goto
  <2>3. CASE OnRevoked(c)
    BY <2>3 DEF OnRevoked, BeginStop, Spend
  <2>4. CASE OnLost(c)
    BY <2>4 DEF OnLost, BeginStop
  <2>5. CASE RunReturns(c)
    BY <2>5 DEF RunReturns, BeginStop
  <2>6. CASE Disown(c)
    BY <2>6 DEF Disown
  <2>7. CASE EndStop(c)
    BY <2>7 DEF EndStop, ClearWorker, Release, Goto
  <2>8. CASE ResolvePosition(c)
    BY <2>8 DEF ResolvePosition, Position
  <2>9. CASE PollRecords(c)
    BY <2>9 DEF PollRecords, Fetchable
  <2>10. CASE PollFails(c)
    BY <2>10 DEF PollFails, Cancel
  <2>11. QED
    BY <1>3, <2>1, <2>2, <2>3, <2>4, <2>5, <2>6, <2>7, <2>8, <2>9, <2>10 DEF ConsumerStep
<1>4. ASSUME NEW c \in Clients, EnvironmentStep(c) PROVE TypeOK'
  <2>1. CASE LateCommit(c)
    BY <2>1 DEF LateCommit, Accept
  <2>2. CASE EvictLive(c)
    BY <2>2 DEF EvictLive, Drop, Release, Spend
  <2>3. CASE EvictDead(c)
    BY <2>3 DEF EvictDead, Drop, Release
  <2>4. CASE Crash(c)
    BY <2>4 DEF Crash, ClearWorker, Goto, Spend, Target, Committing
  <2>5. CASE Stop(c)
    BY <2>5 DEF Stop, Cancel, Spend
  <2>6. CASE GateDown(c)
    BY <2>6 DEF GateDown, Spend
  <2>7. CASE GateUp(c)
    BY <2>7 DEF GateUp
  <2>8. CASE LearnBlock(c)
    BY <2>8 DEF LearnBlock
  <2>9. QED
    BY <1>4, <2>1, <2>2, <2>3, <2>4, <2>5, <2>6, <2>7, <2>8 DEF EnvironmentStep
<1>5. CASE Append
  BY <1>5 DEF Append
<1>6. CASE Truncate
  BY <1>6 DEF Truncate, Spend
<1>7. CASE TailLost
  BY <1>7 DEF TailLost, Spend
<1>8. CASE OffsetsLost
  BY <1>8 DEF OffsetsLost, Spend
<1>9. QED
  BY <1>1, <1>2, <1>3, <1>4, <1>5, <1>6, <1>7, <1>8 DEF Next

\* PartitionDelivery is type correct, for any clients, records and faults.
THEOREM TypeCorrect == Spec => []TypeOK
<1>1. Init => TypeOK
  <2> SUFFICES ASSUME Init PROVE TypeOK
    OBVIOUS
  <2>1. KafkaTypes /\ StoreTypes /\ ControlTypes
    BY DEF Init, KafkaTypes, StoreTypes, ControlTypes, None
  <2>2. ConsumerTypes /\ PositionTypes
    BY DEF Init, ConsumerTypes, PositionTypes, None, PCs, Initializing, Processing
  <2>3. HistoryTypes
    BY BudgetAssumption DEF Init, HistoryTypes
  <2>4. QED
    BY <2>1, <2>2, <2>3 DEF TypeOK
<1>2. QED
  BY <1>1, TypeStep, PTL DEF Spec

-------------------------------------------------------------------------------
(* The inductive invariant is preserved *)

\* The steps that store a skip or commit a record, told to the worker or not.
LEMMA SaveSkipFrontier ==
    ASSUME TypeOK, TypeOK', IndInv, NEW c \in Clients, SaveSkip(c) PROVE Frontier'
<1> USE DEF TypeOK, KafkaTypes, PositionTypes, HistoryTypes, IndInv, kafkaVars, historyVars
<1>1. Settled' = Settled \cup {nxt[c]} /\ nxt[c] \notin Malformed
  BY DEF SaveSkip, Settled, Workers, Processing
<1>2. (Settled \cap Malformed = {})'
  BY <1>1 DEF Frontier
<1>3. \A o : Finished(o) => Finished(o)'
  BY <1>1, <1>2 DEF Finished
<1>4. QED
  BY <1>1, <1>2, <1>3 DEF Frontier, SaveSkip

LEMMA AcceptFrontier ==
    ASSUME TypeOK, TypeOK', IndInv, NEW c \in Clients, pc[c] \in Committing,
           Accept(c, Target(c)), UNCHANGED <<sent, acked, skips>>
    PROVE  Frontier'
<1> USE DEF TypeOK, KafkaTypes, PositionTypes, HistoryTypes, IndInv
<1>1. \A o : Finished(o) => Finished(o)'
  BY DEF Finished, Settled
<1>2. /\ Target(c) \in Nat /\ Target(c) <= high + 1
      /\ Target(c) > 0 => Finished(Target(c) - 1)
  BY DEF Target, Frontier, Workers, Finished, Committing, Processing, None
<1>3. QED
  BY <1>1, <1>2 DEF Frontier, Accept, Settled

LEMMA CommitFailsFrontier ==
    ASSUME TypeOK, TypeOK', IndInv, NEW c \in Clients, CommitFails(c) PROVE Frontier'
<1>1. CASE UNCHANGED <<committed, high>>
  BY <1>1 DEF IndInv, Frontier, Finished, CommitFails, Settled, storeVars
<1>2. CASE Accept(c, Target(c))
  BY <1>2, AcceptFrontier DEF CommitFails, storeVars
<1>3. QED
  BY <1>1, <1>2 DEF CommitFails

\* Every step keeps the inductive invariant, unless history is deleted under a
\* worker that is about to set the first baseline.
LEMMA IndInvStep ==
    ASSUME TypeOK, TypeOK', IndInv, [Next]_vars, TruncateAnyTime = FALSE \/ first' = first
    PROVE  IndInv'
<1> USE ClientsAssumption, OffsetsAssumption
    DEF TypeOK, KafkaTypes, StoreTypes, ConsumerTypes, PositionTypes, HistoryTypes, None, PCs,
        Initializing, Processing, Committing, kafkaVars, storeVars, controlVars, workerVars,
        clientVars, historyVars, IndInv, Membership, Frontier, Workers, Baseline, Positions,
        Started, Bounds, Finished, Settled
<1>1. CASE UNCHANGED vars
  BY <1>1 DEF vars
<1>2. ASSUME NEW c \in Clients, WorkerStep(c) PROVE IndInv'
  <2>1. CASE FetchOffsets(c)
    BY <2>1 DEF FetchOffsets, Goto
  <2>2. CASE ListOffsets(c)
    BY <2>2 DEF ListOffsets, Goto
  <2>3. CASE PartitionStarted(c)
    BY <2>3 DEF PartitionStarted, Goto, HistoryMissing
  <2>4. CASE MarkPartitionStarted(c)
    BY <2>4 DEF MarkPartitionStarted, Goto
  <2>5. CASE InitializeFails(c)
    BY <2>5 DEF InitializeFails, Goto
  <2>6. CASE Process(c)
    BY <2>6 DEF Process, Decodes, Goto, Fail, Cancel, HasRecord
  <2>7. CASE Skipped(c)
    BY <2>7 DEF Skipped, MatchesFilter, Goto, HasSkip
  <2>8. CASE Send(c)
    BY <2>8 DEF Send, Goto
  <2>9. CASE Reply(c)
    BY <2>9 DEF Reply, AfterReply, Acknowledgements, Goto
  <2>10. CASE SaveSkip(c)
    <3>1. Frontier'
      BY <2>10, SaveSkipFrontier
    <3>2. Membership' /\ Workers'
      BY <2>10 DEF SaveSkip, Goto
    <3>3. Baseline'
      BY <2>10 DEF SaveSkip, Goto
    <3>4. Positions' /\ Started' /\ Bounds'
      BY <2>10 DEF SaveSkip, Goto
    <3>5. QED
      BY <3>1, <3>2, <3>3, <3>4
  <2>11. CASE Commit(c)
    BY <2>11 DEF Commit, Goto
  <2>12. CASE CommitOk(c)
    <3>1. Membership'
      BY <2>12 DEF CommitOk, Goto, Accept, Target
    <3>2. Frontier'
      BY <2>12, AcceptFrontier DEF CommitOk
    <3>3. Workers'
      BY <2>12 DEF CommitOk, Goto, Accept, Target
    <3>4. Baseline'
      BY <2>12 DEF CommitOk, Goto, Accept, Target
    <3>5. Positions'
      BY <2>12 DEF CommitOk, Goto, Accept, Target
    <3>6. Started' /\ Bounds'
      BY <2>12 DEF CommitOk, Goto, Accept, Target
    <3>7. QED
      BY <3>1, <3>2, <3>3, <3>4, <3>5, <3>6
  <2>13. CASE CommitFails(c)
    <3>1. Frontier'
      BY <2>13, CommitFailsFrontier
    <3>2. Membership' /\ Workers'
      BY <2>13 DEF CommitFails, Goto, Accept, Target
    <3>3. Baseline'
      BY <2>13 DEF CommitFails, Goto, Accept, Target
    <3>4. Positions' /\ Started' /\ Bounds'
      BY <2>13 DEF CommitFails, Goto, Accept, Target
    <3>5. QED
      BY <3>1, <3>2, <3>3, <3>4
  <2>14. CASE Abort(c)
    BY <2>14 DEF Abort, Goto
  <2>15. CASE ResumeFetch(c)
    BY <2>15 DEF ResumeFetch, Goto
  <2>16. QED
    BY <1>2, <2>1, <2>2, <2>3, <2>4, <2>5, <2>6, <2>7, <2>8, <2>9, <2>10, <2>11, <2>12,
        <2>13, <2>14, <2>15 DEF WorkerStep
<1>3. ASSUME NEW c \in Clients, ConsumerStep(c) PROVE IndInv'
  <2>1. CASE Join(c)
    BY <2>1 DEF Join
  <2>2. CASE OnAssigned(c)
    BY <2>2 DEF OnAssigned, Goto
  <2>3. CASE OnRevoked(c)
    BY <2>3 DEF OnRevoked, BeginStop, Spend
  <2>4. CASE OnLost(c)
    BY <2>4 DEF OnLost, BeginStop
  <2>5. CASE RunReturns(c)
    BY <2>5 DEF RunReturns, BeginStop
  <2>6. CASE Disown(c)
    BY <2>6 DEF Disown
  <2>7. CASE EndStop(c)
    <3>1. Membership'
      BY <2>7 DEF EndStop, ClearWorker, Release, Goto
    <3>2. Frontier'
      BY <2>7 DEF EndStop, ClearWorker, Release, Goto
    <3>3. Workers'
      BY <2>7 DEF EndStop, ClearWorker, Release, Goto
    <3>4. Baseline'
      BY <2>7 DEF EndStop, ClearWorker, Release, Goto
    <3>5. Positions'
      BY <2>7 DEF EndStop, ClearWorker, Release, Goto
    <3>6. Started' /\ Bounds'
      BY <2>7 DEF EndStop, ClearWorker, Release, Goto
    <3>7. QED
      BY <3>1, <3>2, <3>3, <3>4, <3>5, <3>6
  <2>8. CASE ResolvePosition(c)
    BY <2>8 DEF ResolvePosition, Position
  <2>9. CASE PollRecords(c)
    BY <2>9 DEF PollRecords, Fetchable
  <2>10. CASE PollFails(c)
    BY <2>10 DEF PollFails, Cancel
  <2>11. QED
    BY <1>3, <2>1, <2>2, <2>3, <2>4, <2>5, <2>6, <2>7, <2>8, <2>9, <2>10 DEF ConsumerStep
<1>4. ASSUME NEW c \in Clients, EnvironmentStep(c) PROVE IndInv'
  <2>1. CASE LateCommit(c)
    BY <2>1 DEF LateCommit, Accept
  <2>2. CASE EvictLive(c)
    BY <2>2 DEF EvictLive, Drop, Release, Spend
  <2>3. CASE EvictDead(c)
    BY <2>3 DEF EvictDead, Drop, Release
  <2>4. CASE Crash(c)
    BY <2>4 DEF Crash, ClearWorker, Goto, Spend, Target
  <2>5. CASE Stop(c)
    BY <2>5 DEF Stop, Cancel, Spend
  <2>6. CASE GateDown(c)
    BY <2>6 DEF GateDown, Spend
  <2>7. CASE GateUp(c)
    BY <2>7 DEF GateUp
  <2>8. CASE LearnBlock(c)
    BY <2>8 DEF LearnBlock
  <2>9. QED
    BY <1>4, <2>1, <2>2, <2>3, <2>4, <2>5, <2>6, <2>7, <2>8 DEF EnvironmentStep
<1>5. CASE Append
  BY <1>5 DEF Append
<1>6. CASE Truncate
  BY <1>6 DEF Truncate, Spend
<1>7. CASE TailLost
  BY <1>7 DEF TailLost, Spend
<1>8. CASE OffsetsLost
  BY <1>8 DEF OffsetsLost, Spend
<1>9. QED
  BY <1>1, <1>2, <1>3, <1>4, <1>5, <1>6, <1>7, <1>8 DEF Next

\* The inductive invariant holds of every reachable state.
THEOREM Inductive ==
    ASSUME TruncateAnyTime = FALSE
    PROVE  Spec => [](TypeOK /\ IndInv)
<1>1. Init => IndInv
  BY ClientsAssumption, OffsetsAssumption
  DEF Init, None, Processing, Committing, Initializing, IndInv, Membership, Frontier, Workers,
      Baseline, Positions, Started, Bounds, Finished, Settled
<1>2. TypeOK /\ TypeOK' /\ IndInv /\ [Next]_vars => IndInv'
  BY IndInvStep
<1>3. QED
  BY <1>1, <1>2, TypeCorrect, PTL DEF Spec

-------------------------------------------------------------------------------
(* What follows from it *)

\* No record is lost, for any number of clients, records, evictions, crashes and
\* late commits.
THEOREM NothingLost ==
    ASSUME TruncateAnyTime = FALSE
    PROVE  Spec => []CommittedIsSettled
<1>1. IndInv => CommittedIsSettled
  BY DEF IndInv, Frontier, Finished, CommittedIsSettled
<1>2. QED
  BY <1>1, Inductive, PTL

\* Each partition delivers in order, whoever delivers.
THEOREM InOrder ==
    ASSUME TruncateAnyTime = FALSE
    PROVE  Spec => []DeliveredInOrder
<1>1. TypeOK /\ IndInv => DeliveredInOrder
  BY DEF TypeOK, HistoryTypes, IndInv, Frontier, Finished, DeliveredInOrder
<1>2. QED
  BY <1>1, Inductive, PTL

\* The coordinator takes a commit: from the worker of a member, or one that
\* outlived its caller.
CommitStep(c) ==
    /\ c \in members
    /\ \/ pc[c] \in Committing /\ committed' = Target(c)
       \/ late[c] # None /\ committed' = late[c]
    /\ high' = IF committed' > high THEN committed' ELSE high
    /\ UNCHANGED <<sent, acked, skips>>

\* Nothing else moves the committed offset, but for the loss of the offsets.
LEMMA WhoCommits ==
    ASSUME [Next]_vars
    PROVE  (\E c \in Clients : CommitStep(c)) \/ OffsetsLost \/ UNCHANGED <<committed, high>>
<1> USE DEF vars, kafkaVars, storeVars, controlVars, workerVars, clientVars, historyVars
<1>1. ASSUME NEW c \in Clients, WorkerStep(c)
      PROVE  CommitStep(c) \/ UNCHANGED <<committed, high>>
  BY <1>1 DEF WorkerStep, FetchOffsets, ListOffsets, PartitionStarted, MarkPartitionStarted,
      InitializeFails, Process, Decodes, Skipped, MatchesFilter, Send, Reply, AfterReply,
      Acknowledgements, SaveSkip, Commit, CommitOk,
      CommitFails, ResumeFetch, Abort, CommitStep, Accept
<1>2. ASSUME NEW c \in Clients, ConsumerStep(c)
      PROVE  UNCHANGED <<committed, high>>
  BY <1>2 DEF ConsumerStep, Join, OnAssigned, OnRevoked, OnLost, RunReturns, Disown,
      EndStop, ResolvePosition, PollRecords, PollFails, BeginStop
<1>3. ASSUME NEW c \in Clients, EnvironmentStep(c)
      PROVE  CommitStep(c) \/ UNCHANGED <<committed, high>>
  BY <1>3 DEF EnvironmentStep, LateCommit, EvictLive, EvictDead, Crash, Stop, GateDown,
      GateUp, LearnBlock, Drop, CommitStep, Accept
<1>4. CASE Append \/ Truncate \/ TailLost
  BY <1>4 DEF Append, Truncate, TailLost
<1>5. QED
  BY <1>1, <1>2, <1>3, <1>4 DEF Next

\* A commit that is taken is the owner's and moves the offset by at most one; it
\* is the first of its group only if nothing was ever committed.
LEMMA CommitStepMoves ==
    ASSUME TypeOK, IndInv, NEW c \in Clients, CommitStep(c)
    PROVE  /\ owner = c
           /\ committed' \in Nat /\ committed' \in {committed, committed + 1}
           /\ committed = None => high = 0
  BY DEF TypeOK, KafkaTypes, ConsumerTypes, PositionTypes, HistoryTypes, None, Initializing,
         Processing, Committing, CommitStep, Target, IndInv, Membership, Workers, Baseline,
         Positions, Started

\* The committed offset never goes back and never jumps.
THEOREM CommitsMoveByOne ==
    ASSUME TruncateAnyTime = FALSE
    PROVE  Spec => CommitMovesByOne
<1> DEFINE ByOne == committed' # committed =>
              \/ committed # None /\ committed' = committed + 1
              \/ committed = None /\ committed' = 0
              \/ OffsetsLost
<1>1. ASSUME TypeOK, IndInv, [Next]_vars PROVE ByOne
  BY <1>1, WhoCommits, CommitStepMoves DEF TypeOK, KafkaTypes, None
<1>2. QED
  BY <1>1, Inductive, PTL DEF Spec, CommitMovesByOne

\* A lost owner never commits.
THEOREM LostOwnerNeverCommits ==
    ASSUME TruncateAnyTime = FALSE
    PROVE  Spec => OnlyOwnerCommits
<1> DEFINE ByOwner == committed' \notin {committed, None} =>
              /\ owner # NoOne
              /\ \/ committed' = late[owner]
                 \/ pc[owner] \in Committing /\ committed' = Target(owner)
<1>1. ASSUME TypeOK, IndInv, [Next]_vars PROVE ByOwner
  BY <1>1, WhoCommits, CommitStepMoves, ClientsAssumption DEF CommitStep, OffsetsLost, None
<1>2. QED
  BY <1>1, Inductive, PTL DEF Spec, OnlyOwnerCommits

\* A group that made progress never gets a fresh baseline.
THEOREM ProgressNeverReset ==
    ASSUME TruncateAnyTime = FALSE
    PROVE  Spec => NeverRebaselined
<1> DEFINE Kept == committed = None /\ high > 0 => committed' = None
<1>1. ASSUME TypeOK, IndInv, [Next]_vars PROVE Kept
  BY <1>1, WhoCommits, CommitStepMoves DEF TypeOK, HistoryTypes, OffsetsLost, None
<1>2. QED
  BY <1>1, Inductive, PTL DEF Spec, NeverRebaselined

-------------------------------------------------------------------------------
(* Fetching *)

\* Where a worker stands in its batch.
Batches ==
    \A c \in Clients :
        /\ nxt[c] <= top[c]
        /\ pc[c] = "none" => nxt[c] = None
        /\ pc[c] \in Processing => nxt[c] < top[c]
        /\ pc[c] = "resume" => nxt[c] = top[c]

\* Every step keeps the batches and the pauses in step.
LEMMA BatchStep ==
    ASSUME TypeOK, TypeOK', Batches, PausedWhileBusy, [Next]_vars
    PROVE  Batches' /\ PausedWhileBusy'
<1> USE DEF TypeOK, KafkaTypes, ConsumerTypes, PositionTypes, None, PCs, Initializing, Processing,
        Committing, kafkaVars, storeVars, controlVars, workerVars, clientVars, historyVars,
        Batches, PausedWhileBusy
<1>1. CASE UNCHANGED vars
  BY <1>1 DEF vars
<1>2. ASSUME NEW c \in Clients, WorkerStep(c) PROVE (Batches /\ PausedWhileBusy)'
  <2>1. CASE FetchOffsets(c) \/ ListOffsets(c) \/ PartitionStarted(c) \/ MarkPartitionStarted(c)
             \/ InitializeFails(c)
    BY <2>1 DEF FetchOffsets, ListOffsets, PartitionStarted, MarkPartitionStarted,
        InitializeFails, Goto
  <2>2. CASE Process(c)
    BY <2>2 DEF Process, Decodes, HasRecord, Goto, Fail
  <2>3. CASE Skipped(c) \/ Send(c) \/ SaveSkip(c) \/ Commit(c)
    BY <2>3 DEF Skipped, HasSkip, MatchesFilter, Send, SaveSkip, Commit, Goto
  <2>4. CASE Reply(c)
    BY <2>4 DEF Reply, AfterReply, Acknowledgements, Goto
  <2>5. CASE CommitOk(c)
    BY <2>5 DEF CommitOk, Goto
  <2>6. CASE CommitFails(c)
    BY <2>6 DEF CommitFails, Goto
  <2>7. CASE ResumeFetch(c)
    BY <2>7 DEF ResumeFetch, Goto
  <2>8. CASE Abort(c)
    BY <2>8 DEF Abort, Goto
  <2>9. QED
    BY <1>2, <2>1, <2>2, <2>3, <2>4, <2>5, <2>6, <2>7, <2>8 DEF WorkerStep
<1>3. ASSUME NEW c \in Clients, ConsumerStep(c) PROVE (Batches /\ PausedWhileBusy)'
  <2>1. CASE OnAssigned(c)
    BY <2>1 DEF OnAssigned, Goto
  <2>2. CASE EndStop(c)
    BY <2>2 DEF EndStop, ClearWorker, Goto
  <2>3. CASE ResolvePosition(c)
    BY <2>3 DEF ResolvePosition, Position
  <2>4. CASE PollRecords(c)
    BY <2>4 DEF PollRecords, Fetchable
  <2>5. CASE Join(c) \/ OnRevoked(c) \/ OnLost(c) \/ RunReturns(c) \/ Disown(c) \/ PollFails(c)
    BY <2>5 DEF Join, OnRevoked, OnLost, RunReturns, BeginStop, Disown, PollFails
  <2>6. QED
    BY <1>3, <2>1, <2>2, <2>3, <2>4, <2>5 DEF ConsumerStep
<1>4. ASSUME NEW c \in Clients, EnvironmentStep(c) PROVE (Batches /\ PausedWhileBusy)'
  <2>1. CASE Crash(c)
    BY <2>1 DEF Crash, ClearWorker, Goto
  <2>2. CASE LateCommit(c) \/ EvictLive(c) \/ EvictDead(c) \/ Stop(c) \/ GateDown(c)
             \/ GateUp(c) \/ LearnBlock(c)
    BY <2>2 DEF LateCommit, EvictLive, EvictDead, Drop, Stop, GateDown, GateUp, LearnBlock
  <2>3. QED
    BY <1>4, <2>1, <2>2 DEF EnvironmentStep
<1>5. CASE Append \/ Truncate \/ TailLost \/ OffsetsLost
  BY <1>5 DEF Append, Truncate, TailLost, OffsetsLost
<1>6. QED
  BY <1>1, <1>2, <1>3, <1>4, <1>5 DEF Next

\* A partition is fetched exactly when its worker is ready for a batch, however
\* workers are cancelled, replaced and started again.
THEOREM FetchedWhenIdle == Spec => []PausedWhileBusy
<1>1. Init => Batches /\ PausedWhileBusy
  BY DEF Init, Batches, PausedWhileBusy, Processing, None
<1>2. TypeOK /\ TypeOK' /\ Batches /\ PausedWhileBusy /\ [Next]_vars
        => (Batches /\ PausedWhileBusy)'
  BY BatchStep
<1>3. QED
  BY <1>1, <1>2, TypeCorrect, PTL DEF Spec

-------------------------------------------------------------------------------
(* Refinement *)

\* The frontier of the abstract delivery passes finished records one by one.
LEMMA CommitStepAdvances ==
    ASSUME TypeOK, TypeOK', IndInv, IndInv', NEW c \in Clients, CommitStep(c)
    PROVE  [Ordered!Advance]_(Ordered!vars)
<1>1. Settled' = Settled
  BY DEF CommitStep, Settled
<1>2. CASE high' = high
  BY <1>1, <1>2 DEF CommitStep, Ordered!vars
<1>3. CASE high' # high
  <2>1. high' = high + 1
    BY <1>3, CommitStepMoves DEF CommitStep, TypeOK, KafkaTypes, HistoryTypes, IndInv, Frontier, None
  <2>2. (Finished(high - 1))'
    BY <2>1 DEF TypeOK, HistoryTypes, IndInv, Frontier
  <2>3. high \in Settled \cup Excluded
    BY <1>1, <2>1, <2>2 DEF Finished, TypeOK, HistoryTypes
  <2>4. QED
    BY <1>1, <2>1, <2>3 DEF CommitStep, Ordered!Advance, Ordered!Done
<1>4. QED
  BY <1>2, <1>3

\* An attempt is allowed by the abstract delivery: all before it is done.
LEMMA SendAttempts ==
    ASSUME TypeOK, IndInv, NEW c \in Clients, Send(c)
    PROVE  Ordered!Next
<1>1. nxt[c] \in 0 .. MaxOffset
  BY OffsetsAssumption
  DEF Send, TypeOK, PositionTypes, IndInv, Bounds, Processing, None
<1>2. Ordered!Attempt(nxt[c])
  <2>1. nxt[c] <= high
    BY DEF Send, IndInv, Workers, Processing
  <2>2. \A p \in 0 .. nxt[c] - 1 : p \in Settled \cup Excluded
    BY <1>1, <2>1 DEF IndInv, Frontier, Finished, TypeOK, HistoryTypes
  <2>3. Settled' = Settled
    BY DEF Send, Settled, storeVars
  <2>4. QED
    BY <2>2, <2>3 DEF Ordered!Attempt, Ordered!Done, Send
<1>3. QED
  BY <1>1, <1>2 DEF Ordered!Next

\* An acknowledgement, or a skip, settles a record that was sent.
LEMMA OutcomeSettles ==
    ASSUME TypeOK, IndInv, NEW c \in Clients, Reply(c) \/ SaveSkip(c)
    PROVE  [Ordered!Next]_(Ordered!vars)
<1>1. nxt[c] \in sent
  BY DEF Reply, AfterReply, Acknowledgements, SaveSkip, IndInv, Workers
<1>2. Settled' = Settled \/ Settled' = Settled \cup {nxt[c]}
  BY DEF Reply, AfterReply, Acknowledgements, SaveSkip, Settled, storeVars, historyVars
<1>3. UNCHANGED <<sent, high>>
  BY DEF Reply, AfterReply, Acknowledgements, SaveSkip, historyVars
<1>4. QED
  BY <1>1, <1>2, <1>3 DEF Ordered!Next, Ordered!Settle, Ordered!vars

\* Every step is a step of ordered delivery, or invisible to it.
LEMMA StepRefines ==
    ASSUME TypeOK, TypeOK', IndInv, IndInv', [Next]_vars
    PROVE  [Ordered!Next]_(Ordered!vars)
<1> DEFINE Invisible == UNCHANGED <<sent, acked, skips, high>>
<1>1. ASSUME Invisible PROVE UNCHANGED Ordered!vars
  BY <1>1 DEF Ordered!vars, Settled
<1> USE DEF vars, kafkaVars, storeVars, controlVars, workerVars, clientVars, historyVars
<1>2. ASSUME NEW c \in Clients, WorkerStep(c) PROVE [Ordered!Next]_(Ordered!vars)
  <2>1. CASE Send(c)
    BY <2>1, SendAttempts
  <2>2. CASE Reply(c) \/ SaveSkip(c)
    BY <2>2, OutcomeSettles
  <2>3. CASE CommitOk(c) \/ CommitFails(c)
    <3>1. CommitStep(c) \/ Invisible
      BY <2>3 DEF CommitOk, CommitFails, CommitStep, Accept
    <3>2. QED
      BY <3>1, <1>1, CommitStepAdvances DEF Ordered!Next
  <2>4. CASE FetchOffsets(c) \/ ListOffsets(c) \/ PartitionStarted(c) \/ MarkPartitionStarted(c) \/ InitializeFails(c)
             \/ Process(c) \/ Skipped(c) \/ Commit(c) \/ ResumeFetch(c) \/ Abort(c)
    <3>1. Invisible
      BY <2>4 DEF FetchOffsets, ListOffsets, PartitionStarted, MarkPartitionStarted,
          InitializeFails, Process, Decodes, Skipped, MatchesFilter, Commit, ResumeFetch, Abort
    <3>2. QED
      BY <3>1, <1>1
  <2>5. QED
    BY <1>2, <2>1, <2>2, <2>3, <2>4 DEF WorkerStep
<1>3. ASSUME NEW c \in Clients, ConsumerStep(c) PROVE UNCHANGED Ordered!vars
  <2>1. Invisible
    BY <1>3 DEF ConsumerStep, Join, OnAssigned, OnRevoked, OnLost, RunReturns, Disown,
        EndStop, ResolvePosition, PollRecords, PollFails, BeginStop
  <2>2. QED
    BY <2>1, <1>1
<1>4. ASSUME NEW c \in Clients, EnvironmentStep(c) PROVE [Ordered!Next]_(Ordered!vars)
  <2>1. CommitStep(c) \/ Invisible
    BY <1>4 DEF EnvironmentStep, LateCommit, EvictLive, EvictDead, Crash, Stop, GateDown,
        GateUp, LearnBlock, Drop, CommitStep, Accept
  <2>2. QED
    BY <2>1, <1>1, CommitStepAdvances DEF Ordered!Next
<1>5. CASE Append \/ Truncate \/ TailLost \/ OffsetsLost \/ UNCHANGED vars
  <2>1. Invisible
    BY <1>5 DEF Append, Truncate, TailLost, OffsetsLost
  <2>2. QED
    BY <2>1, <1>1
<1>6. QED
  BY <1>2, <1>3, <1>4, <1>5 DEF Next

\* What consumers, workers, commits and crashes do to one partition is ordered
\* at-least-once delivery.
THEOREM Refinement ==
    ASSUME TruncateAnyTime = FALSE
    PROVE  Spec => ImplementsOrderedDelivery
<1>1. Init => Ordered!Init
  BY DEF Init, Ordered!Init, Settled
<1>2. TypeOK /\ TypeOK' /\ IndInv /\ IndInv' /\ [Next]_vars => [Ordered!Next]_(Ordered!vars)
  BY StepRefines
<1>3. QED
  BY <1>1, <1>2, Inductive, PTL DEF Spec, ImplementsOrderedDelivery, Ordered!Spec
==============================================================================
