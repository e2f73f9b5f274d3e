-------------------------- MODULE PartitionDelivery --------------------------
(***************************************************************************)
(* Delivery of one Kafka partition to one destination by the members of its *)
(* consumer group: internal/adapters/kafka/consumer.go (Consumer and        *)
(* partitionWorker), internal/delivery (Worker, Processor), the skip and    *)
(* started-partition tables of internal/adapters/controlpg.                 *)
(*                                                                          *)
(* Every client is one Postie process with one Consumer at a time and at    *)
(* most one partitionWorker for this partition.  Kafka, the destination and *)
(* the control service are environment: what they may do to a worker at any *)
(* moment is an action of its own, bounded by a budget of faults.           *)
(***************************************************************************)
EXTENDS Integers

CONSTANTS Clients,          \* Postie processes
          NoOne,            \* the partition has no owner
          MaxOffset,        \* bound: records appended to the partition
          Malformed,        \* offsets whose record cannot be decoded
          Excluded,         \* offsets whose record the filter excludes
          Budgets,          \* bound: faults of each kind; a behaviour has one of these budgets
          TruncateAnyTime   \* may history be deleted while a first worker starts?

FaultKinds == {"evict", "crash", "stop", "rebalance", "gate", "lose"}

ASSUME ClientsAssumption == NoOne \notin Clients
ASSUME OffsetsAssumption ==
    /\ MaxOffset \in Nat
    /\ Malformed \subseteq Nat
    /\ Excluded \subseteq Nat
    /\ Malformed \cap Excluded = {}
ASSUME BudgetAssumption == Budgets \subseteq [FaultKinds -> Nat]
ASSUME TruncateAssumption == TruncateAnyTime \in BOOLEAN

\* "No offset": an absent group commit (offset.At < 0), an unset position.
None == -1

VARIABLES
    \* Kafka
    first, end,      \* start and end offset of the partition
    torn,            \* an unclean leader election lost committed history
    committed,       \* the group's committed offset
    members, owner,  \* the coordinator's view of the group
    late,            \* commit requests that outlived their caller
    \* control store
    started,         \* postie_partitions: the partition has been started
    skips,           \* postie_skips: offsets with a durable skip
    \* control service of each process
    up,              \* Allowed, but for the block: lease and dependencies
    blocked,         \* processes in which the source is blocked
    \* Consumer and partitionWorker
    consumer,        \* "down", "up" or "halted" (its context is cancelled)
    stopping,        \* what stopWorkers is running for
    paused,          \* the client does not fetch the partition
    pc,              \* where the worker goroutine is
    owned, cancelled,
    seen, low,       \* offsets read by the current attempt of initialize
    horizon,
    nxt, top,        \* next record of the routed batch, end of the batch
    \* history, read by the properties only
    sent,            \* offsets put on the wire
    acked,           \* offsets whose success reached Postie
    high,            \* highest offset ever committed
    budget           \* faults left

kafkaVars   == <<first, end, torn, committed, members, owner, late>>
storeVars   == <<started, skips>>
controlVars == <<up, blocked>>
workerVars  == <<pc, owned, cancelled, seen, low, horizon, nxt, top>>
clientVars  == <<consumer, stopping, paused>>
historyVars == <<sent, acked, high>>
vars == <<kafkaVars, storeVars, controlVars, workerVars, clientVars, historyVars, budget>>

Initializing == {"fetch", "list", "decide", "baseline", "mark"}
Processing   == {"skipped", "send", "wait", "audit", "commit", "committing"}
Committing   == {"baseline", "committing"}
PCs == {"none", "idle", "resume", "done"} \cup Initializing \cup Processing

Settled == acked \cup skips

Init ==
    /\ first = 0 /\ end = 0 /\ torn = FALSE /\ committed = None
    /\ members = {} /\ owner = NoOne
    /\ late = [c \in Clients |-> None]
    /\ started = FALSE /\ skips = {}
    /\ up = [c \in Clients |-> TRUE] /\ blocked = {}
    /\ consumer = [c \in Clients |-> "down"]
    /\ stopping = [c \in Clients |-> "no"]
    /\ paused = [c \in Clients |-> FALSE]
    /\ pc = [c \in Clients |-> "none"]
    /\ owned = [c \in Clients |-> FALSE]
    /\ cancelled = [c \in Clients |-> FALSE]
    /\ seen = [c \in Clients |-> None]
    /\ low = [c \in Clients |-> 0]
    /\ horizon = [c \in Clients |-> 0]
    /\ nxt = [c \in Clients |-> None]
    /\ top = [c \in Clients |-> None]
    /\ sent = {} /\ acked = {} /\ high = 0
    /\ budget \in Budgets

-------------------------------------------------------------------------------
(* Helpers *)

Spend(kind) ==
    /\ budget[kind] > 0
    /\ budget' = [budget EXCEPT ![kind] = @ - 1]

Goto(c, label) == pc' = [pc EXCEPT ![c] = label]

\* control.Service.Allowed for the partition's source.
Allowed(c) == up[c] /\ c \notin blocked

\* The consumer's context ends, and with it the context of its worker.
Cancel(c) ==
    /\ consumer' = [consumer EXCEPT ![c] = "halted"]
    /\ cancelled' = [cancelled EXCEPT ![c] = pc[c] # "none"]

\* run returns with an error: the consumer is cancelled unless the worker was.
Fail(c) ==
    /\ Goto(c, "done")
    /\ IF cancelled[c] THEN UNCHANGED <<consumer, cancelled>> ELSE Cancel(c)

\* The guard of partitionWorker.commit, evaluated under w.mu.
MayCommit(c) == owned[c] /\ ~cancelled[c] /\ Allowed(c)

\* Mutant: the commit skips a record.
TargetAhead(c) == IF pc[c] = "baseline" THEN low[c] ELSE nxt[c] + 2

\* The offset of the commit request in flight: first.Offset for the baseline,
\* one past the record for a processed record.
Target(c) == IF pc[c] = "baseline" THEN low[c] ELSE nxt[c] + 1

\* The coordinator takes a commit of offset o from a member of the group only.
\* It handles the requests of a client in the order they were sent, so that one
\* the client gave up on before is not handled any more.
Accept(c, o) ==
    /\ c \in members
    /\ committed' = o
    /\ late' = [late EXCEPT ![c] = None]
    /\ high' = IF o > high THEN o ELSE high

-------------------------------------------------------------------------------
(* Consumer: joining, assignment, revocation, loss, stop *)

\* control.Service starts a consumer (NewConsumer, go Run), or a client that
\* lost its membership joins again.
Join(c) ==
    /\ consumer[c] \in {"down", "up"} /\ stopping[c] = "no" /\ pc[c] = "none"
    /\ c \notin members /\ c \notin blocked
    /\ consumer' = [consumer EXCEPT ![c] = "up"]
    /\ members' = members \cup {c}
    /\ UNCHANGED <<first, end, torn, committed, owner, late, storeVars, controlVars,
                   workerVars, stopping, paused, historyVars, budget>>

\* Mutant: a pause that the last worker left behind is not lifted.
OnAssignedPaused(c) ==
    /\ owner = NoOne /\ c \in members
    /\ consumer[c] = "up" /\ stopping[c] = "no" /\ pc[c] = "none"
    /\ owner' = c
    /\ Goto(c, "fetch")
    /\ owned' = [owned EXCEPT ![c] = TRUE]
    /\ UNCHANGED <<first, end, torn, committed, members, late, storeVars, controlVars,
                   clientVars, cancelled, seen, low, horizon, nxt, top, historyVars, budget>>

\* onAssigned: the worker starts with the first attempt of initialize, and
\* fetching resumes, which the worker before it may have left paused.
OnAssigned(c) ==
    /\ owner = NoOne /\ c \in members
    /\ consumer[c] = "up" /\ stopping[c] = "no" /\ pc[c] = "none"
    /\ owner' = c
    /\ Goto(c, "fetch")
    /\ owned' = [owned EXCEPT ![c] = TRUE]
    /\ paused' = [paused EXCEPT ![c] = FALSE]
    /\ UNCHANGED <<first, end, torn, committed, members, late, storeVars, controlVars, consumer,
                   stopping, cancelled, seen, low, horizon, nxt, top, historyVars, budget>>

\* The first half of stopWorkers: the worker's context ends and the worker
\* leaves the map, so that no batch is routed to it any more.
BeginStop(c, why) ==
    /\ stopping[c] = "no"
    /\ stopping' = [stopping EXCEPT ![c] = why]
    /\ cancelled' = [cancelled EXCEPT ![c] = pc[c] # "none"]
    /\ UNCHANGED <<kafkaVars, storeVars, controlVars, consumer, paused, pc, owned, seen, low,
                   horizon, nxt, top, historyVars>>

\* onRevoked: the group rebalances while the client is a live member.
OnRevoked(c) ==
    /\ owner = c /\ c \in members /\ consumer[c] # "down" /\ pc[c] # "none"
    /\ Spend("rebalance")
    /\ BeginStop(c, "revoke")

\* onLost: the client finds out that the coordinator has dropped it.
OnLost(c) ==
    /\ c \notin members /\ consumer[c] # "down" /\ pc[c] # "none"
    /\ BeginStop(c, "lost")
    /\ UNCHANGED budget

\* Run leaves its loop because the consumer's context has ended.
RunReturns(c) ==
    /\ consumer[c] = "halted"
    /\ BeginStop(c, "close")
    /\ UNCHANGED budget

\* stopWorkers takes w.mu, which a commit in flight holds.
Disown(c) ==
    /\ stopping[c] # "no" /\ owned[c] /\ pc[c] \notin Committing
    /\ owned' = [owned EXCEPT ![c] = FALSE]
    /\ UNCHANGED <<kafkaVars, storeVars, controlVars, clientVars, pc, cancelled, seen, low,
                   horizon, nxt, top, historyVars, budget>>

\* The worker of c is forgotten.
ClearWorker(c) ==
    /\ Goto(c, "none")
    /\ owned' = [owned EXCEPT ![c] = FALSE]
    /\ cancelled' = [cancelled EXCEPT ![c] = FALSE]
    /\ seen' = [seen EXCEPT ![c] = None]
    /\ low' = [low EXCEPT ![c] = 0]
    /\ horizon' = [horizon EXCEPT ![c] = 0]
    /\ nxt' = [nxt EXCEPT ![c] = None]
    /\ top' = [top EXCEPT ![c] = None]

\* The coordinator ends the ownership of c: a commit of the old generation
\* that is still under way will be refused.
Release(c) ==
    /\ owner' = IF owner = c THEN NoOne ELSE owner
    /\ late' = [late EXCEPT ![c] = None]

\* Mutant: a revocation does not wait for w.mu and the worker goroutine.
EndStopWithoutWaiting(c) ==
    /\ stopping[c] = "revoke"
    /\ stopping' = [stopping EXCEPT ![c] = "no"]
    /\ Release(c)
    /\ UNCHANGED <<first, end, torn, committed, members, storeVars, controlVars, workerVars,
                   consumer, paused, historyVars, budget>>

\* stopWorkers returns once the worker goroutine has.  Only then does onRevoked
\* let the rebalance go on, and only then does Run close the client, which
\* leaves the group.
EndStop(c) ==
    /\ stopping[c] # "no" /\ ~owned[c] /\ pc[c] \in {"none", "done"}
    /\ ClearWorker(c)
    /\ stopping' = [stopping EXCEPT ![c] = "no"]
    /\ \/ /\ stopping[c] = "revoke"
          /\ Release(c)
          /\ UNCHANGED <<members, consumer, paused>>
       \/ /\ stopping[c] = "lost"
          /\ UNCHANGED <<members, owner, late, consumer, paused>>
       \/ /\ stopping[c] = "close"
          /\ Release(c)
          /\ members' = members \ {c}
          /\ consumer' = [consumer EXCEPT ![c] = "down"]
          /\ paused' = [paused EXCEPT ![c] = FALSE]
    /\ UNCHANGED <<first, end, torn, committed, storeVars, controlVars, historyVars, budget>>

-------------------------------------------------------------------------------
(* partitionWorker.initialize *)

\* An attempt of initialize that fails is tried again after a second.
FetchOffsets(c) ==
    /\ pc[c] = "fetch" /\ ~cancelled[c]
    /\ Goto(c, "list")
    /\ seen' = [seen EXCEPT ![c] = committed]
    /\ UNCHANGED <<kafkaVars, storeVars, controlVars, clientVars, owned, cancelled, low,
                   horizon, nxt, top, historyVars, budget>>

\* ListStartOffsets, ListEndOffsets.
ListOffsets(c) ==
    /\ pc[c] = "list" /\ ~cancelled[c]
    /\ Goto(c, "decide")
    /\ low' = [low EXCEPT ![c] = first]
    /\ horizon' = [horizon EXCEPT ![c] = end]
    /\ UNCHANGED <<kafkaVars, storeVars, controlVars, clientVars, owned, cancelled, seen,
                   nxt, top, historyVars, budget>>

\* Mutants: the start of the partition, the started mark is not looked at; a
\* group that has caught up counts as out of range.
MissingIgnoresStart(c) ==
    IF seen[c] = None THEN started ELSE seen[c] > horizon[c]
MissingIgnoresMark(c) ==
    IF seen[c] = None THEN low[c] # 0 ELSE seen[c] < low[c] \/ seen[c] > horizon[c]
MissingWhenCaughtUp(c) ==
    IF seen[c] = None THEN started \/ low[c] # 0
                      ELSE seen[c] < low[c] \/ seen[c] >= horizon[c]

\* The offsets that were read show that history is gone.
HistoryMissing(c) ==
    IF seen[c] = None THEN started \/ low[c] # 0
                      ELSE seen[c] < low[c] \/ seen[c] > horizon[c]

\* PartitionStarted, and the branch on what was read: the source is blocked,
\* the baseline is committed, or the partition goes on from its commit.
PartitionStarted(c) ==
    /\ pc[c] = "decide" /\ ~cancelled[c]
    /\ \/ /\ HistoryMissing(c)
          /\ blocked' = blocked \cup {c}
          /\ cancelled' = [cancelled EXCEPT ![c] = TRUE]
          /\ Goto(c, "done")
       \/ /\ ~HistoryMissing(c)
          /\ \/ seen[c] = None /\ MayCommit(c) /\ Goto(c, "baseline")
             \/ seen[c] = None /\ ~MayCommit(c) /\ Goto(c, "fetch")
             \/ seen[c] # None /\ Goto(c, "mark")
          /\ UNCHANGED <<blocked, cancelled>>
    /\ seen' = [seen EXCEPT ![c] = None]
    /\ low' = [low EXCEPT ![c] = IF pc'[c] = "baseline" THEN @ ELSE 0]
    /\ UNCHANGED <<kafkaVars, storeVars, up, clientVars, owned, horizon, nxt, top, historyVars,
                   budget>>

\* The row may be written although the call fails, and the attempt starts again.
MarkPartitionStarted(c) ==
    /\ pc[c] = "mark" /\ ~cancelled[c]
    /\ started' = TRUE
    /\ \/ Goto(c, "idle") \/ Goto(c, "fetch")
    /\ UNCHANGED <<kafkaVars, skips, controlVars, clientVars, owned, cancelled, seen, low,
                   horizon, nxt, top, historyVars, budget>>

\* Any call of initialize may fail without an effect.
InitializeFails(c) ==
    /\ pc[c] \in {"list", "decide", "mark"} /\ ~cancelled[c]
    /\ Goto(c, "fetch")
    /\ seen' = [seen EXCEPT ![c] = None]
    /\ low' = [low EXCEPT ![c] = 0]
    /\ UNCHANGED <<kafkaVars, storeVars, controlVars, clientVars, owned, cancelled, horizon, nxt,
                   top, historyVars, budget>>

-------------------------------------------------------------------------------
(* partitionWorker.commit *)

\* The request is applied and the caller hears of it.  After the last record of
\* a batch the worker resumes fetching.
CommitOk(c) ==
    /\ pc[c] \in Committing
    /\ Accept(c, Target(c))
    /\ IF pc[c] = "baseline"
         THEN Goto(c, "mark") /\ UNCHANGED nxt
         ELSE /\ Goto(c, IF nxt[c] + 1 = top[c] THEN "resume" ELSE "idle")
              /\ nxt' = [nxt EXCEPT ![c] = @ + 1]
    /\ UNCHANGED <<first, end, torn, members, owner, storeVars, controlVars, clientVars,
                   owned, cancelled, seen, low, horizon, top, sent, acked, budget>>

\* The request fails, times out or its context ends.  It may have been applied,
\* or may still be on its way to the coordinator.
CommitFails(c) ==
    /\ pc[c] \in Committing
    /\ Goto(c, IF pc[c] = "baseline" THEN "fetch" ELSE "commit")
    /\ \/ UNCHANGED <<committed, high, late>>
       \/ Accept(c, Target(c))
       \/ /\ c \in members
          /\ late' = [late EXCEPT ![c] = Target(c)]
          /\ UNCHANGED <<committed, high>>
    /\ UNCHANGED <<first, end, torn, members, owner, storeVars, controlVars, clientVars,
                   owned, cancelled, seen, low, horizon, nxt, top, sent, acked, budget>>

\* The coordinator handles a request whose caller has given up.
LateCommit(c) ==
    /\ late[c] # None
    /\ Accept(c, late[c])
    /\ UNCHANGED <<first, end, torn, members, owner, storeVars, controlVars, clientVars,
                   workerVars, sent, acked, budget>>

-------------------------------------------------------------------------------
(* Run: fetching and routing *)

\* Mutant: ConsumeStartOffset AtEnd.
PositionAtEnd == IF committed = None THEN end ELSE committed

\* Where a client starts to fetch: the group's commit, or the start of the
\* partition (ConsumeStartOffset AtStart).
Position == IF committed = None THEN first ELSE committed

\* The client of an assigned partition asks the coordinator for its position.
ResolvePosition(c) ==
    /\ pc[c] # "none" /\ nxt[c] = None /\ c \in members
    /\ nxt' = [nxt EXCEPT ![c] = Position]
    /\ top' = [top EXCEPT ![c] = Position]
    /\ UNCHANGED <<kafkaVars, storeVars, controlVars, clientVars, pc, owned, cancelled, seen,
                   low, horizon, historyVars, budget>>

\* The client fetches the partition, from the end of the last batch on.
Fetchable(c) ==
    /\ consumer[c] = "up" /\ stopping[c] = "no"
    /\ pc[c] # "none" /\ top[c] # None /\ ~paused[c]

\* OffsetOutOfRange, ErrDataLoss.
HistoryLost(c) == top[c] < first \/ top[c] > end \/ torn

\* PollRecords returns a batch, which is routed to the worker unless its context
\* has ended, and fetching pauses.
PollRecords(c) ==
    /\ Fetchable(c) /\ ~cancelled[c] /\ ~HistoryLost(c)
    /\ \E o \in top[c] + 1 .. end : top' = [top EXCEPT ![c] = o]
    /\ paused' = [paused EXCEPT ![c] = TRUE]
    /\ UNCHANGED <<kafkaVars, storeVars, controlVars, consumer, stopping, pc, owned, cancelled,
                   seen, low, horizon, nxt, historyVars, budget>>

\* Mutant: the worker waits for its next batch at once.
ResumeForgotten(c) ==
    /\ pc[c] = "resume" /\ ~cancelled[c]
    /\ Goto(c, "idle")
    /\ UNCHANGED <<kafkaVars, storeVars, controlVars, clientVars, owned, cancelled, seen, low,
                   horizon, nxt, top, historyVars, budget>>

\* The worker has finished its batch; a worker whose context has ended, or that
\* has left the map, leaves the partition paused (Abort).
ResumeFetch(c) ==
    /\ pc[c] = "resume" /\ ~cancelled[c]
    /\ Goto(c, "idle")
    /\ paused' = [paused EXCEPT ![c] = FALSE]
    /\ UNCHANGED <<kafkaVars, storeVars, controlVars, consumer, stopping, owned, cancelled, seen,
                   low, horizon, nxt, top, historyVars, budget>>

\* PollRecords reports that the history is lost.
PollFails(c) ==
    /\ Fetchable(c) /\ HistoryLost(c)
    /\ blocked' = blocked \cup {c}
    /\ Cancel(c)
    /\ UNCHANGED <<kafkaVars, storeVars, up, stopping, paused, pc, owned, seen, low, horizon, nxt,
                   top, historyVars, budget>>

-------------------------------------------------------------------------------
(* Worker.Process and completeRecord *)

\* Mutant: one record too many.
HasRecordTooMany(c) == nxt[c] <= top[c]

\* The routed batch still holds a record.
HasRecord(c) == nxt[c] < top[c]

\* debezium.Decode accepts the record.
Decodes(c) == nxt[c] \notin Malformed

\* The gate and the decoder, before anything else is done with a record.
Process(c) ==
    /\ pc[c] = "idle" /\ HasRecord(c)
    /\ \/ ~Allowed(c) /\ Fail(c) /\ UNCHANGED blocked
       \/ /\ Allowed(c) /\ ~Decodes(c)
          /\ blocked' = blocked \cup {c}
          /\ Fail(c)
       \/ /\ Allowed(c) /\ Decodes(c)
          /\ Goto(c, "skipped")
          /\ UNCHANGED <<blocked, consumer, cancelled>>
    /\ UNCHANGED <<kafkaVars, storeVars, up, stopping, paused, owned, seen, low, horizon, nxt, top,
                   historyVars, budget>>

\* Mutants: the store is not asked; the last historical record counts as live.
HasSkipUnchecked(c) == nxt[c] < horizon[c]
HasSkipOffByOne(c) == nxt[c] + 1 < horizon[c] /\ nxt[c] \in skips

\* A durable skip is looked up for a record below the horizon only.
HasSkip(c) == nxt[c] < horizon[c] /\ nxt[c] \in skips

\* protocol.MatchesFilter: the record is to be delivered.
MatchesFilter(c) == nxt[c] \notin Excluded

\* The skip lookup, and the filter: an excluded record is terminal without an
\* attempt.
Skipped(c) ==
    /\ pc[c] = "skipped" /\ ~cancelled[c]
    /\ Goto(c, IF HasSkip(c) \/ ~MatchesFilter(c) THEN "commit" ELSE "send")
    /\ UNCHANGED <<kafkaVars, storeVars, controlVars, clientVars, owned, cancelled, seen, low,
                   horizon, nxt, top, historyVars, budget>>

\* LeaseTransport lets the attempt start.  An attempt it refuses fails, and the
\* processor sleeps and tries again.
Send(c) ==
    /\ pc[c] = "send" /\ ~cancelled[c] /\ Allowed(c)
    /\ Goto(c, "wait")
    /\ sent' = sent \cup {nxt[c]}
    /\ UNCHANGED <<kafkaVars, storeVars, controlVars, clientVars, owned, cancelled, seen, low,
                   horizon, nxt, top, acked, high, budget>>

\* protocol.Acknowledgement.  Retry is also the reading of a malformed body.
Acknowledgements == {"success", "keep_going", "retry"}

\* What completeRecord does next, by the acknowledgement.
AfterReply(ack) ==
    CASE ack = "success" -> "commit" [] ack = "keep_going" -> "audit" [] ack = "retry" -> "send"

\* The attempt ends with an acknowledgement.  An error status, a lost answer and
\* a lease deadline are retried too.
Reply(c) ==
    /\ pc[c] = "wait"
    /\ \E ack \in Acknowledgements :
         /\ Goto(c, AfterReply(ack))
         /\ acked' = IF ack = "success" THEN acked \cup {nxt[c]} ELSE acked
    /\ UNCHANGED <<kafkaVars, storeVars, controlVars, clientVars, owned, cancelled, seen, low,
                   horizon, nxt, top, sent, high, budget>>

\* SaveSkip, which may have inserted the row although the call fails.
SaveSkip(c) ==
    /\ pc[c] = "audit" /\ ~cancelled[c]
    /\ skips' = skips \cup {nxt[c]}
    /\ \/ Goto(c, "commit") \/ UNCHANGED pc
    /\ UNCHANGED <<kafkaVars, started, controlVars, clientVars, owned, cancelled, seen, low,
                   horizon, nxt, top, historyVars, budget>>

\* The commit of a processed record, retried until it succeeds or the worker's
\* context ends.
Commit(c) ==
    /\ pc[c] = "commit" /\ MayCommit(c)
    /\ Goto(c, "committing")
    /\ UNCHANGED <<kafkaVars, storeVars, controlVars, clientVars, owned, cancelled, seen, low,
                   horizon, nxt, top, historyVars, budget>>

\* The worker's context ends what the goroutine is doing.  A commit in flight
\* returns first: see CommitFails.
Abort(c) ==
    /\ cancelled[c] /\ pc[c] \notin {"none", "done"} \cup Committing
    /\ Goto(c, "done")
    /\ UNCHANGED <<kafkaVars, storeVars, controlVars, clientVars, owned, cancelled, seen, low,
                   horizon, nxt, top, historyVars, budget>>

-------------------------------------------------------------------------------
(* Environment: Kafka *)

Append ==
    /\ end < MaxOffset
    /\ end' = end + 1
    /\ UNCHANGED <<first, torn, committed, members, owner, late, storeVars, controlVars,
                   clientVars, workerVars, historyVars, budget>>

\* Records are deleted from the start of the partition.
Truncate ==
    /\ TruncateAnyTime \/ committed # None \/ \A c \in Clients : pc[c] = "none"
    /\ Spend("lose")
    /\ \E o \in first + 1 .. end : first' = o
    /\ UNCHANGED <<end, torn, committed, members, owner, late, storeVars, controlVars,
                   clientVars, workerVars, historyVars>>

\* Records the group has already committed are lost from the end.
TailLost ==
    /\ Spend("lose")
    /\ \E o \in first .. end : o < committed /\ end' = o
    /\ torn' = TRUE
    /\ UNCHANGED <<first, committed, members, owner, late, storeVars, controlVars, clientVars,
                   workerVars, historyVars>>

\* The offsets of a group without members expire or are deleted.
OffsetsLost ==
    /\ members = {} /\ committed # None
    /\ Spend("lose")
    /\ committed' = None
    /\ UNCHANGED <<first, end, torn, members, owner, late, storeVars, controlVars, clientVars,
                   workerVars, historyVars>>

\* The coordinator drops a member: its ownership ends at once, and the client
\* does not know it yet.
Drop(c) ==
    /\ c \in members
    /\ members' = members \ {c}
    /\ Release(c)
    /\ UNCHANGED <<first, end, torn, committed, storeVars, controlVars, clientVars, workerVars,
                   historyVars>>

EvictLive(c) == consumer[c] # "down" /\ Spend("evict") /\ Drop(c)

EvictDead(c) == consumer[c] = "down" /\ Drop(c) /\ UNCHANGED budget

-------------------------------------------------------------------------------
(* Environment: the process and its control service *)

\* The process dies: what it holds in memory is gone, the coordinator still
\* counts it as a member, a commit it sent may still be handled.
Crash(c) ==
    /\ consumer[c] # "down"
    /\ Spend("crash")
    /\ ClearWorker(c)
    /\ consumer' = [consumer EXCEPT ![c] = "down"]
    /\ stopping' = [stopping EXCEPT ![c] = "no"]
    /\ paused' = [paused EXCEPT ![c] = FALSE]
    /\ \/ UNCHANGED late
       \/ /\ pc[c] \in Committing /\ c \in members
          /\ late' = [late EXCEPT ![c] = Target(c)]
    /\ UNCHANGED <<first, end, torn, committed, members, owner, storeVars, controlVars,
                   historyVars>>

\* Consumer.Cancel: the subscription is paused, a dependency is lost, the process
\* ends - or the source is blocked, which stops its consumer for good.
Stop(c) ==
    /\ consumer[c] = "up"
    /\ IF c \in blocked THEN UNCHANGED budget ELSE Spend("stop")
    /\ Cancel(c)
    /\ UNCHANGED <<kafkaVars, storeVars, controlVars, stopping, paused, pc, owned, seen, low,
                   horizon, nxt, top, historyVars>>

\* The lease runs out or a dependency is lost, and comes back.
GateDown(c) ==
    /\ up[c] /\ Spend("gate")
    /\ up' = [up EXCEPT ![c] = FALSE]
    /\ UNCHANGED <<kafkaVars, storeVars, blocked, clientVars, workerVars, historyVars>>

GateUp(c) ==
    /\ ~up[c]
    /\ up' = [up EXCEPT ![c] = TRUE]
    /\ UNCHANGED <<kafkaVars, storeVars, blocked, clientVars, workerVars, historyVars, budget>>

\* A block is durable: the other processes read it from the control store.
LearnBlock(c) ==
    /\ blocked # {} /\ c \notin blocked
    /\ blocked' = blocked \cup {c}
    /\ UNCHANGED <<kafkaVars, storeVars, up, clientVars, workerVars, historyVars, budget>>

-------------------------------------------------------------------------------
WorkerStep(c) ==
    \/ FetchOffsets(c) \/ ListOffsets(c) \/ PartitionStarted(c) \/ MarkPartitionStarted(c)
    \/ InitializeFails(c)
    \/ Process(c) \/ Skipped(c) \/ Send(c) \/ Reply(c) \/ SaveSkip(c) \/ Commit(c)
    \/ CommitOk(c) \/ CommitFails(c) \/ ResumeFetch(c) \/ Abort(c)

ConsumerStep(c) ==
    \/ Join(c) \/ OnAssigned(c) \/ OnRevoked(c) \/ OnLost(c) \/ RunReturns(c)
    \/ Disown(c) \/ EndStop(c)
    \/ ResolvePosition(c) \/ PollRecords(c) \/ PollFails(c)

EnvironmentStep(c) ==
    \/ LateCommit(c) \/ EvictLive(c) \/ EvictDead(c) \/ Crash(c) \/ Stop(c)
    \/ GateDown(c) \/ GateUp(c) \/ LearnBlock(c)

Next ==
    \/ \E c \in Clients : WorkerStep(c) \/ ConsumerStep(c) \/ EnvironmentStep(c)
    \/ Append \/ Truncate \/ TailLost \/ OffsetsLost

Spec == Init /\ [][Next]_vars

-------------------------------------------------------------------------------
(* Fairness *)

\* A call to Kafka, the control store or the destination fails although nothing
\* forces it to (the coordinator refuses every commit of a client it dropped).
CallFails(c) ==
    \/ InitializeFails(c)
    \/ MarkPartitionStarted(c) /\ pc'[c] = "fetch"
    \/ c \in members /\ CommitFails(c)
    \/ Reply(c) /\ pc'[c] = "send"
    \/ SaveSkip(c) /\ pc'[c] = "audit"

\* What a running system goes on doing: goroutines proceed, the control service
\* keeps a consumer running for a source that is not blocked, the coordinator
\* assigns the partition and drops dead members.  Calls fail any number of
\* times, but not forever.
Fairness ==
    /\ \A c \in Clients :
         /\ WF_vars(WorkerStep(c))
         /\ WF_vars(Join(c))
         /\ WF_vars(OnLost(c) \/ RunReturns(c) \/ Disown(c) \/ EndStop(c))
         /\ WF_vars(ResolvePosition(c) \/ PollRecords(c) \/ PollFails(c))
         /\ WF_vars(EvictDead(c))
         /\ WF_vars(GateUp(c))
    /\ WF_vars(\E c \in Clients : OnAssigned(c))
    /\ <>[][ \A c \in Clients : ~CallFails(c) ]_vars

LiveSpec == Spec /\ Fairness

-------------------------------------------------------------------------------
(* Properties *)

KafkaTypes ==
    /\ first \in Nat /\ end \in Nat /\ torn \in BOOLEAN
    /\ committed \in Nat \cup {None}
    /\ members \subseteq Clients /\ owner \in Clients \cup {NoOne}
    /\ late \in [Clients -> Nat \cup {None}]

StoreTypes == started \in BOOLEAN /\ skips \subseteq Nat

ControlTypes == up \in [Clients -> BOOLEAN] /\ blocked \subseteq Clients

ConsumerTypes ==
    /\ consumer \in [Clients -> {"down", "up", "halted"}]
    /\ stopping \in [Clients -> {"no", "revoke", "lost", "close"}]
    /\ paused \in [Clients -> BOOLEAN]
    /\ pc \in [Clients -> PCs]
    /\ owned \in [Clients -> BOOLEAN] /\ cancelled \in [Clients -> BOOLEAN]

PositionTypes ==
    /\ seen \in [Clients -> Nat \cup {None}]
    /\ low \in [Clients -> Nat] /\ horizon \in [Clients -> Nat]
    /\ nxt \in [Clients -> Nat \cup {None}] /\ top \in [Clients -> Nat \cup {None}]
    /\ \A c \in Clients :
         /\ nxt[c] = None <=> top[c] = None
         /\ pc[c] \in Processing => nxt[c] # None

HistoryTypes ==
    /\ sent \subseteq Nat /\ acked \subseteq Nat /\ high \in Nat
    /\ budget \in [FaultKinds -> Nat]

\* Every variable has its type, and a worker that processes a record has a
\* fetch position (partitionWorker, Consumer).
TypeOK ==
    /\ KafkaTypes /\ StoreTypes /\ ControlTypes
    /\ ConsumerTypes /\ PositionTypes /\ HistoryTypes

\* No record is lost: every offset the group has ever committed past was
\* acknowledged, excluded by the filter, or has its skip in the control store
\* (completeRecord's order; "saved before its offset is committed").  A record
\* that cannot be decoded is never passed.
CommittedIsSettled ==
    /\ committed <= high
    /\ \A o \in 0 .. high - 1 : o \in (Settled \cup Excluded) \ Malformed

\* Each partition delivers in order: when a record has been put on the wire,
\* by whichever process, everything ahead of it is finished.
DeliveredInOrder ==
    \A o \in sent : \A p \in 0 .. o - 1 : p \in Settled \cup Excluded

\* Across rebalances, crashes and commits that outlive their caller, the
\* committed offset moves only forward and only by one record; the exceptions
\* are the baseline of a partition and the loss of the group's offsets.
CommitMovesByOne ==
    [][ committed' # committed =>
          \/ committed # None /\ committed' = committed + 1
          \/ committed = None /\ committed' = 0
          \/ OffsetsLost ]_vars

\* "A lost owner never commits": the committed offset changes only while the
\* coordinator counts some client as the owner, and that client asked for it.
OnlyOwnerCommits ==
    [][ committed' \notin {committed, None} =>
          /\ owner # NoOne
          /\ \/ committed' = late[owner]
             \/ pc[owner] \in Committing /\ committed' = Target(owner) ]_vars

\* A group that has made progress is never given a fresh baseline: when its
\* offsets are lost they stay lost, whichever worker initializes next, and the
\* source gets blocked instead (initialize, PartitionStore).
NeverRebaselined ==
    [][ committed = None /\ high > 0 => committed' = None ]_vars

\* A source is blocked only when history is gone, from either end or with the
\* offsets of a started partition, or when a record cannot be decoded (the
\* comment on PartitionStore: "A started partition with no committed offset has
\* lost history, so its source is blocked").
BlockedForCause ==
    blocked # {} =>
        \/ first > 0 \/ torn
        \/ started /\ committed = None
        \/ \E o \in Malformed : o < end

\* A record whose skip is stored is not put on the wire again (completeRecord,
\* step 1, and the comment on RawRecord.Historical).  When committed history is
\* lost from the end, its offsets are given to other records.
SkippedNotResent ==
    [][ \A c \in Clients :
          pc[c] = "send" /\ pc'[c] = "wait" => nxt[c] \notin skips \/ torn ]_vars

\* A worker's partition is fetched exactly when the worker has nothing left to do
\* with its last batch, whatever the worker before it left behind: so Run finds
\* room in w.batches and never waits for a worker while it holds off rebalances,
\* and no partition stays paused for good (Run, run, onAssigned).
PausedWhileBusy ==
    \A c \in Clients :
      pc[c] \notin {"none", "done"} =>
        (paused[c] <=> nxt[c] < top[c] \/ pc[c] = "resume")

\* Every record of the partition is eventually committed past, or the source
\* is blocked: history that was lost is found out, never waited for.
EventuallyCommitted ==
    \A o \in 0 .. MaxOffset - 1 : o < end ~> (committed > o \/ blocked # {})

\* What the destination and the group see is ordered at-least-once delivery.
Ordered == INSTANCE OrderedDelivery WITH
               Offsets <- 0 .. MaxOffset, Excluded <- Excluded,
               settled <- Settled, frontier <- high

ImplementsOrderedDelivery == Ordered!Spec
==============================================================================
