------------------------------- MODULE Control -------------------------------
(***************************************************************************)
(* The control loop of Postie's workers (internal/control) over the control *)
(* store (internal/adapters/controlpg): one subscription, and the source it *)
(* consumes.                                                                *)
(*                                                                          *)
(* A worker is one Service with its own worker ID; a process that restarts  *)
(* is another worker.  Each worker interleaves its reconcile loop, its      *)
(* consumer, calls of Block and one operator request (Change).  Every call  *)
(* to the store, Kafka or the source may fail, and a write that fails for   *)
(* its caller may have been applied.                                        *)
(***************************************************************************)
EXTENDS Integers

CONSTANTS Workers,      \* worker IDs
          Budgets       \* bound: processes, requests and faults of each kind; a
                        \* behaviour has one of these budgets

EventKinds == {"start", "change", "call", "consumer", "block", "crash", "shutdown", "expire"}

ASSUME BudgetAssumption == Budgets \subseteq [EventKinds -> Nat]

Running == "running"
Paused  == "paused"

\* Callers of Block: the reconcile loop and the consumer.
Callers == {"loop", "consumer"}

NoRow         == [desired |-> "none", revision |-> 0]
NoObservation == [state |-> "none", revision |-> 0]
NoRequest     == [state |-> "none", revision |-> 0, at |-> "none"]

VARIABLES
    \* control store
    row,            \* postie_subscriptions: desired state and its revision
    lease,          \* workers with an unexpired row of postie_worker_leases
    observed,       \* postie_worker_subscriptions: what each worker reported
    registered,     \* postie_streams has the source's registration
    durable,        \* ... with a block reason
    \* reconcile loop
    pc,             \* where the loop of each worker is
    ending,         \* the context of Start has ended
    renewed, snap,  \* what this pass got from RenewLease and Subscriptions
    found,          \* what this pass got from GetStream
    \* Service, guarded by mu
    control, kafka, fence,  \* Status.Control, Status.Kafka, now < leaseUntil
    latch,          \* streams[source].Blocked # ""
    source,         \* sourceStates[source]
    view, wanted,   \* subscription.view.State, .DesiredState
    applied,        \* subscription.revision
    status,         \* Status.Status
    \* other goroutines
    consumer,       \* subscription.consumer
    blocking,       \* calls of Block under way
    request,        \* the call of Change under way
    \* history, read by the properties only
    lapsed,         \* workers whose lease ran out while they were alive
    confirmed,      \* the last revision for which Change reported a pause
    budget          \* requests and faults left

storeVars   == <<row, lease, observed, registered, durable>>
passVars    == <<renewed, snap, found>>
gateVars    == <<control, kafka, fence>>
sourceVars  == <<latch, source>>
subVars     == <<view, wanted, applied>>
historyVars == <<lapsed, confirmed>>
vars == <<storeVars, pc, ending, passVars, gateVars, sourceVars, subVars, status,
          consumer, blocking, request, historyVars, budget>>

Init ==
    /\ row = NoRow /\ lease = {} /\ registered = FALSE /\ durable = FALSE
    /\ observed = [w \in Workers |-> NoObservation]
    /\ pc = [w \in Workers |-> "off"]
    /\ ending = [w \in Workers |-> FALSE]
    /\ renewed = [w \in Workers |-> FALSE]
    /\ snap = [w \in Workers |-> NoRow]
    /\ found = [w \in Workers |-> "none"]
    /\ control = [w \in Workers |-> FALSE]
    /\ kafka = [w \in Workers |-> FALSE]
    /\ fence = [w \in Workers |-> FALSE]
    /\ latch = [w \in Workers |-> FALSE]
    /\ source = [w \in Workers |-> "starting"]
    /\ view = [w \in Workers |-> "starting"]
    /\ wanted = [w \in Workers |-> "none"]
    /\ applied = [w \in Workers |-> 0]
    /\ status = [w \in Workers |-> "starting"]
    /\ consumer = [w \in Workers |-> "none"]
    /\ blocking = [w \in Workers |-> [k \in Callers |-> "no"]]
    /\ request = [w \in Workers |-> NoRequest]
    /\ lapsed = {} /\ confirmed = 0
    /\ budget \in Budgets

-------------------------------------------------------------------------------
(* Helpers *)

Spend(kind) ==
    /\ budget[kind] > 0
    /\ budget' = [budget EXCEPT ![kind] = @ - 1]

Goto(w, label) == pc' = [pc EXCEPT ![w] = label]

Alive(w) == pc[w] \notin {"off", "dead"}

\* A call of the loop succeeds.  Its context must not have ended.
Succeeds(w) == ~ending[w] /\ UNCHANGED budget

\* A call of the loop fails, because its context has ended or by itself.
Fails(w) == IF ending[w] THEN UNCHANGED budget ELSE Spend("call")

\* The dispatch fence.
Allowed(w) == control[w] /\ kafka[w] /\ fence[w] /\ source[w] = "running"

Live == {"starting", "ready"}

\* A live consumer of w may start an attempt.
Delivering(w) == consumer[w] \in Live /\ Allowed(w)

\* sourceState: a latched block overrides what the caller observed.
SourceState(w, state) ==
    source' = [source EXCEPT ![w] = IF latch[w] THEN "blocked" ELSE state]

\* store.BlockSource: it may fail, with or without effect.
BlockSource ==
    \/ durable' = (durable \/ registered) /\ UNCHANGED budget
    \/ durable' \in {durable, durable \/ registered} /\ Spend("call")

\* Mutant: only the subscriptions count.
StatusOfSubscriptions(w) ==
    IF view[w] \in {Running, Paused} THEN "ready" ELSE "degraded"

overallStatus(w) ==
    IF source[w] = "running" /\ view[w] \in {Running, Paused} THEN "ready" ELSE "degraded"

\* stopAll and rest wait in Stop for the consumer, and so for a Block it calls.
Stopped(w) == blocking[w]["consumer"] = "no"

-------------------------------------------------------------------------------
(* Service: New, Start, refreshDependencies *)

\* A row that is there is kept.
EnsureSubscriptions ==
    row' = IF row = NoRow THEN [desired |-> Running, revision |-> 1] ELSE row

New(w) ==
    /\ pc[w] = "off" /\ Spend("start")
    /\ EnsureSubscriptions
    /\ Goto(w, "idle")
    /\ UNCHANGED <<lease, observed, registered, durable, ending, passVars, gateVars, sourceVars,
                   subVars, status, consumer, blocking, request, historyVars>>

\* A pass starts, on a tick or a signal, and renews the lease before anything
\* else.
RenewLease(w) ==
    /\ pc[w] = "idle"
    /\ Goto(w, "refresh")
    /\ \/ /\ Succeeds(w)
          /\ lease' = lease \cup {w}
          /\ renewed' = [renewed EXCEPT ![w] = TRUE]
       \/ /\ Fails(w)
          /\ lease' \in {lease, lease \cup {w}}
          /\ renewed' = [renewed EXCEPT ![w] = FALSE]
    /\ UNCHANGED <<row, observed, registered, durable, ending, snap, found, gateVars, sourceVars,
                   subVars, status, consumer, blocking, request, historyVars>>

\* The pass reads the desired state.
Subscriptions(w) == snap' = [snap EXCEPT ![w] = row]

\* Mutant: the error of Subscriptions is dropped.
RefreshUnread(w) ==
    /\ pc[w] = "refresh"
    /\ \/ Succeeds(w) /\ Subscriptions(w)
       \/ Fails(w) /\ UNCHANGED snap
    /\ control' = [control EXCEPT ![w] = renewed[w]]
    /\ kafka' = [kafka EXCEPT ![w] = TRUE]
    /\ Goto(w, IF renewed[w] THEN "inspect" ELSE "degrade")
    /\ fence' = [fence EXCEPT ![w] = @ \/ renewed[w]]
    /\ renewed' = [renewed EXCEPT ![w] = FALSE]
    /\ UNCHANGED <<storeVars, ending, found, sourceVars, subVars, status, consumer, blocking,
                   request, historyVars>>

\* The desired state is read, Kafka answers or not, and the critical section
\* publishes what was found.
RefreshDependencies(w) ==
    /\ pc[w] = "refresh"
    /\ \/ /\ Succeeds(w) /\ renewed[w]
          /\ Subscriptions(w)
          /\ control' = [control EXCEPT ![w] = TRUE]
          /\ kafka' = [kafka EXCEPT ![w] = TRUE]
          /\ Goto(w, "inspect")
       \/ /\ IF renewed[w] THEN Fails(w) ELSE UNCHANGED budget
          /\ \E read, up \in BOOLEAN :
               /\ renewed[w] => ~(read /\ up)
               /\ control' = [control EXCEPT ![w] = renewed[w] /\ read]
               /\ kafka' = [kafka EXCEPT ![w] = up]
          /\ UNCHANGED snap
          /\ Goto(w, "degrade")
    /\ fence' = [fence EXCEPT ![w] = @ \/ renewed[w]]
    /\ renewed' = [renewed EXCEPT ![w] = FALSE]
    /\ UNCHANGED <<storeVars, ending, found, sourceVars, subVars, status, consumer, blocking,
                   request, historyVars>>

-------------------------------------------------------------------------------
(* Service: inspectSource, Block *)

\* The pass asks the store for the registration of a source.
GetStream(w) ==
    /\ Goto(w, "cache")
    /\ \/ Fails(w) /\ found' = [found EXCEPT ![w] = "error"]
       \/ /\ Succeeds(w)
          /\ found' = [found EXCEPT ![w] = IF ~registered THEN "missing"
                                           ELSE IF durable THEN "blocked" ELSE "clear"]

\* Mutant: a block that did not reach the store is not written again.
InspectSourceOnce(w) ==
    /\ pc[w] = "inspect"
    /\ \/ latch[w] /\ Goto(w, "apply") /\ UNCHANGED <<found, durable, budget>>
       \/ ~latch[w] /\ GetStream(w) /\ UNCHANGED durable
    /\ UNCHANGED <<row, lease, observed, registered, ending, renewed, snap, gateVars, sourceVars,
                   subVars, status, consumer, blocking, request, historyVars>>

\* A source that is blocked here is written to the store again; otherwise the
\* store is asked.
InspectSource(w) ==
    /\ pc[w] = "inspect"
    /\ \/ /\ latch[w] /\ Goto(w, "apply") /\ UNCHANGED found
          /\ BlockSource \/ (ending[w] /\ UNCHANGED <<durable, budget>>)
       \/ ~latch[w] /\ GetStream(w) /\ UNCHANGED durable
    /\ UNCHANGED <<row, lease, observed, registered, ending, renewed, snap, gateVars, sourceVars,
                   subVars, status, consumer, blocking, request, historyVars>>

\* Mutant: the stored registration replaces the cached one, block and all.
MergedForgets(w) == found[w] = "blocked"

\* cacheStream keeps a block that was raised while GetStream was in flight.
Merged(w) == latch[w] \/ found[w] = "blocked"

\* cacheStream, and sourceState where the registration settles the matter.
CacheStream(w) ==
    /\ pc[w] = "cache"
    /\ \/ /\ found[w] = "error" /\ SourceState(w, "unavailable")
          /\ Goto(w, "apply") /\ UNCHANGED latch
       \/ /\ found[w] = "missing" /\ SourceState(w, "blocked")
          /\ Goto(w, "apply") /\ UNCHANGED latch
       \/ /\ found[w] \in {"clear", "blocked"}
          /\ latch' = [latch EXCEPT ![w] = Merged(w)]
          /\ IF Merged(w)
               THEN source' = [source EXCEPT ![w] = "blocked"] /\ Goto(w, "apply")
               ELSE UNCHANGED source /\ Goto(w, "monitor")
    /\ found' = [found EXCEPT ![w] = "none"]
    /\ UNCHANGED <<storeVars, ending, renewed, snap, gateVars, subVars, status, consumer,
                   blocking, request, historyVars, budget>>

\* The monitor's verdict on the source is its own: any of the three.
Monitor(w) ==
    /\ pc[w] = "monitor"
    /\ \/ \E state \in {"running", "unavailable"} :
            /\ IF state = "running" THEN Succeeds(w) ELSE Fails(w)
            /\ SourceState(w, state) /\ Goto(w, "apply")
            /\ UNCHANGED <<latch, blocking>>
       \/ /\ Spend("block")
          /\ latch' = [latch EXCEPT ![w] = TRUE]
          /\ blocking' = [blocking EXCEPT ![w]["loop"] = "latched"]
          /\ Goto(w, "blocking")
          /\ UNCHANGED source
    /\ UNCHANGED <<storeVars, ending, passVars, gateVars, subVars, status, consumer, request,
                   historyVars>>

\* Block, called by a consumer: in memory first.
Block(w) ==
    /\ Alive(w) /\ consumer[w] \in Live /\ Stopped(w) /\ ~latch[w]
    /\ Spend("block")
    /\ latch' = [latch EXCEPT ![w] = TRUE]
    /\ blocking' = [blocking EXCEPT ![w]["consumer"] = "latched"]
    /\ UNCHANGED <<storeVars, pc, ending, passVars, gateVars, source, subVars, status, consumer,
                   request, historyVars>>

\* ... then its source state ...
BlockState(w, k) ==
    /\ blocking[w][k] = "latched"
    /\ blocking' = [blocking EXCEPT ![w][k] = "marked"]
    /\ SourceState(w, "blocked")
    /\ UNCHANGED <<storeVars, pc, ending, passVars, gateVars, latch, subVars, status, consumer,
                   request, historyVars, budget>>

\* ... then in the store, once.
BlockStore(w, k) ==
    /\ blocking[w][k] = "marked"
    /\ blocking' = [blocking EXCEPT ![w][k] = "no"]
    /\ BlockSource
    /\ IF k = "loop" THEN Goto(w, "apply") ELSE UNCHANGED pc
    /\ UNCHANGED <<row, lease, observed, registered, ending, passVars, gateVars, sourceVars,
                   subVars, status, consumer, request, historyVars>>

-------------------------------------------------------------------------------
(* Service: reconcileSubscription *)

\* Must the subscription rest?
Rests(w) == snap[w].desired = Paused \/ source[w] # "running"

restingState(w) == IF snap[w].desired = Paused THEN Paused ELSE "blocked"

\* rest: the consumer is gone, and a resting state applies the revision.
Rest(w) ==
    /\ consumer' = [consumer EXCEPT ![w] = "none"]
    /\ view' = [view EXCEPT ![w] = restingState(w)]
    /\ applied' = [applied EXCEPT ![w] = snap[w].revision]
    /\ Goto(w, "report")

\* markProgress: only a ready consumer applies the revision.  Ready does not
\* look at Finished.
MarkProgress(w) ==
    /\ \/ /\ consumer[w] \in {"ready", "finished"}
          /\ view' = [view EXCEPT ![w] = Running]
          /\ applied' = [applied EXCEPT ![w] = snap[w].revision]
       \/ /\ consumer[w] \in {"starting", "finished"}
          /\ view' = [view EXCEPT ![w] = "starting"]
          /\ UNCHANGED applied
    /\ Goto(w, "report")

\* Mutant: a finished consumer is kept.
EnsureConsumerKept(w) ==
    \/ /\ consumer[w] # "none"
       /\ MarkProgress(w)
       /\ UNCHANGED <<consumer, budget>>
    \/ /\ consumer[w] = "none"
       /\ consumer' = [consumer EXCEPT ![w] = "starting"]
       /\ view' = [view EXCEPT ![w] = "starting"]
       /\ Goto(w, "progress")
       /\ UNCHANGED <<applied, budget>>

\* ensureConsumer: a live consumer is kept; a finished one is replaced; the new
\* one may fail.
EnsureConsumer(w) ==
    \/ /\ consumer[w] \in Live
       /\ MarkProgress(w)
       /\ UNCHANGED <<consumer, budget>>
    \/ /\ consumer[w] \in {"none", "finished"} /\ Stopped(w)
       /\ consumer' = [consumer EXCEPT ![w] = "starting"]
       /\ view' = [view EXCEPT ![w] = "starting"]
       /\ Goto(w, "progress")
       /\ UNCHANGED <<applied, budget>>
    \/ /\ consumer[w] \in {"none", "finished"} /\ Stopped(w)
       /\ Spend("call")
       /\ consumer' = [consumer EXCEPT ![w] = "none"]
       /\ view' = [view EXCEPT ![w] = "blocked"]
       /\ Goto(w, "report")
       /\ UNCHANGED applied

\* The subscription takes one step towards the desired state that this pass
\* read - unless the context has ended.
ReconcileSubscription(w) ==
    /\ pc[w] = "apply"
    /\ \/ /\ ending[w] /\ Goto(w, "degrade")
          /\ UNCHANGED <<view, wanted, applied, consumer, budget>>
       \/ /\ ~ending[w]
          /\ wanted' = [wanted EXCEPT ![w] = snap[w].desired]
          /\ \/ ~Rests(w) /\ EnsureConsumer(w)
             \/ Rests(w) /\ consumer[w] = "none" /\ Rest(w) /\ UNCHANGED budget
             \/ /\ Rests(w) /\ consumer[w] # "none"
                /\ view' = [view EXCEPT ![w] = "pausing"]
                /\ Goto(w, "stop")
                /\ UNCHANGED <<applied, consumer, budget>>
    /\ UNCHANGED <<storeVars, ending, passVars, gateVars, sourceVars, status, blocking, request,
                   historyVars>>

\* Consumer.Stop returns.
RestStopped(w) ==
    /\ pc[w] = "stop" /\ Stopped(w)
    /\ Rest(w)
    /\ UNCHANGED <<storeVars, ending, passVars, gateVars, sourceVars, wanted, status, blocking,
                   request, historyVars, budget>>

\* A consumer that was just started is asked whether it is ready.
ConsumerStarted(w) ==
    /\ pc[w] = "progress"
    /\ MarkProgress(w)
    /\ UNCHANGED <<storeVars, ending, passVars, gateVars, sourceVars, wanted, status, consumer,
                   blocking, request, historyVars, budget>>

\* The upsert keeps an observation of a newer revision.
ObserveSubscription(w) ==
    IF applied[w] < observed[w].revision
      THEN UNCHANGED observed
      ELSE observed' = [observed EXCEPT ![w] = [state |-> view[w], revision |-> applied[w]]]

\* The pass ends: the state reached is reported, and the status published.
\* There is nothing to report before the first revision is applied.
ReportObservations(w) ==
    /\ pc[w] = "report"
    /\ \/ /\ IF applied[w] = 0 THEN UNCHANGED <<observed, budget>>
                              ELSE Succeeds(w) /\ ObserveSubscription(w)
          /\ status' = [status EXCEPT ![w] = overallStatus(w)]
          /\ Goto(w, "idle")
          /\ UNCHANGED control
       \/ /\ applied[w] > 0 /\ Fails(w)
          /\ ObserveSubscription(w) \/ UNCHANGED observed
          /\ control' = [control EXCEPT ![w] = FALSE]
          /\ Goto(w, "degrade")
          /\ UNCHANGED status
    /\ snap' = [snap EXCEPT ![w] = NoRow]
    /\ UNCHANGED <<row, lease, registered, durable, ending, renewed, found, kafka, fence,
                   sourceVars, subVars, consumer, blocking, request, historyVars>>

-------------------------------------------------------------------------------
(* Service: degrade, stopAll, releaseLease *)

\* stopAll, once every consumer has returned from Stop.
StopAll(w) ==
    /\ Stopped(w)
    /\ IF consumer[w] = "none"
         THEN UNCHANGED <<consumer, view>>
         ELSE /\ consumer' = [consumer EXCEPT ![w] = "none"]
              /\ view' = [view EXCEPT ![w] = "blocked"]

Degrade(w) ==
    /\ pc[w] = "degrade"
    /\ StopAll(w)
    /\ status' = [status EXCEPT ![w] = "degraded"]
    /\ snap' = [snap EXCEPT ![w] = NoRow]
    /\ Goto(w, "idle")
    /\ UNCHANGED <<storeVars, ending, renewed, found, gateVars, sourceVars, wanted, applied,
                   blocking, request, historyVars, budget>>

\* Mutant: the lease is released before the consumers are stopped.
LeaveReleasesFirst(w) ==
    /\ pc[w] = "idle" /\ ending[w]
    /\ lease' = lease \ {w}
    /\ observed' = [observed EXCEPT ![w] = NoObservation]
    /\ Goto(w, "release")
    /\ UNCHANGED <<row, registered, durable, ending, passVars, gateVars, sourceVars, subVars,
                   status, consumer, blocking, request, historyVars, budget>>

\* The context of Start has ended, and its loop stops every consumer.
Leave(w) ==
    /\ pc[w] = "idle" /\ ending[w]
    /\ StopAll(w)
    /\ Goto(w, "release")
    /\ UNCHANGED <<storeVars, ending, passVars, gateVars, sourceVars, wanted, applied, status,
                   blocking, request, historyVars, budget>>

\* What a worker holds in memory ends with its process.
Forget(w) ==
    /\ Goto(w, "dead")
    /\ ending' = [ending EXCEPT ![w] = FALSE]
    /\ renewed' = [renewed EXCEPT ![w] = FALSE]
    /\ snap' = [snap EXCEPT ![w] = NoRow]
    /\ found' = [found EXCEPT ![w] = "none"]
    /\ control' = [control EXCEPT ![w] = FALSE]
    /\ kafka' = [kafka EXCEPT ![w] = FALSE]
    /\ fence' = [fence EXCEPT ![w] = FALSE]
    /\ latch' = [latch EXCEPT ![w] = FALSE]
    /\ source' = [source EXCEPT ![w] = "starting"]
    /\ view' = [view EXCEPT ![w] = "starting"]
    /\ wanted' = [wanted EXCEPT ![w] = "none"]
    /\ applied' = [applied EXCEPT ![w] = 0]
    /\ status' = [status EXCEPT ![w] = "starting"]
    /\ consumer' = [consumer EXCEPT ![w] = "none"]
    /\ blocking' = [blocking EXCEPT ![w] = [k \in Callers |-> "no"]]
    /\ request' = [request EXCEPT ![w] = NoRequest]

\* The lease and the observations go in one transaction; the process ends
\* whether or not it succeeds.
ReleaseLease(w) ==
    /\ pc[w] = "release"
    /\ \/ UNCHANGED <<lease, observed>> /\ Spend("call")
       \/ /\ UNCHANGED budget
          /\ lease' = lease \ {w}
          /\ observed' = [observed EXCEPT ![w] = NoObservation]
    /\ Forget(w)
    /\ UNCHANGED <<row, registered, durable, historyVars>>

-------------------------------------------------------------------------------
(* Service: Change, awaitConvergence *)

\* The revision advances only when the state changes.
SetDesired(state) ==
    row' = [desired |-> state,
            revision |-> row.revision + IF row.desired = state THEN 0 ELSE 1]

Change(w, state) ==
    /\ Alive(w) /\ request[w] = NoRequest
    /\ Spend("change")
    /\ SetDesired(state)
    /\ \/ /\ request' = [request EXCEPT ![w] = [state |-> state, revision |-> row'.revision,
                                             at |-> "poll"]]
       \/ UNCHANGED request
    /\ UNCHANGED <<lease, observed, registered, durable, pc, ending, passVars, gateVars,
                   sourceVars, subVars, status, consumer, blocking, historyVars>>

\* This worker has applied the revision: the store is asked about the others.
LocallyConverged(w) ==
    /\ request[w].at = "poll"
    /\ applied[w] >= request[w].revision
    /\ view[w] = request[w].state /\ wanted[w] = request[w].state
    /\ request' = [request EXCEPT ![w].at = "ask"]
    /\ UNCHANGED <<storeVars, pc, ending, passVars, gateVars, sourceVars, subVars, status,
                   consumer, blocking, historyVars, budget>>

\* Mutant: an inner join, which leaves out workers that have reported nothing.
ObservedByReporters(r, state) ==
    /\ lease # {}
    /\ \A w \in lease : observed[w].revision = 0
                       \/ (observed[w].revision >= r /\ observed[w].state = state)

\* Some lease has not expired, and every worker that holds one has reported the
\* state for this revision or a later one.
SubscriptionObserved(r, state) ==
    lease # {} /\ \A w \in lease : observed[w].revision >= r /\ observed[w].state = state

Return(w) == request' = [request EXCEPT ![w] = NoRequest]

\* Change returns nil.
Converged(w) ==
    /\ request[w].at = "ask"
    /\ SubscriptionObserved(request[w].revision, request[w].state)
    /\ Return(w)
    /\ confirmed' = IF request[w].state = Paused THEN request[w].revision ELSE confirmed
    /\ UNCHANGED <<storeVars, pc, ending, passVars, gateVars, sourceVars, subVars, status,
                   consumer, blocking, lapsed, budget>>

NotConverged(w) ==
    /\ request[w].at = "ask"
    /\ ~SubscriptionObserved(request[w].revision, request[w].state)
    /\ request' = [request EXCEPT ![w].at = "poll"]
    /\ UNCHANGED <<storeVars, pc, ending, passVars, gateVars, sourceVars, subVars, status,
                   consumer, blocking, historyVars, budget>>

\* Change returns an error: a newer request has replaced this one, the store
\* cannot be asked, the caller's context ends.
ChangeFails(w) ==
    /\ request[w] # NoRequest
    /\ Return(w)
    /\ UNCHANGED <<storeVars, pc, ending, passVars, gateVars, sourceVars, subVars, status,
                   consumer, blocking, historyVars, budget>>

-------------------------------------------------------------------------------
(* Environment *)

\* The consumer of w joins its group and initializes its partitions, is
\* assigned others, or returns from Run.
ConsumerStep(w) ==
    /\ \/ /\ consumer[w] = "starting" /\ consumer' = [consumer EXCEPT ![w] = "ready"]
          /\ UNCHANGED budget
       \/ /\ consumer[w] = "ready" /\ Spend("consumer")
          /\ consumer' = [consumer EXCEPT ![w] = "starting"]
       \/ /\ consumer[w] \in Live /\ Stopped(w)
          /\ consumer' = [consumer EXCEPT ![w] = "finished"]
          /\ IF ending[w] \/ ~Allowed(w) THEN UNCHANGED budget ELSE Spend("consumer")
    /\ UNCHANGED <<storeVars, pc, ending, passVars, gateVars, sourceVars, subVars, status,
                   blocking, request, historyVars>>

\* The provisioner registers the stream.
Register ==
    /\ ~registered /\ registered' = TRUE
    /\ UNCHANGED <<row, lease, observed, durable, pc, ending, passVars, gateVars, sourceVars,
                   subVars, status, consumer, blocking, request, historyVars, budget>>

\* The stored lease runs out.
LeaseExpires(w) ==
    /\ w \in lease
    /\ lease' = lease \ {w}
    /\ IF Alive(w) THEN Spend("expire") /\ lapsed' = lapsed \cup {w}
                   ELSE UNCHANGED <<lapsed, budget>>
    /\ UNCHANGED <<row, observed, registered, durable, pc, ending, passVars, gateVars,
                   sourceVars, subVars, status, consumer, blocking, request, confirmed>>

\* leaseUntil passes: computed after RenewLease returned, it is not earlier
\* than the stored expiry.
FenceExpires(w) ==
    /\ fence[w] /\ w \notin lease
    /\ fence' = [fence EXCEPT ![w] = FALSE]
    /\ UNCHANGED <<storeVars, pc, ending, passVars, control, kafka, sourceVars, subVars, status,
                   consumer, blocking, request, historyVars, budget>>

Shutdown(w) ==
    /\ Alive(w) /\ ~ending[w] /\ Spend("shutdown")
    /\ ending' = [ending EXCEPT ![w] = TRUE]
    /\ UNCHANGED <<storeVars, pc, passVars, gateVars, sourceVars, subVars, status, consumer,
                   blocking, request, historyVars>>

Crash(w) ==
    /\ Alive(w) /\ Spend("crash")
    /\ Forget(w)
    /\ UNCHANGED <<storeVars, historyVars>>

-------------------------------------------------------------------------------
LoopStep(w) ==
    \/ RenewLease(w) \/ RefreshDependencies(w)
    \/ InspectSource(w) \/ CacheStream(w) \/ Monitor(w)
    \/ ReconcileSubscription(w) \/ RestStopped(w) \/ ConsumerStarted(w)
    \/ ReportObservations(w) \/ Degrade(w) \/ Leave(w) \/ ReleaseLease(w)

BlockStep(w) ==
    \/ Block(w)
    \/ \E k \in Callers : BlockState(w, k) \/ BlockStore(w, k)

ChangeStep(w) ==
    \/ \E state \in {Running, Paused} : Change(w, state)
    \/ LocallyConverged(w) \/ Converged(w) \/ NotConverged(w) \/ ChangeFails(w)

EnvironmentStep(w) ==
    \/ ConsumerStep(w) \/ LeaseExpires(w) \/ FenceExpires(w) \/ Shutdown(w) \/ Crash(w)

Next ==
    \/ \E w \in Workers : New(w) \/ LoopStep(w) \/ BlockStep(w) \/ ChangeStep(w)
                          \/ EnvironmentStep(w)
    \/ Register

Spec == Init /\ [][Next]_vars

-------------------------------------------------------------------------------
(* Fairness *)

\* The loop of a worker goes on (its ticker fires, every call returns), so do a
\* Block that was called and a consumer that was started; the lease of a dead
\* worker runs out.  Faults are bounded by the budget.
Fairness ==
    \A w \in Workers :
      /\ WF_vars(LoopStep(w))
      /\ WF_vars(\E k \in Callers : BlockState(w, k) \/ BlockStore(w, k))
      /\ WF_vars(consumer[w] = "starting" /\ ConsumerStep(w) /\ consumer'[w] = "ready")
      /\ WF_vars(~Alive(w) /\ LeaseExpires(w))

LiveSpec == Spec /\ Fairness

-------------------------------------------------------------------------------
(* Properties *)

Labels == {"off", "idle", "refresh", "inspect", "cache", "monitor", "blocking", "apply", "stop",
           "progress", "report", "degrade", "release", "dead"}

StoreTypes ==
    /\ row \in [desired : {"none", Running, Paused}, revision : Nat]
    /\ lease \subseteq Workers
    /\ observed \in [Workers -> [state : {"none", "starting", Running, "pausing", Paused, "blocked"},
                                 revision : Nat]]
    /\ registered \in BOOLEAN /\ durable \in BOOLEAN

PassTypes ==
    /\ pc \in [Workers -> Labels] /\ ending \in [Workers -> BOOLEAN]
    /\ renewed \in [Workers -> BOOLEAN]
    /\ snap \in [Workers -> [desired : {"none", Running, Paused}, revision : Nat]]
    /\ found \in [Workers -> {"none", "error", "missing", "clear", "blocked"}]

ServiceTypes ==
    /\ control \in [Workers -> BOOLEAN] /\ kafka \in [Workers -> BOOLEAN]
    /\ fence \in [Workers -> BOOLEAN] /\ latch \in [Workers -> BOOLEAN]
    /\ source \in [Workers -> {"starting", "running", "blocked", "unavailable"}]
    /\ view \in [Workers -> {"starting", Running, "pausing", Paused, "blocked"}]
    /\ wanted \in [Workers -> {"none", Running, Paused}]
    /\ applied \in [Workers -> Nat]
    /\ status \in [Workers -> {"starting", "ready", "degraded"}]

GoroutineTypes ==
    /\ consumer \in [Workers -> {"none", "starting", "ready", "finished"}]
    /\ blocking \in [Workers -> [Callers -> {"no", "latched", "marked"}]]
    /\ request \in [Workers -> [state : {"none", Running, Paused}, revision : Nat,
                                at : {"none", "poll", "ask"}]]

\* Every variable has its type (Service, subscription, the tables of controlpg),
\* and the pass applies a desired state that it has read.
TypeOK ==
    /\ StoreTypes /\ PassTypes /\ ServiceTypes /\ GoroutineTypes
    /\ lapsed \subseteq Workers /\ confirmed \in Nat /\ budget \in [EventKinds -> Nat]
    /\ \A w \in Workers :
         pc[w] \in {"inspect", "cache", "monitor", "blocking", "apply", "stop", "progress", "report"}
           => snap[w].revision > 0

\* When Change has reported a pause and nobody has resumed since, no worker
\* holds a consumer, whenever it joined; a worker whose lease ran out under it
\* is the exception (Change, SubscriptionObserved, the order of RenewLease and
\* Subscriptions).
PauseHonoured ==
    row.revision = confirmed => \A w \in Workers \ lapsed : consumer[w] = "none"

\* A worker that holds a consumer is counted by SubscriptionObserved: its lease
\* is there before its first consumer and goes after its last, shutdown and
\* dependency failures included (refreshDependencies, Start, releaseLease).
CountedWhileConsuming ==
    \A w \in Workers \ lapsed : consumer[w] # "none" => w \in lease

\* A block is a latch: whatever inspection read before or while Block ran, the
\* source stays blocked in that process (inspectSource, cacheStream,
\* sourceState).
BlockStays ==
    [][ \A w \in Workers : latch[w] /\ pc'[w] # "dead" =>
          latch'[w] /\ (source[w] = "blocked" => source'[w] = "blocked") ]_vars

\* Some process that goes on running has blocked its source.
Latched == \E w \in Workers : latch[w] /\ Alive(w) /\ ~ending[w]

\* A block that failed to reach the store gets there, unless every process that
\* knows of it ends first (Block, inspectSource: "keep trying").
LatchReachesStore == Latched ~> (durable \/ ~Latched)

\* Once a block is in the store every worker, those that start later included,
\* stops its consumer and never holds one again; and no worker goes on reporting
\* ready, whatever pass was under way when the source was blocked (inspectSource,
\* destinationReady, overallStatus).
BlockSpreads ==
    durable ~> [](\A w \in Workers : consumer[w] = "none" /\ status[w] # "ready")

\* Every worker follows the desired state: a pause stops its consumer, a resume
\* brings up a ready one, unless the source is blocked or the worker leaves
\* (reconcile).
ConvergesOnDesired ==
    /\ row.desired = Paused ~>
         (row.desired = Running \/ \A w \in Workers : consumer[w] = "none")
    /\ \A w \in Workers :
         (row.desired = Running /\ registered /\ Alive(w)) ~>
           (row.desired = Paused \/ latch[w] \/ durable \/ ending[w] \/ ~Alive(w)
             \/ consumer[w] = "ready")

\* "err == nil: every worker has stopped delivering": when Change reports a
\* pause while the subscription is meant to be paused, nobody delivers.
PauseMeansStopped ==
    [][ \A w \in Workers :
          Converged(w) /\ request[w].state = Paused /\ row.desired = Paused
            => \A v \in Workers : ~Delivering(v) ]_vars

=============================================================================
