---------------------------- MODULE ControlProofs ----------------------------
(***************************************************************************)
(* Safety of Control for any number of workers, requests and faults.        *)
(***************************************************************************)
EXTENDS Control, TLAPS

-------------------------------------------------------------------------------
(* The inductive invariant *)

\* The labels of a pass that has read the desired state.
Pass == {"inspect", "cache", "monitor", "blocking", "apply", "stop", "progress", "report"}

HistoryTypes ==
    lapsed \subseteq Workers /\ confirmed \in Nat /\ budget \in [EventKinds -> Nat]

Types ==
    StoreTypes /\ PassTypes /\ ServiceTypes /\ GoroutineTypes /\ HistoryTypes

\* The row is there from the first New on.
Begun ==
    /\ row.revision = 0 => row.desired = "none"
    /\ \A w \in Workers : pc[w] # "off" => row.revision > 0

\* The lease comes before the pass and outlives the consumer.
Leased ==
    \A w \in Workers :
        /\ renewed[w] => pc[w] = "refresh"
        /\ renewed[w] \/ pc[w] \in Pass \/ consumer[w] # "none" => w \in lease \cup lapsed
        /\ pc[w] \in {"off", "release", "dead"} => consumer[w] = "none"

\* A pass works on the row as it is or was, and nothing a worker has applied or
\* reported is newer than what its pass has read.
Snapshots ==
    \A w \in Workers :
        /\ applied[w] <= row.revision /\ observed[w].revision <= row.revision
        /\ pc[w] \in Pass =>
             /\ 0 < snap[w].revision /\ snap[w].revision <= row.revision
             /\ applied[w] <= snap[w].revision /\ observed[w].revision <= snap[w].revision
             /\ snap[w].revision = row.revision => snap[w].desired = row.desired

\* A worker that shows or has reported a pause of the current revision has no
\* consumer.
Resting ==
    \A w \in Workers :
        /\ view[w] = Paused => consumer[w] = "none"
        /\ view[w] = Paused /\ applied[w] = row.revision => row.desired = Paused
        /\ observed[w].state = Paused /\ observed[w].revision = row.revision =>
             row.desired = Paused /\ consumer[w] = "none"

\* A request waits for a revision that had its state.
Requests ==
    \A w \in Workers : request[w].at # "none" =>
        /\ 0 < request[w].revision /\ request[w].revision <= row.revision
        /\ request[w].revision = row.revision => request[w].state = row.desired

\* After a reported pause nobody who kept a lease consumes, or is in a pass that
\* read something older.
Confirmed ==
    /\ confirmed <= row.revision
    /\ 0 < confirmed /\ confirmed = row.revision =>
         /\ row.desired = Paused
         /\ \A w \in Workers \ lapsed :
              /\ consumer[w] = "none"
              /\ pc[w] \in Pass => snap[w].revision = row.revision

\* The loop waits for the Block it has called.
Blocking == \A w \in Workers : blocking[w]["loop"] # "no" => pc[w] = "blocking"

IndInv == Begun /\ Leased /\ Blocking /\ Snapshots /\ Resting /\ Requests /\ Confirmed

-------------------------------------------------------------------------------
(* Types *)

\* The steps with several outcomes, seen by what they do to each variable: the
\* dependencies are refreshed.
LEMMA RefreshTypes ==
    ASSUME Types, NEW w \in Workers, RefreshDependencies(w) PROVE PassTypes'
<1> USE DEF Types, Running, Paused
<1>1. snap' = snap \/ snap' = [snap EXCEPT ![w] = row]
  BY DEF RefreshDependencies, Subscriptions
<1>2. pc' = [pc EXCEPT ![w] = "inspect"] \/ pc' = [pc EXCEPT ![w] = "degrade"]
  BY DEF RefreshDependencies, Goto
<1>3. UNCHANGED <<ending, found>> /\ renewed' = [renewed EXCEPT ![w] = FALSE]
  BY DEF RefreshDependencies
<1>4. row \in [desired : {"none", Running, Paused}, revision : Nat]
  BY DEF StoreTypes
<1>5. snap' \in [Workers -> [desired : {"none", Running, Paused}, revision : Nat]]
  BY <1>1, <1>4 DEF PassTypes
<1>6. QED
  BY <1>2, <1>3, <1>5 DEF PassTypes, Labels

\* The monitor's verdict and its block.
LEMMA MonitorTypes ==
    ASSUME Types, NEW w \in Workers, Monitor(w) PROVE ServiceTypes'
<1> USE DEF Types, gateVars, subVars
<1>1. \/ source' = source
      \/ \E state \in {"running", "unavailable", "blocked"} :
           source' = [source EXCEPT ![w] = state]
  BY DEF Monitor, SourceState
<1>2. latch' = latch \/ latch' = [latch EXCEPT ![w] = TRUE]
  BY DEF Monitor
<1>3. UNCHANGED <<control, kafka, fence, view, wanted, applied, status>>
  BY DEF Monitor
<1>4. QED
  BY <1>1, <1>2, <1>3 DEF ServiceTypes

\* What a subscription's step does to the view, the wanted state and the revision.
LEMMA ReconcileTypes ==
    ASSUME Types, NEW w \in Workers, ReconcileSubscription(w) PROVE ServiceTypes'
<1> USE DEF Types, gateVars, sourceVars, Running, Paused
<1>1. \/ view' = view
      \/ \E state \in {"starting", Running, "pausing", Paused, "blocked"} :
           view' = [view EXCEPT ![w] = state]
  BY DEF ReconcileSubscription, EnsureConsumer, MarkProgress, Rest, restingState
<1>2. wanted' = wanted \/ wanted' = [wanted EXCEPT ![w] = snap[w].desired]
  BY DEF ReconcileSubscription
<1>3. applied' = applied \/ applied' = [applied EXCEPT ![w] = snap[w].revision]
  BY DEF ReconcileSubscription, EnsureConsumer, MarkProgress, Rest
<1>4. UNCHANGED <<control, kafka, fence, latch, source, status>>
  BY DEF ReconcileSubscription
<1>5. snap[w].desired \in {"none", Running, Paused} /\ snap[w].revision \in Nat
  BY DEF PassTypes
<1>6. QED
  BY <1>1, <1>2, <1>3, <1>4, <1>5 DEF ServiceTypes

\* Every step keeps the types.
LEMMA TypesStep ==
    ASSUME Types, [Next]_vars PROVE Types'
<1> USE DEF Types, Running, Paused, Callers, EventKinds, storeVars, passVars, gateVars, sourceVars,
        subVars, historyVars
<1>1. CASE UNCHANGED vars
  BY <1>1 DEF vars, StoreTypes, PassTypes, ServiceTypes, GoroutineTypes, HistoryTypes
<1>2. ASSUME NEW w \in Workers, LoopStep(w) PROVE Types'
  <2>1. CASE RenewLease(w)
    <3>1. StoreTypes'
      BY <2>1 DEF RenewLease, StoreTypes
    <3>2. PassTypes'
      BY <2>1 DEF RenewLease, PassTypes, Goto, Labels
    <3>3. HistoryTypes'
      BY <2>1 DEF RenewLease, HistoryTypes, Succeeds, Fails, Spend
    <3>4. ServiceTypes' /\ GoroutineTypes'
      BY <2>1 DEF RenewLease, ServiceTypes, GoroutineTypes
    <3>5. QED
      BY <3>1, <3>2, <3>3, <3>4
  <2>2. CASE RefreshDependencies(w)
    <3>1. PassTypes'
      BY <2>2, RefreshTypes
    <3>2. ServiceTypes'
      BY <2>2 DEF RefreshDependencies, ServiceTypes, PassTypes
    <3>3. HistoryTypes'
      BY <2>2 DEF RefreshDependencies, HistoryTypes, Succeeds, Fails, Spend
    <3>4. StoreTypes' /\ GoroutineTypes'
      BY <2>2 DEF RefreshDependencies, StoreTypes, GoroutineTypes
    <3>5. QED
      BY <3>1, <3>2, <3>3, <3>4
  <2>3. CASE InspectSource(w)
    <3>1. StoreTypes'
      BY <2>3 DEF InspectSource, StoreTypes, BlockSource, GetStream
    <3>2. PassTypes'
      BY <2>3 DEF InspectSource, PassTypes, GetStream, Goto, Labels
    <3>3. HistoryTypes'
      BY <2>3 DEF InspectSource, HistoryTypes, GetStream, BlockSource, Succeeds, Fails, Spend
    <3>4. ServiceTypes' /\ GoroutineTypes'
      BY <2>3 DEF InspectSource, ServiceTypes, GoroutineTypes
    <3>5. QED
      BY <3>1, <3>2, <3>3, <3>4
  <2>4. CASE CacheStream(w)
    <3>1. PassTypes'
      BY <2>4 DEF CacheStream, PassTypes, Goto, Labels
    <3>2. ServiceTypes'
      BY <2>4 DEF CacheStream, ServiceTypes, SourceState, Merged
    <3>3. StoreTypes' /\ GoroutineTypes' /\ HistoryTypes'
      BY <2>4 DEF CacheStream, StoreTypes, GoroutineTypes, HistoryTypes
    <3>4. QED
      BY <3>1, <3>2, <3>3
  <2>5. CASE Monitor(w)
    <3>1. PassTypes'
      BY <2>5 DEF Monitor, PassTypes, Goto, Labels
    <3>2. ServiceTypes'
      BY <2>5, MonitorTypes
    <3>3. GoroutineTypes'
      BY <2>5 DEF Monitor, GoroutineTypes
    <3>4. HistoryTypes'
      BY <2>5 DEF Monitor, HistoryTypes, Succeeds, Fails, Spend
    <3>5. StoreTypes'
      BY <2>5 DEF Monitor, StoreTypes
    <3>6. QED
      BY <3>1, <3>2, <3>3, <3>4, <3>5
  <2>6. CASE ReconcileSubscription(w)
    <3>1. PassTypes'
      BY <2>6 DEF ReconcileSubscription, PassTypes, EnsureConsumer, MarkProgress, Rest, Goto, Labels
    <3>2. ServiceTypes'
      BY <2>6, ReconcileTypes
    <3>3. GoroutineTypes'
      BY <2>6 DEF ReconcileSubscription, GoroutineTypes, EnsureConsumer, MarkProgress, Rest
    <3>4. HistoryTypes'
      BY <2>6 DEF ReconcileSubscription, HistoryTypes, EnsureConsumer, Spend
    <3>5. StoreTypes'
      BY <2>6 DEF ReconcileSubscription, StoreTypes
    <3>6. QED
      BY <3>1, <3>2, <3>3, <3>4, <3>5
  <2>7. CASE RestStopped(w)
    <3>1. PassTypes'
      BY <2>7 DEF RestStopped, PassTypes, Rest, Goto, Labels
    <3>2. ServiceTypes'
      BY <2>7 DEF RestStopped, ServiceTypes, Rest, restingState, PassTypes
    <3>3. GoroutineTypes'
      BY <2>7 DEF RestStopped, GoroutineTypes, Rest
    <3>4. StoreTypes' /\ HistoryTypes'
      BY <2>7 DEF RestStopped, StoreTypes, HistoryTypes
    <3>5. QED
      BY <3>1, <3>2, <3>3, <3>4
  <2>8. CASE ConsumerStarted(w)
    <3>1. PassTypes'
      BY <2>8 DEF ConsumerStarted, PassTypes, MarkProgress, Goto, Labels
    <3>2. ServiceTypes'
      BY <2>8 DEF ConsumerStarted, ServiceTypes, MarkProgress, PassTypes
    <3>3. StoreTypes' /\ GoroutineTypes' /\ HistoryTypes'
      BY <2>8 DEF ConsumerStarted, StoreTypes, GoroutineTypes, HistoryTypes
    <3>4. QED
      BY <3>1, <3>2, <3>3
  <2>9. CASE ReportObservations(w)
    <3>1. StoreTypes'
      BY <2>9 DEF ReportObservations, StoreTypes, ObserveSubscription, ServiceTypes
    <3>2. PassTypes'
      BY <2>9 DEF ReportObservations, PassTypes, NoRow, Goto, Labels
    <3>3. ServiceTypes'
      BY <2>9 DEF ReportObservations, ServiceTypes, overallStatus
    <3>4. HistoryTypes'
      BY <2>9 DEF ReportObservations, HistoryTypes, Succeeds, Fails, Spend
    <3>5. GoroutineTypes'
      BY <2>9 DEF ReportObservations, GoroutineTypes
    <3>6. QED
      BY <3>1, <3>2, <3>3, <3>4, <3>5
  <2>10. CASE Degrade(w)
    <3>1. PassTypes'
      BY <2>10 DEF Degrade, PassTypes, NoRow, Goto, Labels
    <3>2. ServiceTypes'
      BY <2>10 DEF Degrade, ServiceTypes, StopAll
    <3>3. GoroutineTypes'
      BY <2>10 DEF Degrade, GoroutineTypes, StopAll
    <3>4. StoreTypes' /\ HistoryTypes'
      BY <2>10 DEF Degrade, StoreTypes, HistoryTypes
    <3>5. QED
      BY <3>1, <3>2, <3>3, <3>4
  <2>11. CASE Leave(w)
    <3>1. PassTypes'
      BY <2>11 DEF Leave, PassTypes, Goto, Labels
    <3>2. ServiceTypes'
      BY <2>11 DEF Leave, ServiceTypes, StopAll
    <3>3. GoroutineTypes'
      BY <2>11 DEF Leave, GoroutineTypes, StopAll
    <3>4. StoreTypes' /\ HistoryTypes'
      BY <2>11 DEF Leave, StoreTypes, HistoryTypes
    <3>5. QED
      BY <3>1, <3>2, <3>3, <3>4
  <2>12. CASE ReleaseLease(w)
    <3>1. StoreTypes'
      BY <2>12 DEF ReleaseLease, StoreTypes, NoObservation
    <3>2. PassTypes'
      BY <2>12 DEF ReleaseLease, PassTypes, Forget, Goto, NoRow, Labels
    <3>3. ServiceTypes'
      BY <2>12 DEF ReleaseLease, ServiceTypes, Forget
    <3>4. GoroutineTypes'
      BY <2>12 DEF ReleaseLease, GoroutineTypes, Forget, NoRequest
    <3>5. HistoryTypes'
      BY <2>12 DEF ReleaseLease, HistoryTypes, Spend
    <3>6. QED
      BY <3>1, <3>2, <3>3, <3>4, <3>5
  <2>13. QED
    BY <1>2, <2>1, <2>2, <2>3, <2>4, <2>5, <2>6, <2>7, <2>8, <2>9, <2>10, <2>11, <2>12 DEF LoopStep
<1>3. ASSUME NEW w \in Workers, BlockStep(w) PROVE Types'
  <2>1. CASE Block(w)
    <3>1. ServiceTypes'
      BY <2>1 DEF Block, ServiceTypes
    <3>2. GoroutineTypes'
      BY <2>1 DEF Block, GoroutineTypes
    <3>3. HistoryTypes'
      BY <2>1 DEF Block, HistoryTypes, Spend
    <3>4. StoreTypes' /\ PassTypes'
      BY <2>1 DEF Block, StoreTypes, PassTypes
    <3>5. QED
      BY <3>1, <3>2, <3>3, <3>4
  <2>2. ASSUME NEW k \in Callers, BlockState(w, k) PROVE Types'
    <3>1. ServiceTypes'
      BY <2>2 DEF BlockState, ServiceTypes, SourceState
    <3>2. GoroutineTypes'
      BY <2>2 DEF BlockState, GoroutineTypes
    <3>3. StoreTypes' /\ PassTypes' /\ HistoryTypes'
      BY <2>2 DEF BlockState, StoreTypes, PassTypes, HistoryTypes
    <3>4. QED
      BY <3>1, <3>2, <3>3
  <2>3. ASSUME NEW k \in Callers, BlockStore(w, k) PROVE Types'
    <3>1. StoreTypes'
      BY <2>3 DEF BlockStore, StoreTypes, BlockSource
    <3>2. PassTypes'
      BY <2>3 DEF BlockStore, PassTypes, Goto, Labels
    <3>3. GoroutineTypes'
      BY <2>3 DEF BlockStore, GoroutineTypes
    <3>4. HistoryTypes'
      BY <2>3 DEF BlockStore, HistoryTypes, BlockSource, Spend
    <3>5. ServiceTypes'
      BY <2>3 DEF BlockStore, ServiceTypes
    <3>6. QED
      BY <3>1, <3>2, <3>3, <3>4, <3>5
  <2>4. QED
    BY <1>3, <2>1, <2>2, <2>3 DEF BlockStep
<1>4. ASSUME NEW w \in Workers, ChangeStep(w) PROVE Types'
  <2>1. ASSUME NEW state \in {Running, Paused}, Change(w, state) PROVE Types'
    <3>1. StoreTypes'
      BY <2>1 DEF Change, StoreTypes, SetDesired
    <3>2. GoroutineTypes'
      BY <2>1 DEF Change, GoroutineTypes, SetDesired, StoreTypes
    <3>3. HistoryTypes'
      BY <2>1 DEF Change, HistoryTypes, Spend
    <3>4. PassTypes' /\ ServiceTypes'
      BY <2>1 DEF Change, PassTypes, ServiceTypes
    <3>5. QED
      BY <3>1, <3>2, <3>3, <3>4
  <2>2. CASE LocallyConverged(w)
    <3>1. GoroutineTypes'
      BY <2>2 DEF LocallyConverged, GoroutineTypes
    <3>2. StoreTypes' /\ PassTypes' /\ ServiceTypes' /\ HistoryTypes'
      BY <2>2 DEF LocallyConverged, StoreTypes, PassTypes, ServiceTypes, HistoryTypes
    <3>3. QED
      BY <3>1, <3>2
  <2>3. CASE Converged(w)
    <3>1. GoroutineTypes'
      BY <2>3 DEF Converged, GoroutineTypes, Return, NoRequest
    <3>2. HistoryTypes'
      BY <2>3 DEF Converged, HistoryTypes, GoroutineTypes
    <3>3. StoreTypes' /\ PassTypes' /\ ServiceTypes'
      BY <2>3 DEF Converged, StoreTypes, PassTypes, ServiceTypes
    <3>4. QED
      BY <3>1, <3>2, <3>3
  <2>4. CASE NotConverged(w)
    <3>1. GoroutineTypes'
      BY <2>4 DEF NotConverged, GoroutineTypes
    <3>2. StoreTypes' /\ PassTypes' /\ ServiceTypes' /\ HistoryTypes'
      BY <2>4 DEF NotConverged, StoreTypes, PassTypes, ServiceTypes, HistoryTypes
    <3>3. QED
      BY <3>1, <3>2
  <2>5. CASE ChangeFails(w)
    <3>1. GoroutineTypes'
      BY <2>5 DEF ChangeFails, GoroutineTypes, Return, NoRequest
    <3>2. StoreTypes' /\ PassTypes' /\ ServiceTypes' /\ HistoryTypes'
      BY <2>5 DEF ChangeFails, StoreTypes, PassTypes, ServiceTypes, HistoryTypes
    <3>3. QED
      BY <3>1, <3>2
  <2>6. QED
    BY <1>4, <2>1, <2>2, <2>3, <2>4, <2>5 DEF ChangeStep
<1>5. ASSUME NEW w \in Workers, EnvironmentStep(w) PROVE Types'
  <2>1. CASE ConsumerStep(w)
    <3>1. GoroutineTypes'
      BY <2>1 DEF ConsumerStep, GoroutineTypes
    <3>2. HistoryTypes'
      BY <2>1 DEF ConsumerStep, HistoryTypes, Spend
    <3>3. StoreTypes' /\ PassTypes' /\ ServiceTypes'
      BY <2>1 DEF ConsumerStep, StoreTypes, PassTypes, ServiceTypes
    <3>4. QED
      BY <3>1, <3>2, <3>3
  <2>2. CASE LeaseExpires(w)
    <3>1. StoreTypes'
      BY <2>2 DEF LeaseExpires, StoreTypes
    <3>2. HistoryTypes'
      BY <2>2 DEF LeaseExpires, HistoryTypes, Spend
    <3>3. PassTypes' /\ ServiceTypes' /\ GoroutineTypes'
      BY <2>2 DEF LeaseExpires, PassTypes, ServiceTypes, GoroutineTypes
    <3>4. QED
      BY <3>1, <3>2, <3>3
  <2>3. CASE FenceExpires(w)
    <3>1. ServiceTypes'
      BY <2>3 DEF FenceExpires, ServiceTypes
    <3>2. StoreTypes' /\ PassTypes' /\ GoroutineTypes' /\ HistoryTypes'
      BY <2>3 DEF FenceExpires, StoreTypes, PassTypes, GoroutineTypes, HistoryTypes
    <3>3. QED
      BY <3>1, <3>2
  <2>4. CASE Shutdown(w)
    <3>1. PassTypes'
      BY <2>4 DEF Shutdown, PassTypes, Labels
    <3>2. HistoryTypes'
      BY <2>4 DEF Shutdown, HistoryTypes, Spend
    <3>3. StoreTypes' /\ ServiceTypes' /\ GoroutineTypes'
      BY <2>4 DEF Shutdown, StoreTypes, ServiceTypes, GoroutineTypes
    <3>4. QED
      BY <3>1, <3>2, <3>3
  <2>5. CASE Crash(w)
    <3>1. PassTypes'
      BY <2>5 DEF Crash, PassTypes, Forget, Goto, NoRow, Labels
    <3>2. ServiceTypes'
      BY <2>5 DEF Crash, ServiceTypes, Forget
    <3>3. GoroutineTypes'
      BY <2>5 DEF Crash, GoroutineTypes, Forget, NoRequest
    <3>4. HistoryTypes'
      BY <2>5 DEF Crash, HistoryTypes, Spend
    <3>5. StoreTypes'
      BY <2>5 DEF Crash, StoreTypes
    <3>6. QED
      BY <3>1, <3>2, <3>3, <3>4, <3>5
  <2>6. QED
    BY <1>5, <2>1, <2>2, <2>3, <2>4, <2>5 DEF EnvironmentStep
<1>6. ASSUME NEW w \in Workers, New(w) PROVE Types'
  <2>1. HistoryTypes'
    BY <1>6 DEF New, HistoryTypes, Spend
  <2>2. StoreTypes' /\ PassTypes' /\ ServiceTypes' /\ GoroutineTypes'
    BY <1>6 DEF New, EnsureSubscriptions, Goto, StoreTypes, PassTypes, ServiceTypes, GoroutineTypes,
       Labels
  <2>3. QED
    BY <2>1, <2>2
<1>7. CASE Register
  BY <1>7 DEF Register, StoreTypes, PassTypes, ServiceTypes, GoroutineTypes, HistoryTypes
<1>8. QED
  BY <1>1, <1>2, <1>3, <1>4, <1>5, <1>6, <1>7 DEF Next

-------------------------------------------------------------------------------
(* The inductive invariant is preserved *)

\* A pause is reported by a worker that shows it.
LEMMA ReportResting ==
    ASSUME Types, IndInv, NEW w \in Workers, ReportObservations(w) PROVE Resting'
<1>1. \/ observed' = observed
      \/ observed' = [observed EXCEPT ![w] = [state |-> view[w], revision |-> applied[w]]]
  BY DEF ReportObservations, ObserveSubscription
<1>2. UNCHANGED <<row, view, applied, consumer>>
  BY DEF ReportObservations, subVars
<1>3. QED
  BY <1>1, <1>2 DEF IndInv, Resting, Types, StoreTypes

\* When a pause is confirmed, the workers with a lease have reported it and
\* those without one have neither a consumer nor a pass under way.
LEMMA ConvergedConfirmed ==
    ASSUME Types, IndInv, NEW w \in Workers, Converged(w) PROVE Confirmed'
<1>1. UNCHANGED <<row, pc, snap, consumer, lapsed>>
  BY DEF Converged, storeVars, passVars
<1>2. CASE request[w].state # Paused
  BY <1>1, <1>2 DEF Converged, IndInv, Confirmed
<1>3. CASE request[w].state = Paused
  <2>1. confirmed' = request[w].revision /\ request[w].revision <= row.revision
    BY <1>3 DEF Converged, IndInv, Requests
  <2>2. request[w].revision = row.revision => row.desired = Paused
    BY <1>3 DEF Converged, IndInv, Requests
  <2>3. ASSUME request[w].revision = row.revision, NEW v \in Workers \ lapsed
        PROVE  consumer[v] = "none" /\ (pc[v] \in Pass => snap[v].revision = row.revision)
    <3>1. CASE v \in lease
      <4>1. observed[v].revision >= row.revision /\ observed[v].state = Paused
        BY <1>3, <2>3, <3>1 DEF Converged, SubscriptionObserved
      <4>2. v \in Workers /\ observed[v].revision \in Nat /\ row.revision \in Nat
        BY DEF Types, StoreTypes
      <4>3. observed[v].revision = row.revision
        BY <4>1, <4>2 DEF IndInv, Snapshots
      <4>4. consumer[v] = "none"
        BY <4>1, <4>2, <4>3 DEF IndInv, Resting
      <4>5. ASSUME pc[v] \in Pass PROVE snap[v].revision = row.revision
        <5>1. snap[v].revision \in Nat
          BY <4>2 DEF Types, PassTypes
        <5>2. QED
          BY <4>2, <4>3, <4>5, <5>1 DEF IndInv, Snapshots
      <4>6. QED
        BY <4>4, <4>5
    <3>2. CASE v \notin lease
      BY <3>2 DEF IndInv, Leased
    <3>3. QED
      BY <3>1, <3>2
  <2>4. QED
    BY <1>1, <2>1, <2>2, <2>3 DEF Confirmed
<1>4. QED
  BY <1>2, <1>3

\* Every step keeps the inductive invariant.
LEMMA IndInvStep ==
    ASSUME Types, Types', IndInv, [Next]_vars PROVE IndInv'
<1> USE DEF Types, StoreTypes, PassTypes, ServiceTypes, GoroutineTypes, HistoryTypes, Pass, Running,
        Paused, Alive, storeVars, passVars, gateVars, sourceVars, subVars, historyVars, IndInv,
        Begun, Leased, Blocking, Snapshots, Resting, Requests, Confirmed
<1>1. CASE UNCHANGED vars
  BY <1>1 DEF vars
<1>2. ASSUME NEW w \in Workers, LoopStep(w) PROVE IndInv'
  <2>1. CASE RenewLease(w)
    BY <2>1 DEF RenewLease, Succeeds, Fails, Spend, Goto
  <2>2. CASE RefreshDependencies(w)
    <3>1. Begun' /\ Leased' /\ Blocking' /\ Requests'
      BY <2>2 DEF RefreshDependencies, Subscriptions, Succeeds, Fails, Spend, Goto
    <3>2. Snapshots'
      BY <2>2 DEF RefreshDependencies, Subscriptions, Succeeds, Fails, Spend, Goto
    <3>3. Resting'
      BY <2>2 DEF RefreshDependencies, Subscriptions, Succeeds, Fails, Spend, Goto
    <3>4. Confirmed'
      BY <2>2 DEF RefreshDependencies, Subscriptions, Succeeds, Fails, Spend, Goto
    <3>5. QED
      BY <3>1, <3>2, <3>3, <3>4
  <2>3. CASE InspectSource(w)
    BY <2>3 DEF InspectSource, GetStream, BlockSource, Succeeds, Fails, Spend, Goto
  <2>4. CASE CacheStream(w)
    BY <2>4 DEF CacheStream, SourceState, Goto
  <2>5. CASE Monitor(w)
    BY <2>5 DEF Monitor, SourceState, Succeeds, Fails, Spend, Goto
  <2>6. CASE ReconcileSubscription(w)
    <3>1. Begun' /\ Leased' /\ Blocking' /\ Requests'
      BY <2>6 DEF ReconcileSubscription, EnsureConsumer, MarkProgress, Rest, restingState, Rests,
         Spend, Goto
    <3>2. Snapshots'
      BY <2>6 DEF ReconcileSubscription, EnsureConsumer, MarkProgress, Rest, restingState, Rests,
         Spend, Goto
    <3>3. Resting'
      BY <2>6 DEF ReconcileSubscription, EnsureConsumer, MarkProgress, Rest, restingState, Rests,
         Spend, Goto
    <3>4. Confirmed'
      BY <2>6 DEF ReconcileSubscription, EnsureConsumer, MarkProgress, Rest, restingState, Rests,
         Spend, Goto
    <3>5. QED
      BY <3>1, <3>2, <3>3, <3>4
  <2>7. CASE RestStopped(w)
    BY <2>7 DEF RestStopped, Rest, restingState, Goto
  <2>8. CASE ConsumerStarted(w)
    <3>1. Begun' /\ Leased' /\ Blocking' /\ Requests'
      BY <2>8 DEF ConsumerStarted, MarkProgress, Goto
    <3>2. Snapshots'
      BY <2>8 DEF ConsumerStarted, MarkProgress, Goto
    <3>3. Resting'
      BY <2>8 DEF ConsumerStarted, MarkProgress, Goto
    <3>4. Confirmed'
      BY <2>8 DEF ConsumerStarted, MarkProgress, Goto
    <3>5. QED
      BY <3>1, <3>2, <3>3, <3>4
  <2>9. CASE ReportObservations(w)
    <3>1. Begun' /\ Leased' /\ Blocking' /\ Requests'
      BY <2>9 DEF ReportObservations, ObserveSubscription, overallStatus, Succeeds, Fails, Spend,
         Goto
    <3>2. Snapshots'
      BY <2>9 DEF ReportObservations, ObserveSubscription, overallStatus, Succeeds, Fails, Spend,
         Goto
    <3>3. Resting'
      BY <2>9, ReportResting
    <3>4. Confirmed'
      BY <2>9 DEF ReportObservations, ObserveSubscription, overallStatus, Succeeds, Fails, Spend,
         Goto
    <3>5. QED
      BY <3>1, <3>2, <3>3, <3>4
  <2>10. CASE Degrade(w)
    BY <2>10 DEF Degrade, StopAll, Goto
  <2>11. CASE Leave(w)
    BY <2>11 DEF Leave, StopAll, Goto
  <2>12. CASE ReleaseLease(w)
    <3>1. Begun' /\ Leased' /\ Blocking' /\ Requests'
      BY <2>12 DEF ReleaseLease, Forget, NoRow, NoObservation, NoRequest, Spend, Goto, Callers
    <3>2. Snapshots'
      BY <2>12 DEF ReleaseLease, Forget, NoRow, NoObservation, NoRequest, Spend, Goto, Callers
    <3>3. Resting'
      BY <2>12 DEF ReleaseLease, Forget, NoRow, NoObservation, NoRequest, Spend, Goto, Callers
    <3>4. Confirmed'
      BY <2>12 DEF ReleaseLease, Forget, NoRow, NoObservation, NoRequest, Spend, Goto, Callers
    <3>5. QED
      BY <3>1, <3>2, <3>3, <3>4
  <2>13. QED
    BY <1>2, <2>1, <2>2, <2>3, <2>4, <2>5, <2>6, <2>7, <2>8, <2>9, <2>10, <2>11, <2>12 DEF LoopStep
<1>3. ASSUME NEW w \in Workers, BlockStep(w) PROVE IndInv'
  <2>1. CASE Block(w)
    BY <2>1 DEF Block, Live, Spend
  <2>2. ASSUME NEW k \in Callers, BlockState(w, k) PROVE IndInv'
    BY <2>2 DEF BlockState, SourceState
  <2>3. ASSUME NEW k \in Callers, BlockStore(w, k) PROVE IndInv'
    BY <2>3 DEF BlockStore, Callers, Goto
  <2>4. QED
    BY <1>3, <2>1, <2>2, <2>3 DEF BlockStep
<1>4. ASSUME NEW w \in Workers, ChangeStep(w) PROVE IndInv'
  <2>1. ASSUME NEW state \in {Running, Paused}, Change(w, state) PROVE IndInv'
    <3>1. Begun' /\ Leased' /\ Blocking'
      BY <2>1 DEF Change, SetDesired, Spend
    <3>2. Requests'
      BY <2>1 DEF Change, SetDesired, Spend
    <3>3. Snapshots'
      BY <2>1 DEF Change, SetDesired, Spend
    <3>4. Resting'
      BY <2>1 DEF Change, SetDesired, Spend
    <3>5. Confirmed'
      BY <2>1 DEF Change, SetDesired, Spend
    <3>6. QED
      BY <3>1, <3>2, <3>3, <3>4, <3>5
  <2>2. CASE LocallyConverged(w)
    BY <2>2 DEF LocallyConverged
  <2>3. CASE Converged(w)
    <3>1. Begun' /\ Leased' /\ Blocking' /\ Requests'
      BY <2>3 DEF Converged, Return, SubscriptionObserved, NoRequest
    <3>2. Snapshots'
      BY <2>3 DEF Converged, Return, SubscriptionObserved, NoRequest
    <3>3. Resting'
      BY <2>3 DEF Converged, Return, SubscriptionObserved, NoRequest
    <3>4. Confirmed'
      BY <2>3, ConvergedConfirmed
    <3>5. QED
      BY <3>1, <3>2, <3>3, <3>4
  <2>4. CASE NotConverged(w)
    BY <2>4 DEF NotConverged
  <2>5. CASE ChangeFails(w)
    BY <2>5 DEF ChangeFails, Return, NoRequest
  <2>6. QED
    BY <1>4, <2>1, <2>2, <2>3, <2>4, <2>5 DEF ChangeStep
<1>5. ASSUME NEW w \in Workers, EnvironmentStep(w) PROVE IndInv'
  <2>1. CASE ConsumerStep(w)
    BY <2>1 DEF ConsumerStep, Spend, Live
  <2>2. CASE LeaseExpires(w)
    BY <2>2 DEF LeaseExpires, Spend
  <2>3. CASE FenceExpires(w)
    BY <2>3 DEF FenceExpires
  <2>4. CASE Shutdown(w)
    BY <2>4 DEF Shutdown, Spend
  <2>5. CASE Crash(w)
    <3>1. Begun' /\ Leased' /\ Blocking' /\ Requests'
      BY <2>5 DEF Crash, Forget, NoRow, NoObservation, NoRequest, Spend, Goto, Callers
    <3>2. Snapshots'
      BY <2>5 DEF Crash, Forget, NoRow, NoObservation, NoRequest, Spend, Goto, Callers
    <3>3. Resting'
      BY <2>5 DEF Crash, Forget, NoRow, NoObservation, NoRequest, Spend, Goto, Callers
    <3>4. Confirmed'
      BY <2>5 DEF Crash, Forget, NoRow, NoObservation, NoRequest, Spend, Goto, Callers
    <3>5. QED
      BY <3>1, <3>2, <3>3, <3>4
  <2>6. QED
    BY <1>5, <2>1, <2>2, <2>3, <2>4, <2>5 DEF EnvironmentStep
<1>6. ASSUME NEW w \in Workers, New(w) PROVE IndInv'
  <2>1. Begun' /\ Leased' /\ Blocking' /\ Requests'
    BY <1>6 DEF New, EnsureSubscriptions, NoRow, Goto
  <2>2. Snapshots'
    BY <1>6 DEF New, EnsureSubscriptions, NoRow, Goto
  <2>3. Resting'
    BY <1>6 DEF New, EnsureSubscriptions, NoRow, Goto
  <2>4. Confirmed'
    BY <1>6 DEF New, EnsureSubscriptions, NoRow, Goto
  <2>5. QED
    BY <2>1, <2>2, <2>3, <2>4
<1>7. CASE Register
  BY <1>7 DEF Register
<1>8. QED
  BY <1>1, <1>2, <1>3, <1>4, <1>5, <1>6, <1>7 DEF Next

-------------------------------------------------------------------------------
(* Theorems *)

\* Every initial state is typed and satisfies the invariant.
LEMMA InitHolds == Init => Types /\ IndInv
<1> SUFFICES ASSUME Init PROVE Types /\ IndInv
  OBVIOUS
<1>1. StoreTypes /\ PassTypes
  BY DEF Init, StoreTypes, PassTypes, Labels, NoRow, NoObservation
<1>2. ServiceTypes /\ GoroutineTypes
  BY DEF Init, ServiceTypes, GoroutineTypes, NoRequest
<1>3. HistoryTypes
  BY BudgetAssumption DEF Init, HistoryTypes
<1>4. IndInv
  BY DEF Init, IndInv, Begun, Leased, Blocking, Snapshots, Resting, Requests, Confirmed, Pass,
     Paused,
         Callers, NoRow, NoObservation, NoRequest
<1>5. QED
  BY <1>1, <1>2, <1>3, <1>4 DEF Types

\* The inductive invariant holds, for any workers, requests and faults.
THEOREM Inductive == Spec => [](Types /\ IndInv)
<1>1. Types /\ IndInv /\ [Next]_vars => (Types /\ IndInv)'
  BY TypesStep, IndInvStep
<1>2. QED
  BY <1>1, InitHolds, PTL DEF Spec

\* Control is type correct, and a pass works on a desired state it has read
\* (refreshDependencies, reconcile).
THEOREM TypeCorrect == Spec => []TypeOK
<1>1. Types /\ IndInv => TypeOK
  BY DEF Types, HistoryTypes, IndInv, Snapshots, Pass, TypeOK
<1>2. QED
  BY <1>1, Inductive, PTL

\* A worker is counted by SubscriptionObserved for as long as it holds a
\* consumer (refreshDependencies, Start, releaseLease).
THEOREM Counted == Spec => []CountedWhileConsuming
<1>1. IndInv => CountedWhileConsuming
  BY DEF IndInv, Leased, CountedWhileConsuming
<1>2. QED
  BY <1>1, Inductive, PTL

\* A pause that Change has reported holds until somebody resumes, on every
\* worker that did not let its lease run out (Change, SubscriptionObserved).
THEOREM PauseHolds == Spec => []PauseHonoured
<1>1. ASSUME Types, IndInv, row.revision = confirmed, NEW w \in Workers \ lapsed
      PROVE  consumer[w] = "none"
  <2>1. CASE confirmed = 0
    BY <1>1, <2>1 DEF IndInv, Begun, Leased, Types, StoreTypes
  <2>2. CASE confirmed > 0
    BY <1>1, <2>2 DEF IndInv, Confirmed
  <2>3. QED
    BY <1>1, <2>1, <2>2 DEF Types, HistoryTypes
<1>2. Types /\ IndInv => PauseHonoured
  BY <1>1 DEF PauseHonoured
<1>3. QED
  BY <1>2, Inductive, PTL

\* A block is a latch: no inspection, whenever it read the registration, undoes
\* it (inspectSource, cacheStream, sourceState).
THEOREM BlockLatches == Spec => BlockStays
<1> DEFINE Kept(v) == latch[v] /\ pc'[v] # "dead" =>
                        latch'[v] /\ (source[v] = "blocked" => source'[v] = "blocked")
<1>1. ASSUME Types, [Next]_vars, NEW v \in Workers PROVE Kept(v)
  <2> USE <1>1 DEF Types, PassTypes, ServiceTypes, sourceVars
  <2>1. CASE UNCHANGED sourceVars
    BY <2>1
  <2>2. ASSUME NEW w \in Workers, CacheStream(w) PROVE Kept(v)
    BY <2>2 DEF CacheStream, SourceState, Merged
  <2>3. ASSUME NEW w \in Workers, Monitor(w) PROVE Kept(v)
    BY <2>3 DEF Monitor, SourceState
  <2>4. ASSUME NEW w \in Workers, Block(w) PROVE Kept(v)
    BY <2>4 DEF Block
  <2>5. ASSUME NEW w \in Workers, NEW k \in Callers, BlockState(w, k) PROVE Kept(v)
    BY <2>5 DEF BlockState, SourceState
  <2>6. ASSUME NEW w \in Workers, ReleaseLease(w) \/ Crash(w) PROVE Kept(v)
    BY <2>6 DEF ReleaseLease, Crash, Forget, Goto
  <2>7. ASSUME NEW w \in Workers, LoopStep(w) PROVE Kept(v)
    BY <2>1, <2>2, <2>3, <2>6, <2>7 DEF LoopStep, RenewLease, RefreshDependencies, InspectSource,
       ReconcileSubscription, RestStopped, ConsumerStarted, ReportObservations, Degrade, Leave
  <2>8. ASSUME NEW w \in Workers, BlockStep(w) PROVE Kept(v)
    BY <2>1, <2>4, <2>5, <2>8 DEF BlockStep, BlockStore
  <2>9. ASSUME NEW w \in Workers, ChangeStep(w) PROVE Kept(v)
    BY <2>1, <2>9 DEF ChangeStep, Change, LocallyConverged, Converged, NotConverged, ChangeFails
  <2>10. ASSUME NEW w \in Workers, EnvironmentStep(w) PROVE Kept(v)
    BY <2>1, <2>6, <2>10 DEF EnvironmentStep, ConsumerStep, LeaseExpires, FenceExpires, Shutdown
  <2>11. ASSUME NEW w \in Workers, New(w) PROVE Kept(v)
    BY <2>1, <2>11 DEF New
  <2>12. QED
    BY <2>1, <2>7, <2>8, <2>9, <2>10, <2>11 DEF Next, Register, vars
<1>2. Types /\ [Next]_vars =>
        [ \A w \in Workers : latch[w] /\ pc'[w] # "dead" =>
            latch'[w] /\ (source[w] = "blocked" => source'[w] = "blocked") ]_vars
  BY <1>1
<1>3. QED
  BY <1>2, Inductive, PTL DEF Spec, BlockStays
==============================================================================
