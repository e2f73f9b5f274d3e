------------------------------ MODULE Provision ------------------------------
(***************************************************************************)
(* Provisioning and inspection of one source (internal/provision) through   *)
(* Kafka (internal/adapters/kafka/admin.go), Kafka Connect (adapters/       *)
(* debezium/connector.go), the source database (adapters/sourcepg) and the  *)
(* control store (adapters/controlpg/streams.go).                           *)
(*                                                                          *)
(* Any number of `postie provision` runs and of workers that inspect the    *)
(* source interleave, one call to an outside system at a time.  A run may   *)
(* end at any call: the call fails, the timeout of the source passes, the   *)
(* process dies.  Table, topic, slot and connector change under it.         *)
(***************************************************************************)
EXTENDS Integers, Sequences, Functions

CONSTANTS Provisioners, \* processes that run `postie provision`
          Monitors,     \* workers that inspect the source
          Settings,     \* configurations of the source a process may be given
          Tables,       \* what the source table may look like
          Budgets       \* bound: faults of each kind; a behaviour has one of these

FaultKinds == {"end", "alter", "topic", "slot", "connector"}

ASSUME BudgetAssumption == Budgets \subseteq [FaultKinds -> Nat]
ASSUME SettingsAssumption == \A c \in Settings : c.partitions \in Nat \ {0}
ASSUME ProcessAssumption == Provisioners \cap Monitors = {}

Processes == Provisioners \cup Monitors

VARIABLES
    \* outside systems
    table,          \* the source table, as its catalog describes it
    topic,          \* the Kafka topic
    created,        \* the ID of the last topic created under the name
    slot,           \* wal_status of the replication slot, or "none"
    connector,      \* the Debezium connector
    \* control store
    stream,         \* postie_streams: the registration
    blocked,        \* ... has a block reason
    \* processes
    run,            \* what each process does, and what it has read so far
    \* history, read by the properties only
    worked,         \* connector configurations with which a capture has come up
    broken,         \* table, topic, slot or connector was changed from outside
    budget          \* faults left

outside == <<table, topic, created, slot, connector>>
store   == <<stream, blocked>>
history == <<worked, broken>>
vars    == <<outside, store, run, history, budget>>

-------------------------------------------------------------------------------
(* The capture contract: contract.go *)

Supported == {"int8", "text"}
Integer   == {"int8"}

\* IdentityFrom returns no error.
Conforms(c, facts) ==
    /\ facts.exists
    /\ \A i \in DOMAIN c.columns :
         c.columns[i] \in DOMAIN facts.columns /\ facts.columns[c.columns[i]].type \in Supported
    /\ c.serial \in DOMAIN facts.columns
    /\ facts.columns[c.serial].type \in Integer /\ facts.columns[c.serial].notNull
    /\ facts.serialUniqueIndex
    /\ c.partitioning \in DOMAIN facts.columns /\ facts.columns[c.partitioning].notNull

\* The identity that is frozen: the configuration with the types it found.
IdentityFrom(c, facts) ==
    [serial |-> c.serial, partitioning |-> c.partitioning, partitions |-> c.partitions,
     eventID |-> "event_id" \in Range(c.columns),
     columns |-> [i \in DOMAIN c.columns |->
                    [name |-> c.columns[i], type |-> facts.columns[c.columns[i]].type]]]

NoIdentity == [serial |-> "", partitioning |-> "", partitions |-> 0, eventID |-> FALSE,
               columns |-> <<>>]

\* The names that may differ between two configurations of a source: the others
\* are derived from its scope and ID.
captureNames(c) == c.publication

\* What a connector is told.  Column types are not part of it.
ConnectorConfig(identity, names) ==
    [serial |-> identity.serial, partitioning |-> identity.partitioning, publication |-> names,
     columns |-> [i \in DOMAIN identity.columns |-> identity.columns[i].name]]

\* Mutant: a slot that may still lose its history is taken for a good one.
historyLostOnly(s) == s = "lost"

historyLost(s) == s \in {"lost", "unreserved"}

\* statusFrom: one failed task is a failed connector.
Failed(status) == status.connector = "FAILED" \/ "FAILED" \in Range(status.tasks)

tasksRunning(status) == Range(status.tasks) \subseteq {"RUNNING"}

\* captureReady, in the order of its two reads.
ConnectorReady(status) ==
    status.connector = "RUNNING" /\ status.tasks # <<>> /\ ~Failed(status) /\ tasksRunning(status)

SlotReady(s) == s # "none" /\ ~historyLost(s)

-------------------------------------------------------------------------------
(* Outside systems *)

Up      == [connector |-> "RUNNING", tasks |-> <<"RUNNING">>]
Coming  == [connector |-> "UNASSIGNED", tasks |-> <<>>]
Down    == {[connector |-> "RUNNING", tasks |-> <<>>], [connector |-> "RUNNING", tasks |-> <<"FAILED">>],
            [connector |-> "PAUSED", tasks |-> <<"PAUSED">>], [connector |-> "FAILED", tasks |-> <<>>]}

NoConfig    == ConnectorConfig(NoIdentity, "")
NoConnector == [exists |-> FALSE, wanted |-> NoConfig, live |-> NoConfig, status |-> Coming]
NoTopic     == [exists |-> FALSE, id |-> 0, partitions |-> 0, replicated |-> FALSE,
                configured |-> FALSE, listed |-> FALSE]
NoStream    == [identity |-> NoIdentity, names |-> "", topicID |-> 0]

NoRun       == [pc |-> "idle", identity |-> NoIdentity, names |-> "", topicID |-> 0,
                ready |-> FALSE]

Init ==
    /\ table \in Tables
    /\ topic = NoTopic /\ created = 0 /\ slot = "none" /\ connector = NoConnector
    /\ stream = NoStream /\ blocked = FALSE
    /\ run = [p \in Processes |-> NoRun]
    /\ worked = {} /\ broken = FALSE
    /\ budget \in Budgets

Spend(kind) ==
    /\ budget[kind] > 0
    /\ budget' = [budget EXCEPT ![kind] = @ - 1]

\* The topic appears in the metadata of every broker.
TopicListed ==
    /\ topic.exists /\ ~topic.listed
    /\ topic' = [topic EXCEPT !.listed = TRUE]
    /\ UNCHANGED <<table, created, slot, connector, store, run, history, budget>>

\* Kafka Connect (re)starts the connector with the configuration it has: a slot
\* is created if there is none, a missing topic too, with one partition.  It
\* takes seconds, by when a topic that was created is listed.
ConnectorStarts ==
    /\ connector.exists
    /\ connector.status # Up \/ connector.live # connector.wanted \/ slot = "none"
    /\ topic.exists => topic.listed
    /\ ~historyLost(slot)
    /\ connector' = [connector EXCEPT !.live = connector.wanted, !.status = Up]
    /\ slot' = IF slot = "none" THEN "reserved" ELSE slot
    /\ worked' = worked \cup {connector.wanted}
    /\ IF topic.exists
         THEN UNCHANGED <<topic, created>>
         ELSE /\ created' = created + 1
              /\ topic' = [exists |-> TRUE, id |-> created', partitions |-> 1,
                           replicated |-> TRUE, configured |-> FALSE, listed |-> TRUE]
    /\ UNCHANGED <<table, store, run, broken, budget>>

\* The table is altered or dropped.
AlterTable ==
    /\ Spend("alter")
    /\ table' \in Tables \ {table}
    /\ broken' = TRUE
    /\ UNCHANGED <<topic, created, slot, connector, store, run, worked>>

\* The topic is deleted or given more partitions, or its replicas or its settings
\* are changed, and put right again.
TopicChanges ==
    /\ topic.exists
    /\ \/ /\ Spend("topic") /\ broken' = TRUE
          /\ topic' \in {NoTopic, [topic EXCEPT !.partitions = @ + 1]}
       \/ /\ Spend("topic") /\ UNCHANGED broken
          /\ \/ topic.replicated /\ topic' = [topic EXCEPT !.replicated = FALSE]
             \/ topic.configured /\ topic' = [topic EXCEPT !.configured = FALSE]
       \/ /\ UNCHANGED <<budget, broken>>
          /\ \/ ~topic.replicated /\ topic' = [topic EXCEPT !.replicated = TRUE]
             \/ ~topic.configured /\ topic' = [topic EXCEPT !.configured = TRUE]
    /\ UNCHANGED <<table, created, slot, connector, store, run, worked>>

\* The slot is dropped, or falls behind what PostgreSQL keeps.
SlotChanges ==
    /\ slot # "none" /\ Spend("slot")
    /\ slot' \in {"none", "unreserved", "lost"} \ {slot}
    /\ broken' = TRUE
    /\ UNCHANGED <<table, topic, created, connector, store, run, worked>>

\* The connector is deleted, or is not running for a while.
ConnectorChanges ==
    /\ connector.exists /\ Spend("connector")
    /\ \/ connector' = NoConnector /\ broken' = TRUE
       \/ /\ \E status \in Down : connector' = [connector EXCEPT !.status = status]
          /\ UNCHANGED broken
    /\ UNCHANGED <<table, topic, created, slot, store, run, worked>>

Outside == TopicListed \/ ConnectorStarts \/ AlterTable \/ TopicChanges \/ SlotChanges
             \/ ConnectorChanges

-------------------------------------------------------------------------------
(* ProvisionSource *)

At(p, label) == run[p].pc = label

\* The run ends with an error.
Fails(p) == run' = [run EXCEPT ![p] = NoRun]

\* The table is read first, and the contract applied to what was read.
InspectTable(p, c) ==
    /\ run[p].pc \in {"idle", "ok"}
    /\ IF Conforms(c, table)
         THEN run' = [run EXCEPT ![p] = [NoRun EXCEPT !.pc = "lookup", !.names = captureNames(c),
                                                      !.identity = IdentityFrom(c, table)]]
         ELSE Fails(p)
    /\ UNCHANGED <<outside, store, history, budget>>

\* A registered stream is only verified; a blocked one is refused.
GetStream(p) ==
    /\ At(p, "lookup")
    /\ IF stream # NoStream /\ blocked THEN Fails(p)
       ELSE run' = [run EXCEPT ![p].pc = IF stream = NoStream THEN "find" ELSE "validate topic"]
    /\ UNCHANGED <<outside, store, history, budget>>

\* existingTopic: a topic that is not listed is not there.
TopicListing(partitions) ==
    IF ~topic.listed THEN "missing"
    ELSE IF topic.partitions = partitions /\ topic.replicated /\ topic.configured THEN "good"
    ELSE "bad"

\* Mutant: the ID of a topic that another run created is not taken over.
FindTopicZero(p) ==
    /\ run[p].pc \in {"find", "poll"}
    /\ LET listing == TopicListing(run[p].identity.partitions) IN
         \/ listing = "good" /\ run' = [run EXCEPT ![p].pc = "connect"]
         \/ listing = "bad" /\ Fails(p)
         \/ listing = "missing" /\ At(p, "find") /\ run' = [run EXCEPT ![p].pc = "create"]
    /\ UNCHANGED <<outside, store, history, budget>>

\* EnsureTopic looks for the topic, before it creates it ("find") and after
\* TopicAlreadyExists ("poll"), when it waits for it to appear.
FindTopic(p) ==
    /\ run[p].pc \in {"find", "poll"}
    /\ LET listing == TopicListing(run[p].identity.partitions) IN
         \/ /\ listing = "good"
            /\ run' = [run EXCEPT ![p].pc = "connect", ![p].topicID = topic.id]
         \/ listing = "bad" /\ Fails(p)
         \/ listing = "missing" /\ At(p, "find") /\ run' = [run EXCEPT ![p].pc = "create"]
    /\ UNCHANGED <<outside, store, history, budget>>

CreateTopic(p) ==
    /\ At(p, "create")
    /\ IF topic.exists
         THEN run' = [run EXCEPT ![p].pc = "poll"] /\ UNCHANGED <<topic, created>>
         ELSE /\ created' = created + 1
              /\ topic' = [exists |-> TRUE, id |-> created',
                           partitions |-> run[p].identity.partitions,
                           replicated |-> TRUE, configured |-> TRUE, listed |-> FALSE]
              /\ run' = [run EXCEPT ![p].pc = "connect", ![p].topicID = created']
    /\ UNCHANGED <<table, slot, connector, store, history, budget>>

\* Mutant: a POST, which fails when the connector is there.
EnsureConnectorOnce(p) ==
    /\ At(p, "connect")
    /\ IF connector.exists
         THEN Fails(p) /\ UNCHANGED connector
         ELSE /\ connector' = [NoConnector EXCEPT !.exists = TRUE,
                                 !.wanted = ConnectorConfig(run[p].identity, run[p].names)]
              /\ run' = [run EXCEPT ![p].pc = "await"]
    /\ UNCHANGED <<table, topic, created, slot, store, history, budget>>

\* A PUT: the connector is created, or its configuration replaced.  Kafka
\* Connect answers before it has restarted the tasks.
EnsureConnector(p) ==
    /\ At(p, "connect")
    /\ LET config == ConnectorConfig(run[p].identity, run[p].names) IN
         connector' = IF connector.exists
                        THEN [connector EXCEPT !.wanted = config]
                        ELSE [NoConnector EXCEPT !.exists = TRUE, !.wanted = config]
    /\ run' = [run EXCEPT ![p].pc = "await"]
    /\ UNCHANGED <<table, topic, created, slot, store, history, budget>>

\* Mutant: the stream is registered at once, not last.
AwaitNothing(p) ==
    /\ At(p, "await")
    /\ run' = [run EXCEPT ![p].pc = "register"]
    /\ UNCHANGED <<outside, store, history, budget>>

\* awaitCapture reads the connector's status ...
AwaitCapture(p) ==
    /\ At(p, "await")
    /\ run' = [run EXCEPT ![p].pc = "await slot",
                          ![p].ready = connector.exists /\ ConnectorReady(connector.status)]
    /\ UNCHANGED <<outside, store, history, budget>>

\* ... and then the slot's, until both are ready.
AwaitSlot(p) ==
    /\ At(p, "await slot")
    /\ run' = [run EXCEPT ![p].pc = IF run[p].ready /\ SlotReady(slot) THEN "register" ELSE "await",
                          ![p].ready = FALSE]
    /\ UNCHANGED <<outside, store, history, budget>>

Registration(p) ==
    [identity |-> run[p].identity, names |-> run[p].names, topicID |-> run[p].topicID]

\* Mutant: ON CONFLICT DO UPDATE.
RegisterOver(p) ==
    /\ At(p, "register")
    /\ stream' = Registration(p)
    /\ run' = [run EXCEPT ![p].pc = "ok"]
    /\ UNCHANGED <<outside, blocked, history, budget>>

\* Mutant: ON CONFLICT DO NOTHING, and no comparison.
RegisterUnchecked(p) ==
    /\ At(p, "register")
    /\ stream' = IF stream = NoStream THEN Registration(p) ELSE stream
    /\ run' = [run EXCEPT ![p].pc = "ok"]
    /\ UNCHANGED <<outside, blocked, history, budget>>

\* One transaction: the first registration stays, and another must equal it.
RegisterStream(p) ==
    /\ At(p, "register")
    /\ stream' = IF stream = NoStream THEN Registration(p) ELSE stream
    /\ IF stream' = Registration(p) THEN run' = [run EXCEPT ![p].pc = "ok"] ELSE Fails(p)
    /\ UNCHANGED <<outside, blocked, history, budget>>
-------------------------------------------------------------------------------
(* confirmEstablished: validateRegisteredStream *)

\* The contract error of the first two comparisons.
ValidateIdentity(identity, names) ==
    IF stream.identity # identity \/ stream.names # names THEN "blocked" ELSE "running"

ValidateTopic(identity) ==
    IF ~topic.listed THEN "blocked"
    ELSE IF ~topic.replicated THEN "unavailable"
    ELSE IF topic.id # stream.topicID \/ topic.partitions # identity.partitions THEN "blocked"
    ELSE "running"

ValidateSlot == IF slot = "none" \/ historyLost(slot) THEN "blocked" ELSE "running"

\* It need not run, as long as it has not failed.
ValidateConnector ==
    IF ~connector.exists THEN "blocked"
    ELSE IF Failed(connector.status) THEN "unavailable"
    ELSE "running"

\* One check of a sequence: a broken contract leads to the block, anything else
\* wrong ends the run, and the next check follows.
Check(p, label, finding, next) ==
    /\ At(p, label)
    /\ IF finding = "unavailable" THEN Fails(p)
       ELSE run' = [run EXCEPT ![p].pc = IF finding = "blocked" THEN "block" ELSE next]

\* Two comparisons and three calls.
ConfirmEstablished(p) ==
    /\ \/ Check(p, "validate topic",
                IF ValidateIdentity(run[p].identity, run[p].names) = "blocked"
                  THEN "blocked" ELSE ValidateTopic(run[p].identity), "validate slot")
       \/ Check(p, "validate slot", ValidateSlot, "validate connector")
       \/ Check(p, "validate connector", ValidateConnector, "ok")
    /\ UNCHANGED <<outside, store, history, budget>>

\* The durable block.
BlockSource(p) ==
    /\ At(p, "block") /\ stream # NoStream
    /\ blocked' = TRUE
    /\ Fails(p)
    /\ UNCHANGED <<outside, stream, history, budget>>

-------------------------------------------------------------------------------
(* InspectSource, called by the reconcile loop of a worker *)

\* The worker's loop reads the registration; a blocked one is not inspected.
ReadRegistration(p) ==
    /\ At(p, "idle")
    /\ stream # NoStream /\ ~blocked
    /\ run' = [run EXCEPT ![p] = [NoRun EXCEPT !.pc = "inspect table"]]
    /\ UNCHANGED <<outside, store, history, budget>>

\* inspectIdentity, tableFailure, inspectNames.
InspectIdentity(c) ==
    IF Conforms(c, table) /\ IdentityFrom(c, table) = stream.identity
         /\ captureNames(c) = stream.names
      THEN "running" ELSE "blocked"

InspectTopic ==
    IF ~topic.listed THEN "blocked"
    ELSE IF ~topic.replicated THEN "unavailable"
    ELSE IF topic.id # stream.topicID \/ topic.partitions # stream.identity.partitions THEN "blocked"
    ELSE "running"

InspectSlot == IF slot = "none" \/ historyLost(slot) THEN "blocked" ELSE "running"

\* Mutant: a connector that is not running is a broken contract.
InspectConnectorStrict ==
    IF ~connector.exists \/ ~ConnectorReady(connector.status) THEN "blocked" ELSE "running"

InspectConnector ==
    IF ~connector.exists THEN "blocked"
    ELSE IF ConnectorReady(connector.status) THEN "running" ELSE "unavailable"

\* Four calls; the configuration is the one its process was started with.
InspectSource(p) ==
    /\ \/ \E c \in Settings :
            Check(p, "inspect table", InspectIdentity(c), "inspect topic")
       \/ Check(p, "inspect topic", InspectTopic, "inspect slot")
       \/ Check(p, "inspect slot", InspectSlot, "inspect connector")
       \/ Check(p, "inspect connector", InspectConnector, "idle")
    /\ UNCHANGED <<outside, store, history, budget>>

-------------------------------------------------------------------------------
(* The processes *)

\* The capture is not up, or the topic not listed: a run can only wait.
Waits(p) ==
    \/ At(p, "poll") /\ ~topic.listed
    \/ At(p, "await") /\ ~(connector.exists /\ ConnectorReady(connector.status) /\ SlotReady(slot))

\* A call fails, before or after it took effect, the timeout of the source
\* passes, or the process dies.
End(p) ==
    /\ run[p].pc \notin {"idle", "ok"}
    /\ IF Waits(p) THEN UNCHANGED budget ELSE Spend("end")
    /\ Fails(p)
    /\ UNCHANGED <<outside, store, history>>

\* The calls of ProvisionSource after the first.
ProvisionStep(p) ==
    \/ GetStream(p) \/ ConfirmEstablished(p) \/ BlockSource(p)
    \/ FindTopic(p) \/ CreateTopic(p) \/ EnsureConnector(p) \/ AwaitCapture(p) \/ AwaitSlot(p)
    \/ RegisterStream(p)

MonitorStep(p) == ReadRegistration(p) \/ InspectSource(p) \/ BlockSource(p)

Next ==
    \/ \E p \in Provisioners : (\E c \in Settings : InspectTable(p, c)) \/ ProvisionStep(p)
    \/ \E p \in Monitors : MonitorStep(p)
    \/ \E p \in Processes : End(p)
    \/ Outside

Spec == Init /\ [][Next]_vars

\* Calls return; workers go on inspecting; Kafka lists a topic and Connect
\* starts a connector.  Nothing makes anyone run `postie provision`.
Fairness ==
    /\ \A p \in Provisioners : WF_vars(ProvisionStep(p))
    /\ \A p \in Monitors : WF_vars(MonitorStep(p))
    /\ WF_vars(TopicListed)
    /\ WF_vars(ConnectorStarts)

LiveSpec == Spec /\ Fairness

-------------------------------------------------------------------------------
(* Properties *)

Met(c)     == {IdentityFrom(c, t) : t \in {u \in Tables : Conforms(c, u)}}
Identities == {NoIdentity} \cup (UNION {Met(c) : c \in Settings})
NameSet    == {captureNames(c) : c \in Settings} \cup {""}
Configs    == {ConnectorConfig(i, n) : i \in Identities, n \in NameSet}
Labels     == {"idle", "ok", "lookup", "find", "create", "poll", "connect", "await",
               "await slot", "register", "validate topic", "validate slot", "validate connector",
               "block", "inspect table", "inspect topic", "inspect slot", "inspect connector"}

\* Every variable has its type (TopicFacts, Status, SlotStatus, Registration),
\* and a run that establishes the stream knows the ID of a topic that was
\* created, by itself or by another (EnsureTopic).
TypeOK ==
    /\ table \in Tables
    /\ topic \in [exists : BOOLEAN, id : Nat, partitions : Nat, replicated : BOOLEAN,
                  configured : BOOLEAN, listed : BOOLEAN]
    /\ created \in Nat
    /\ slot \in {"none", "reserved", "unreserved", "lost"}
    /\ connector \in [exists : BOOLEAN, wanted : Configs, live : Configs,
                      status : {Up, Coming} \cup Down]
    /\ stream \in [identity : Identities, names : NameSet, topicID : Nat]
    /\ blocked \in BOOLEAN
    /\ run \in [Processes -> [pc : Labels, identity : Identities, names : NameSet, topicID : Nat,
                              ready : BOOLEAN]]
    /\ worked \subseteq Configs /\ broken \in BOOLEAN
    /\ budget \in [FaultKinds -> Nat]
    /\ \A p \in Processes :
         run[p].pc \in {"connect", "await", "await slot", "register"} =>
           run[p].topicID \in 1 .. created

\* The registration as StreamRegistry sees it.
Registry == INSTANCE StreamRegistry WITH Nothing <- NoStream

\* However many runs establish the source at once, with whatever configurations
\* and dying wherever they do, the first registration is the only one, and a
\* block is never taken back (RegisterStream, BlockSource).
RegistrationFrozen == Registry!Spec

\* A run that reports success has the stream it describes in the store, also
\* when it lost the race to register it (RegisterStream, confirmEstablished).
SuccessIsRegistered ==
    \A p \in Provisioners :
      run[p].pc = "ok" => stream.identity = run[p].identity /\ stream.names = run[p].names

\* "a registration always points at a capture that worked at least once"
\* (establish).
RegisteredCaptureWorked ==
    stream # NoStream => ConnectorConfig(stream.identity, stream.names) \in worked

\* Failures, timeouts, races between runs, a connector that stops and a topic
\* short of replicas never block a stream for good: only a lost or altered table,
\* topic, slot or connector does, where everyone has one configuration (isContract,
\* tableFailure).
BlockedForCause == blocked => broken

\* What provisioning would report as a broken contract is what inspection
\* blocks, and the other way round, where the table meets the contract
\* (validateRegisteredStream, InspectSource).
First(findings) ==
    LET wrong == {i \in DOMAIN findings : findings[i] # "running"} IN
      IF wrong = {} THEN "running" ELSE findings[CHOOSE i \in wrong : \A j \in wrong : i <= j]

VerdictsAgree ==
    stream # NoStream =>
      \A c \in Settings :
        Conforms(c, table) =>
          LET identity == IdentityFrom(c, table)
              names    == captureNames(c) IN
            (First(<<ValidateIdentity(identity, names), ValidateTopic(identity), ValidateSlot,
                     ValidateConnector>>) = "blocked"
               <=> First(<<InspectIdentity(c), InspectTopic, InspectSlot, InspectConnector>>) = "blocked")

\* If runs keep being started the stream is registered in the end, whatever
\* earlier runs left behind, unless the table does not meet the contract, the
\* slot has lost its history, or the topic is not what a run would create
\* (EnsureTopic, EnsureConnector, awaitCapture).
Established ==
    ([]<><<\E p \in Provisioners, c \in Settings : InspectTable(p, c)>>_vars) =>
      <>(\/ stream # NoStream
         \/ \E c \in Settings : ~Conforms(c, table)
         \/ slot \in {"unreserved", "lost"}
         \/ topic.listed /\ \E c \in Settings : TopicListing(c.partitions) = "bad")

\* Kafka reports fewer replicas than configured, and inspection goes no further.
ShortOfReplicas == topic.exists /\ ~topic.replicated

TopicLost ==
    \/ ~topic.exists \/ topic.id # stream.topicID
    \/ topic.partitions # stream.identity.partitions

\* What may be put right from outside before a worker looks.
Untrusted ==
    (\A c \in Settings : InspectIdentity(c) = "blocked") \/ slot = "none" \/ ~connector.exists

\* Once a topic has its replicas ("the first finding wins"), a registered stream
\* whose topic was deleted, replaced or given other partitions is blocked, even
\* if a topic of that name is there again; so is one whose slot has lost history,
\* unless that slot is dropped; so is one whose table, slot or connector is gone
\* and stays gone (InspectSource).
LossIsBlocked ==
    <>[]~ShortOfReplicas =>
      /\ (stream # NoStream /\ TopicLost) ~> blocked
      /\ (stream # NoStream /\ slot \in {"unreserved", "lost"}) ~> (blocked \/ slot = "none")
      /\ <>[](stream # NoStream /\ Untrusted) => <>blocked

\* The documentation: "a missing replication slot, or unavailable history block
\* the affected source or stream.  Postie does not silently skip these
\* conditions".  A slot that was missing is a block (inspectSlot).
MissingSlotBlocked == (stream # NoStream /\ slot = "none") ~> blocked

==============================================================================
