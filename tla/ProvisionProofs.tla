--------------------------- MODULE ProvisionProofs ----------------------------
(***************************************************************************)
(* Proofs about Provision, for every set of provisioning runs, of workers,  *)
(* of configurations and of tables, and any number of faults.               *)
(***************************************************************************)
EXTENDS Provision, TLAPS

TopicSet     == [exists : BOOLEAN, id : Nat, partitions : Nat, replicated : BOOLEAN,
                 configured : BOOLEAN, listed : BOOLEAN]
ConnectorSet == [exists : BOOLEAN, wanted : Configs, live : Configs, status : {Up, Coming} \cup Down]
StreamSet    == [identity : Identities, names : NameSet, topicID : Nat]
RunSet       == [pc : Labels, identity : Identities, names : NameSet, topicID : Nat, ready : BOOLEAN]

OutsideOK ==
    /\ table \in Tables /\ topic \in TopicSet /\ created \in Nat
    /\ slot \in {"none", "reserved", "unreserved", "lost"}
    /\ connector \in ConnectorSet

StoreOK == stream \in StreamSet /\ blocked \in BOOLEAN

RunOK == run \in [Processes -> RunSet]

RestOK == worked \subseteq Configs /\ broken \in BOOLEAN /\ budget \in [FaultKinds -> Nat]

Establishing == {"connect", "await", "await slot", "register"}

\* What a run has read holds: one that establishes the stream knows the ID of a
\* topic that was created; one that validates the stream has found it; and one
\* that is past the comparison has the identity that is registered.
Sound(v) ==
    /\ v.pc \in Establishing => v.topicID \in 1 .. created
    /\ v.pc = "validate topic" => stream # NoStream
    /\ v.pc \in {"validate slot", "validate connector", "ok"} =>
         stream # NoStream /\ stream.identity = v.identity /\ stream.names = v.names

RunsSound == \A p \in Processes : Sound(run[p])

\* The topic that is there was created.
TopicWasCreated == topic.exists \/ topic.listed => topic.id \in 1 .. created

Inv == OutsideOK /\ StoreOK /\ RunOK /\ RestOK /\ RunsSound /\ TopicWasCreated

LEMMA InvIsTypeOK == Inv => TypeOK
  BY DEF Inv, TypeOK, OutsideOK, StoreOK, RunOK, RestOK, RunsSound, Sound, Establishing, TopicSet,
         ConnectorSet, StreamSet, RunSet

-------------------------------------------------------------------------------
(* The values *)

LEMMA NoValues ==
    /\ NoIdentity \in Identities /\ "" \in NameSet /\ NoConfig \in Configs
    /\ NoTopic \in TopicSet /\ NoConnector \in ConnectorSet /\ NoStream \in StreamSet
    /\ NoRun \in RunSet
<1>1. NoIdentity \in Identities /\ "" \in NameSet
  BY DEF Identities, NameSet
<1>2. NoConfig \in Configs
  <2>1. \E i \in Identities, n \in NameSet : NoConfig = ConnectorConfig(i, n)
    BY <1>1 DEF NoConfig
  <2> QED BY <2>1 DEF Configs
<1>3. NoConnector \in ConnectorSet
  BY <1>2 DEF NoConnector, ConnectorSet
<1>4. NoTopic \in TopicSet /\ NoStream \in StreamSet /\ NoRun \in RunSet
  BY <1>1 DEF NoTopic, TopicSet, NoStream, StreamSet, NoRun, RunSet, Labels
<1> QED BY <1>1, <1>2, <1>3, <1>4

LEMMA IdentityType ==
    ASSUME NEW c \in Settings, NEW t \in Tables, Conforms(c, t)
    PROVE  IdentityFrom(c, t) \in Identities /\ captureNames(c) \in NameSet
<1>1. IdentityFrom(c, t) \in Met(c)
  BY DEF Met
<1> QED BY <1>1 DEF Identities, NameSet

LEMMA PartitionsType ==
    ASSUME NEW i \in Identities
    PROVE  i.partitions \in Nat
<1>1. CASE i = NoIdentity
  BY <1>1 DEF NoIdentity
<1>2. ASSUME NEW c \in Settings, i \in Met(c) PROVE i.partitions \in Nat
  <2>1. PICK t \in Tables : i = IdentityFrom(c, t)
    BY <1>2 DEF Met
  <2>2. i.partitions = c.partitions
    BY <2>1 DEF IdentityFrom
  <2> QED BY <2>2, SettingsAssumption
<1> QED BY <1>1, <1>2 DEF Identities

LEMMA ConfigType ==
    ASSUME NEW i \in Identities, NEW n \in NameSet
    PROVE  ConnectorConfig(i, n) \in Configs
  BY DEF Configs

LEMMA StatusType == Up \in {Up, Coming} \cup Down /\ Down \subseteq {Up, Coming} \cup Down
  OBVIOUS

-------------------------------------------------------------------------------
(* The invariant *)

LEMMA InvInitial == Init => Inv
<1> SUFFICES ASSUME Init PROVE Inv
  OBVIOUS
<1>1. OutsideOK /\ StoreOK /\ RunOK
  BY NoValues DEF Init, OutsideOK, StoreOK, RunOK
<1>2. RestOK
  BY BudgetAssumption DEF Init, RestOK
<1>3. RunsSound /\ TopicWasCreated
  BY DEF Init, RunsSound, Sound, TopicWasCreated, NoRun, NoTopic, Establishing
<1> QED BY <1>1, <1>2, <1>3 DEF Inv

LEMMA SpendType ==
    ASSUME RestOK, NEW kind \in FaultKinds, Spend(kind)
    PROVE  budget' \in [FaultKinds -> Nat]
  BY DEF Spend, RestOK

\* What was read stays sound as long as topics are only created and the first
\* registration stays.
LEMMA SoundGrows ==
    ASSUME NEW v, Sound(v), created \in Nat, created' \in Nat, created' >= created,
           stream' = stream \/ stream = NoStream
    PROVE  Sound(v)'
<1>1. v.pc \in Establishing => v.topicID \in 1 .. created'
  <2>1. \A n \in 1 .. created : n \in 1 .. created'
    OBVIOUS
  <2> QED BY <2>1, Zenon DEF Sound
<1>2. v.pc = "validate topic" => stream' # NoStream
  BY DEF Sound
<1>3. v.pc \in {"validate slot", "validate connector", "ok"} =>
        stream' # NoStream /\ stream'.identity = v.identity /\ stream'.names = v.names
  BY DEF Sound
<1> QED BY <1>1, <1>2, <1>3 DEF Sound

\* Steps outside Postie leave runs and store alone.
LEMMA SoundStays ==
    ASSUME Inv, UNCHANGED <<stream, run>>, created' \in Nat, created' >= created
    PROVE  RunOK' /\ RunsSound'
<1>1. \A p \in Processes : Sound(run[p]) /\ run'[p] = run[p]
  BY DEF Inv, RunsSound
<1>2. ASSUME NEW p \in Processes PROVE Sound(run[p])'
  <2> DEFINE v == run[p]
  <2>1. \A u : Sound(u) => Sound(u)'
    BY SoundGrows DEF Inv, OutsideOK
  <2> QED BY <1>1, <2>1 DEF Sound
<1> QED BY <1>2 DEF RunsSound, Inv, RunOK

LEMMA OutsideKeeps == Inv /\ Outside => Inv'
<1> SUFFICES ASSUME Inv, Outside PROVE Inv'
  OBVIOUS
<1> USE DEF Inv, OutsideOK, store, history
<1>1. CASE TopicListed
  <2>1. OutsideOK' /\ StoreOK' /\ RestOK'
    BY <1>1 DEF TopicListed, StoreOK, RestOK, TopicSet
  <2>2. RunOK' /\ RunsSound'
    BY <1>1, SoundStays DEF TopicListed
  <2>3. TopicWasCreated'
    BY <1>1 DEF TopicListed, TopicWasCreated, TopicSet
  <2> QED BY <2>1, <2>2, <2>3
<1>2. CASE ConnectorStarts
  <2>1. /\ created' \in Nat /\ created' >= created /\ topic' \in TopicSet
        /\ TopicWasCreated'
    <3>1. CASE topic.exists
      BY <1>2, <3>1 DEF ConnectorStarts, TopicWasCreated
    <3>2. CASE ~topic.exists
      <4>1. /\ created' = created + 1
            /\ topic' = [exists |-> TRUE, id |-> created', partitions |-> 1,
                         replicated |-> TRUE, configured |-> FALSE, listed |-> TRUE]
        BY <1>2, <3>2 DEF ConnectorStarts
      <4> QED BY <4>1 DEF TopicSet, TopicWasCreated
    <3> QED BY <3>1, <3>2
  <2>2. connector.wanted \in Configs
    BY DEF ConnectorSet
  <2>3. connector' \in ConnectorSet /\ worked' \subseteq Configs
    BY <1>2, <2>2, StatusType DEF ConnectorStarts, ConnectorSet, RestOK
  <2>4. slot' \in {"none", "reserved", "unreserved", "lost"}
    BY <1>2 DEF ConnectorStarts
  <2>5. OutsideOK' /\ StoreOK' /\ RestOK'
    BY <1>2, <2>1, <2>3, <2>4 DEF ConnectorStarts, StoreOK, RestOK
  <2>6. RunOK' /\ RunsSound'
    BY <1>2, <2>1, SoundStays DEF ConnectorStarts
  <2> QED BY <2>1, <2>5, <2>6
<1>3. CASE AlterTable
  <2>1. budget' \in [FaultKinds -> Nat]
    BY <1>3, SpendType DEF AlterTable, FaultKinds
  <2>2. OutsideOK' /\ StoreOK' /\ RestOK' /\ TopicWasCreated'
    BY <1>3, <2>1 DEF AlterTable, StoreOK, RestOK, TopicWasCreated
  <2> QED BY <1>3, <2>2, SoundStays DEF AlterTable
<1>4. CASE TopicChanges
  <2>1. budget' \in [FaultKinds -> Nat] /\ broken' \in BOOLEAN
    BY <1>4, SpendType DEF TopicChanges, FaultKinds, RestOK
  <2>2. topic' \in TopicSet /\ TopicWasCreated'
    <3>1. topic \in TopicSet /\ topic.partitions + 1 \in Nat
      BY DEF TopicSet
    <3>2. CASE topic' = NoTopic
      BY <1>4, <3>2, NoValues DEF TopicChanges, TopicSet, TopicWasCreated, NoTopic
    <3>3. CASE topic' = [topic EXCEPT !.partitions = @ + 1]
      BY <1>4, <3>1, <3>3 DEF TopicChanges, TopicSet, TopicWasCreated
    <3>4. CASE topic' \in {[topic EXCEPT !.replicated = b] : b \in BOOLEAN}
                         \cup {[topic EXCEPT !.configured = b] : b \in BOOLEAN}
      BY <1>4, <3>1, <3>4 DEF TopicChanges, TopicSet, TopicWasCreated
    <3>5. QED
      BY <1>4, <3>2, <3>3, <3>4 DEF TopicChanges
  <2>3. OutsideOK' /\ StoreOK' /\ RestOK'
    BY <1>4, <2>1, <2>2 DEF TopicChanges, StoreOK, RestOK
  <2> QED BY <1>4, <2>2, <2>3, SoundStays DEF TopicChanges
<1>5. CASE SlotChanges
  <2>1. budget' \in [FaultKinds -> Nat]
    BY <1>5, SpendType DEF SlotChanges, FaultKinds
  <2>2. OutsideOK' /\ StoreOK' /\ RestOK' /\ TopicWasCreated'
    BY <1>5, <2>1 DEF SlotChanges, StoreOK, RestOK, TopicWasCreated
  <2> QED BY <1>5, <2>2, SoundStays DEF SlotChanges
<1>6. CASE ConnectorChanges
  <2>1. budget' \in [FaultKinds -> Nat] /\ broken' \in BOOLEAN
    BY <1>6, SpendType DEF ConnectorChanges, FaultKinds, RestOK
  <2>2. connector' \in ConnectorSet
    <3>1. CASE connector' = NoConnector
      BY <3>1, NoValues
    <3>2. CASE \E status \in Down : connector' = [connector EXCEPT !.status = status]
      BY <3>2 DEF ConnectorSet
    <3> QED BY <1>6, <3>1, <3>2 DEF ConnectorChanges
  <2>3. OutsideOK' /\ StoreOK' /\ RestOK' /\ TopicWasCreated'
    BY <1>6, <2>1, <2>2 DEF ConnectorChanges, StoreOK, RestOK, TopicWasCreated
  <2> QED BY <1>6, <2>3, SoundStays DEF ConnectorChanges
<1> QED BY <1>1, <1>2, <1>3, <1>4, <1>5, <1>6 DEF Outside

\* A process goes on with v.
LEMMA RunKeeps ==
    ASSUME Inv, NEW p \in Processes, NEW v \in RunSet, run' = [run EXCEPT ![p] = v],
           created' \in Nat, created' >= created, stream' = stream \/ stream = NoStream, Sound(v)'
    PROVE  RunOK' /\ RunsSound'
<1>1. RunOK'
  BY DEF Inv, RunOK
<1>2. ASSUME NEW q \in Processes PROVE Sound(run[q])'
  <2>1. CASE q = p
    <3>1. run'[q] = v
      BY <2>1 DEF Inv, RunOK
    <3> QED BY <3>1 DEF Sound
  <2>2. CASE q # p
    <3>1. run'[q] = run[q] /\ Sound(run[q])
      BY <1>2, <2>2 DEF Inv, RunOK, RunsSound
    <3>2. \A u : Sound(u) => Sound(u)'
      BY SoundGrows DEF Inv, OutsideOK
    <3> QED BY <3>1, <3>2 DEF Sound
  <2> QED BY <2>1, <2>2
<1> QED BY <1>1, <1>2 DEF RunsSound

\* ... and when it changes nothing else.
LEMMA ReadOnlyKeeps ==
    ASSUME Inv, NEW p \in Processes, NEW v \in RunSet, run' = [run EXCEPT ![p] = v], Sound(v),
           UNCHANGED <<outside, store, history>>, budget' \in [FaultKinds -> Nat]
    PROVE  Inv'
<1>1. RunOK' /\ RunsSound'
  <2>1. Sound(v)'
    BY DEF Sound, outside, store
  <2>2. created' \in Nat /\ created' >= created /\ stream' = stream
    BY DEF outside, store, Inv, OutsideOK
  <2> QED BY <2>1, <2>2, RunKeeps
<1>2. OutsideOK' /\ StoreOK' /\ RestOK' /\ TopicWasCreated'
  BY DEF Inv, OutsideOK, StoreOK, RestOK, TopicWasCreated, outside, store, history
<1> QED BY <1>1, <1>2 DEF Inv

\* A run may always end.
LEMMA NoRunSound == NoRun \in RunSet /\ Sound(NoRun)
  BY NoValues DEF Sound, NoRun, Establishing
\* A run at another label.
LEMMA LabelType ==
    ASSUME Inv, NEW p \in Processes, NEW label \in Labels
    PROVE  LET v == [run[p] EXCEPT !.pc = label] IN
             /\ v \in RunSet /\ v.pc = label /\ v.topicID = run[p].topicID
             /\ v.identity = run[p].identity /\ v.names = run[p].names
             /\ [run EXCEPT ![p].pc = label] = [run EXCEPT ![p] = v]
<1>1. run[p] \in RunSet /\ run \in [Processes -> RunSet]
  BY DEF Inv, RunOK
<1> QED BY <1>1 DEF RunSet

\* A run that goes on with a topic.
LEMMA TopicIDType ==
    ASSUME Inv, NEW p \in Processes, NEW n \in Nat
    PROVE  LET v == [run[p] EXCEPT !.pc = "connect", !.topicID = n] IN
             /\ v \in RunSet /\ v.pc = "connect" /\ v.topicID = n
             /\ [run EXCEPT ![p].pc = "connect", ![p].topicID = n] = [run EXCEPT ![p] = v]
<1>1. run[p] \in RunSet /\ run \in [Processes -> RunSet]
  BY DEF Inv, RunOK
<1>2. "connect" \in Labels
  BY DEF Labels
<1> QED BY <1>1, <1>2 DEF RunSet

\* One check of a sequence.
LEMMA CheckKeeps ==
    ASSUME Inv, NEW p \in Processes, NEW label, NEW finding, NEW next \in Labels,
           Check(p, label, finding, next), UNCHANGED <<outside, store, history, budget>>,
           finding # "blocked" => Sound([run[p] EXCEPT !.pc = next])
    PROVE  Inv'
<1>1. budget' \in [FaultKinds -> Nat]
  BY DEF Inv, RestOK
<1>2. CASE finding = "unavailable"
  BY <1>1, <1>2, NoRunSound, ReadOnlyKeeps DEF Check, Fails
<1>3. CASE finding # "unavailable" /\ finding = "blocked"
  <2> DEFINE v == [run[p] EXCEPT !.pc = "block"]
  <2>1. v \in RunSet /\ v.pc = "block" /\ [run EXCEPT ![p].pc = "block"] = [run EXCEPT ![p] = v]
    BY LabelType DEF Labels
  <2>2. Sound(v)
    BY <2>1 DEF Sound, Establishing
  <2>3. run' = [run EXCEPT ![p] = v]
    BY <1>3, <2>1 DEF Check
  <2> QED BY <1>1, <2>1, <2>2, <2>3, ReadOnlyKeeps
<1>4. CASE finding # "unavailable" /\ finding # "blocked"
  <2> DEFINE v == [run[p] EXCEPT !.pc = next]
  <2>1. v \in RunSet /\ run' = [run EXCEPT ![p] = v]
    BY <1>4, LabelType DEF Check
  <2> QED BY <1>1, <1>4, <2>1, ReadOnlyKeeps
<1> QED BY <1>2, <1>3, <1>4

LEMMA InspectTableKeeps ==
    ASSUME Inv, NEW p \in Processes, NEW c \in Settings, InspectTable(p, c)
    PROVE  Inv'
<1>1. budget' \in [FaultKinds -> Nat] /\ table \in Tables
  BY DEF Inv, RestOK, OutsideOK, InspectTable
<1>2. CASE Conforms(c, table)
  <2> DEFINE v == [NoRun EXCEPT !.pc = "lookup", !.names = captureNames(c),
                                !.identity = IdentityFrom(c, table)]
  <2>1. v \in RunSet /\ v.pc = "lookup"
    BY <1>1, <1>2, IdentityType, NoValues DEF RunSet, Labels, NoRun
  <2>2. Sound(v)
    BY <2>1 DEF Sound, Establishing
  <2>3. run' = [run EXCEPT ![p] = v]
    BY <1>2 DEF InspectTable
  <2> QED BY <1>1, <2>1, <2>2, <2>3, ReadOnlyKeeps DEF InspectTable
<1>3. CASE ~Conforms(c, table)
  BY <1>1, <1>3, NoRunSound, ReadOnlyKeeps DEF InspectTable, Fails
<1> QED BY <1>2, <1>3

LEMMA GetStreamKeeps ==
    ASSUME Inv, NEW p \in Processes, GetStream(p)
    PROVE  Inv'
<1>1. budget' \in [FaultKinds -> Nat]
  BY DEF Inv, RestOK, GetStream
<1>2. CASE stream # NoStream /\ blocked
  BY <1>1, <1>2, NoRunSound, ReadOnlyKeeps DEF GetStream, Fails
<1>3. CASE ~(stream # NoStream /\ blocked)
  <2> DEFINE label == IF stream = NoStream THEN "find" ELSE "validate topic"
             v     == [run[p] EXCEPT !.pc = label]
  <2>1. v \in RunSet /\ v.pc = label /\ [run EXCEPT ![p].pc = label] = [run EXCEPT ![p] = v]
    <3>1. label \in Labels
      BY DEF Labels
    <3> HIDE DEF label
    <3> QED BY <3>1, LabelType
  <2>2. Sound(v)
    <3>1. v.pc = "find" \/ (v.pc = "validate topic" /\ stream # NoStream)
      BY <2>1
    <3> HIDE DEF v
    <3> QED BY <3>1 DEF Sound, Establishing
  <2>3. run' = [run EXCEPT ![p] = v]
    BY <1>3, <2>1 DEF GetStream
  <2> QED BY <1>1, <2>1, <2>2, <2>3, ReadOnlyKeeps DEF GetStream
<1> QED BY <1>2, <1>3

LEMMA FindTopicKeeps ==
    ASSUME Inv, NEW p \in Processes, FindTopic(p)
    PROVE  Inv'
<1> DEFINE listing == TopicListing(run[p].identity.partitions)
<1>1. budget' \in [FaultKinds -> Nat]
  BY DEF Inv, RestOK, FindTopic
<1>2. CASE listing = "good" /\ run' = [run EXCEPT ![p].pc = "connect", ![p].topicID = topic.id]
  <2> DEFINE v == [run[p] EXCEPT !.pc = "connect", !.topicID = topic.id]
  <2>1. topic.id \in 1 .. created /\ topic.id \in Nat
    BY <1>2 DEF TopicListing, Inv, TopicWasCreated, OutsideOK, TopicSet
  <2>2. /\ v \in RunSet /\ v.pc = "connect" /\ v.topicID = topic.id
        /\ run' = [run EXCEPT ![p] = v]
    <3>1. /\ v \in RunSet /\ v.pc = "connect" /\ v.topicID = topic.id
          /\ [run EXCEPT ![p].pc = "connect", ![p].topicID = topic.id] = [run EXCEPT ![p] = v]
      BY <2>1, TopicIDType
    <3> QED BY <1>2, <3>1
  <2>3. Sound(v)
    BY <2>1, <2>2 DEF Sound, Establishing
  <2> QED BY <1>1, <2>2, <2>3, ReadOnlyKeeps DEF FindTopic
<1>3. CASE Fails(p)
  BY <1>1, <1>3, NoRunSound, ReadOnlyKeeps DEF FindTopic, Fails
<1>4. CASE run' = [run EXCEPT ![p].pc = "create"]
  <2> DEFINE v == [run[p] EXCEPT !.pc = "create"]
  <2>1. v \in RunSet /\ v.pc = "create" /\ run' = [run EXCEPT ![p] = v]
    <3>1. v \in RunSet /\ v.pc = "create" /\ [run EXCEPT ![p].pc = "create"] = [run EXCEPT ![p] = v]
      BY LabelType DEF Labels
    <3> QED BY <1>4, <3>1
  <2>2. Sound(v)
    BY <2>1 DEF Sound, Establishing
  <2> QED BY <1>1, <2>1, <2>2, ReadOnlyKeeps DEF FindTopic
<1> QED BY <1>2, <1>3, <1>4 DEF FindTopic

LEMMA CreateTopicKeeps ==
    ASSUME Inv, NEW p \in Processes, CreateTopic(p)
    PROVE  Inv'
<1>1. budget' \in [FaultKinds -> Nat] /\ created \in Nat
  BY DEF Inv, RestOK, CreateTopic, OutsideOK
<1>2. CASE topic.exists
  <2> DEFINE v == [run[p] EXCEPT !.pc = "poll"]
  <2>1. v \in RunSet /\ v.pc = "poll" /\ run' = [run EXCEPT ![p] = v]
    <3>1. v \in RunSet /\ v.pc = "poll" /\ [run EXCEPT ![p].pc = "poll"] = [run EXCEPT ![p] = v]
      BY LabelType DEF Labels
    <3> QED BY <1>2, <3>1 DEF CreateTopic
  <2>2. Sound(v)
    BY <2>1 DEF Sound, Establishing
  <2> QED BY <1>1, <1>2, <2>1, <2>2, ReadOnlyKeeps DEF CreateTopic, outside
<1>3. CASE ~topic.exists
  <2>1. PICK n \in Nat : n = created + 1
    BY <1>1
  <2>2. PICK v : v = [run[p] EXCEPT !.pc = "connect", !.topicID = n]
    OBVIOUS
  <2>3. /\ v \in RunSet /\ v.pc = "connect" /\ v.topicID = n
        /\ [run EXCEPT ![p].pc = "connect", ![p].topicID = n] = [run EXCEPT ![p] = v]
    BY <2>2, TopicIDType
  <2>4. /\ created' = n /\ created' \in Nat /\ created' >= created
        /\ topic' = [exists |-> TRUE, id |-> n, partitions |-> run[p].identity.partitions,
                     replicated |-> TRUE, configured |-> TRUE, listed |-> FALSE]
        /\ run' = [run EXCEPT ![p] = v]
        /\ UNCHANGED <<table, slot, connector, store, history, budget>>
    BY <1>1, <1>3, <2>1, <2>3 DEF CreateTopic
  <2>5. Sound(v)'
    BY <1>1, <2>1, <2>4, <2>3 DEF Sound, Establishing
  <2>6. run[p].identity.partitions \in Nat
    BY PartitionsType DEF Inv, RunOK, RunSet
  <2>7. RunOK' /\ RunsSound'
    BY <2>4, <2>3, <2>5, RunKeeps DEF store
  <2>8. OutsideOK' /\ TopicWasCreated'
    BY <1>1, <2>1, <2>4, <2>6 DEF Inv, OutsideOK, TopicSet, TopicWasCreated
  <2>9. StoreOK' /\ RestOK'
    BY <2>4 DEF Inv, StoreOK, RestOK, store, history
  <2> QED BY <2>7, <2>8, <2>9 DEF Inv
<1> QED BY <1>2, <1>3
LEMMA EnsureConnectorKeeps ==
    ASSUME Inv, NEW p \in Processes, EnsureConnector(p)
    PROVE  Inv'
<1>1. PICK v : v = [run[p] EXCEPT !.pc = "await"]
  OBVIOUS
<1>2. /\ v \in RunSet /\ v.pc = "await" /\ v.topicID = run[p].topicID
      /\ run' = [run EXCEPT ![p] = v]
  <2>1. /\ v \in RunSet /\ v.pc = "await" /\ v.topicID = run[p].topicID
        /\ [run EXCEPT ![p].pc = "await"] = [run EXCEPT ![p] = v]
    BY <1>1, LabelType DEF Labels
  <2> QED BY <2>1 DEF EnsureConnector
<1>3. v.topicID \in 1 .. created
  BY <1>2 DEF EnsureConnector, At, Inv, RunsSound, Sound, Establishing
<1>4. UNCHANGED <<table, topic, created, slot, stream, blocked, worked, broken, budget>>
  BY DEF EnsureConnector, store, history
<1>5. Sound(v)'
  BY <1>2, <1>3, <1>4 DEF Sound, Establishing
<1>6. RunOK' /\ RunsSound'
  <2>1. created' \in Nat /\ created' >= created
    BY <1>4 DEF Inv, OutsideOK
  <2> QED BY <1>2, <1>4, <1>5, <2>1, RunKeeps
<1>7. connector' \in ConnectorSet
  <2> DEFINE config == ConnectorConfig(run[p].identity, run[p].names)
  <2>1. config \in Configs
    BY ConfigType DEF Inv, RunOK, RunSet
  <2>2. connector' = IF connector.exists
                       THEN [connector EXCEPT !.wanted = config]
                       ELSE [NoConnector EXCEPT !.exists = TRUE, !.wanted = config]
    BY DEF EnsureConnector
  <2> HIDE DEF config
  <2> QED BY <2>1, <2>2, NoValues DEF Inv, OutsideOK, ConnectorSet
<1>8. OutsideOK' /\ StoreOK' /\ RestOK' /\ TopicWasCreated'
  BY <1>4, <1>7 DEF Inv, OutsideOK, StoreOK, RestOK, TopicWasCreated
<1> QED BY <1>6, <1>8 DEF Inv

LEMMA AwaitCaptureKeeps ==
    ASSUME Inv, NEW p \in Processes, AwaitCapture(p)
    PROVE  Inv'
<1> DEFINE good == connector.exists /\ ConnectorReady(connector.status)
           v    == [run[p] EXCEPT !.pc = "await slot", !.ready = good]
<1>1. budget' \in [FaultKinds -> Nat]
  BY DEF Inv, RestOK, AwaitCapture
<1>2. run[p] \in RunSet /\ run \in [Processes -> RunSet] /\ "await slot" \in Labels
  BY DEF Inv, RunOK, Labels
<1>3. good \in BOOLEAN
  BY DEF Inv, OutsideOK, ConnectorSet, ConnectorReady
<1>4. run' = [run EXCEPT ![p].pc = "await slot", ![p].ready = good]
  BY DEF AwaitCapture
<1> HIDE DEF good
<1>5. /\ v \in RunSet /\ v.pc = "await slot" /\ v.topicID = run[p].topicID
      /\ run' = [run EXCEPT ![p] = v]
  BY <1>2, <1>3, <1>4 DEF RunSet
<1>6. run[p].topicID \in 1 .. created
  BY DEF AwaitCapture, At, Inv, RunsSound, Sound, Establishing
<1>7. Sound(v)
  <2> HIDE DEF v
  <2> QED BY <1>5, <1>6 DEF Sound, Establishing
<1> QED BY <1>1, <1>5, <1>7, ReadOnlyKeeps DEF AwaitCapture

LEMMA AwaitSlotKeeps ==
    ASSUME Inv, NEW p \in Processes, AwaitSlot(p)
    PROVE  Inv'
<1> DEFINE label == IF run[p].ready /\ SlotReady(slot) THEN "register" ELSE "await"
           v     == [run[p] EXCEPT !.pc = label, !.ready = FALSE]
<1>1. budget' \in [FaultKinds -> Nat]
  BY DEF Inv, RestOK, AwaitSlot
<1>2. run[p] \in RunSet /\ run \in [Processes -> RunSet]
  BY DEF Inv, RunOK
<1>3. label \in {"register", "await"} /\ label \in Labels
  BY DEF Labels
<1>4. run' = [run EXCEPT ![p].pc = label, ![p].ready = FALSE]
  BY DEF AwaitSlot
<1> HIDE DEF label
<1>5. /\ v \in RunSet /\ v.pc = label /\ v.topicID = run[p].topicID
      /\ run' = [run EXCEPT ![p] = v]
  BY <1>2, <1>3, <1>4 DEF RunSet
<1>6. run[p].topicID \in 1 .. created
  BY DEF AwaitSlot, At, Inv, RunsSound, Sound, Establishing
<1>7. Sound(v)
  <2> HIDE DEF v
  <2> QED BY <1>3, <1>5, <1>6 DEF Sound, Establishing
<1> QED BY <1>1, <1>5, <1>7, ReadOnlyKeeps DEF AwaitSlot

\* What a run registers is a registration: it knows its topic.
LEMMA RegistrationType ==
    ASSUME Inv, NEW p \in Processes, At(p, "register")
    PROVE  Registration(p) \in StreamSet /\ Registration(p) # NoStream
<1>1. run[p].topicID \in 1 .. created /\ run[p] \in RunSet
  BY DEF At, Inv, RunOK, RunsSound, Sound, Establishing
<1>2. Registration(p).topicID # 0
  BY <1>1 DEF Registration, Inv, OutsideOK
<1> QED BY <1>1, <1>2 DEF Registration, StreamSet, RunSet, NoStream

LEMMA RegisterStreamKeeps ==
    ASSUME Inv, NEW p \in Processes, RegisterStream(p)
    PROVE  Inv'
<1>1. /\ stream' = IF stream = NoStream THEN Registration(p) ELSE stream
      /\ UNCHANGED <<table, topic, created, slot, connector, blocked, worked, broken, budget>>
      /\ created \in Nat /\ created' >= created
  BY DEF RegisterStream, outside, history, Inv, OutsideOK
<1>2. stream' # NoStream /\ stream' \in StreamSet /\ (stream' = stream \/ stream = NoStream)
  BY <1>1, RegistrationType DEF RegisterStream, Inv, StoreOK
<1>3. RunOK' /\ RunsSound'
  <2>1. CASE stream' = Registration(p)
    <3>1. PICK v : v = [run[p] EXCEPT !.pc = "ok"]
      OBVIOUS
    <3>2. /\ v \in RunSet /\ v.pc = "ok" /\ v.identity = run[p].identity /\ v.names = run[p].names
          /\ [run EXCEPT ![p].pc = "ok"] = [run EXCEPT ![p] = v]
      BY <3>1, LabelType DEF Labels
    <3>3. run' = [run EXCEPT ![p] = v]
      BY <2>1, <3>2 DEF RegisterStream
    <3>4. stream'.identity = v.identity /\ stream'.names = v.names
      BY <2>1, <3>2 DEF Registration
    <3>5. Sound(v)'
      BY <1>2, <3>2, <3>4 DEF Sound, Establishing
    <3> QED BY <1>1, <1>2, <3>2, <3>3, <3>5, RunKeeps
  <2>2. CASE stream' # Registration(p)
    <3>1. Sound(NoRun)'
      BY DEF Sound, NoRun, Establishing
    <3>2. run' = [run EXCEPT ![p] = NoRun]
      BY <2>2 DEF RegisterStream, Fails
    <3> QED BY <1>1, <1>2, <3>1, <3>2, NoRunSound, RunKeeps
  <2> QED BY <2>1, <2>2
<1>4. OutsideOK' /\ StoreOK' /\ RestOK' /\ TopicWasCreated'
  BY <1>1, <1>2 DEF Inv, OutsideOK, StoreOK, RestOK, TopicWasCreated
<1> QED BY <1>3, <1>4 DEF Inv

LEMMA ConfirmKeeps ==
    ASSUME Inv, NEW p \in Processes, ConfirmEstablished(p)
    PROVE  Inv'
<1>1. UNCHANGED <<outside, store, history, budget>>
  BY DEF ConfirmEstablished
<1>3. Sound(run[p])
  BY DEF Inv, RunsSound
<1>4. \A label \in Labels :
        LET v == [run[p] EXCEPT !.pc = label] IN
          v.pc = label /\ v.identity = run[p].identity /\ v.names = run[p].names
  BY LabelType
<1>5. ASSUME NEW label \in {"validate slot", "validate connector", "ok"},
             stream # NoStream, stream.identity = run[p].identity, stream.names = run[p].names
      PROVE  Sound([run[p] EXCEPT !.pc = label])
  <2>1. label \in Labels
    BY DEF Labels
  <2>2. PICK v : v = [run[p] EXCEPT !.pc = label]
    OBVIOUS
  <2>3. v.pc = label /\ v.identity = run[p].identity /\ v.names = run[p].names
    BY <1>4, <2>1, <2>2
  <2>4. Sound(v)
    BY <1>5, <2>3 DEF Sound, Establishing
  <2> QED BY <2>2, <2>4
<1>6. CASE Check(p, "validate topic",
                 IF ValidateIdentity(run[p].identity, run[p].names) = "blocked"
                   THEN "blocked" ELSE ValidateTopic(run[p].identity), "validate slot")
  <2> DEFINE finding == IF ValidateIdentity(run[p].identity, run[p].names) = "blocked"
                          THEN "blocked" ELSE ValidateTopic(run[p].identity)
  <2>1. stream # NoStream
    BY <1>3, <1>6 DEF Check, At, Sound
  <2>2. finding # "blocked" =>
          stream.identity = run[p].identity /\ stream.names = run[p].names
    BY DEF ValidateIdentity
  <2>3. Check(p, "validate topic", finding, "validate slot") /\ "validate slot" \in Labels
    BY <1>6 DEF Labels
  <2> HIDE DEF finding
  <2> QED BY <1>1, <1>5, <2>1, <2>2, <2>3, CheckKeeps
<1>7. CASE Check(p, "validate slot", ValidateSlot, "validate connector")
  <2>1. stream # NoStream /\ stream.identity = run[p].identity /\ stream.names = run[p].names
    BY <1>3, <1>7 DEF Check, At, Sound
  <2>2. "validate connector" \in Labels
    BY DEF Labels
  <2> QED BY <1>1, <1>5, <1>7, <2>1, <2>2, CheckKeeps
<1>8. CASE Check(p, "validate connector", ValidateConnector, "ok")
  <2>1. stream # NoStream /\ stream.identity = run[p].identity /\ stream.names = run[p].names
    BY <1>3, <1>8 DEF Check, At, Sound
  <2>2. "ok" \in Labels
    BY DEF Labels
  <2> QED BY <1>1, <1>5, <1>8, <2>1, <2>2, CheckKeeps
<1> QED BY <1>6, <1>7, <1>8 DEF ConfirmEstablished

LEMMA BlockSourceKeeps ==
    ASSUME Inv, NEW p \in Processes, BlockSource(p)
    PROVE  Inv'
<1>1. /\ run' = [run EXCEPT ![p] = NoRun] /\ blocked' = TRUE
      /\ UNCHANGED <<table, topic, created, slot, connector, stream, worked, broken, budget>>
      /\ created' \in Nat /\ created' >= created
  BY DEF BlockSource, Fails, outside, history, Inv, OutsideOK
<1>2. Sound(NoRun)'
  BY DEF Sound, NoRun, Establishing
<1>3. RunOK' /\ RunsSound'
  BY <1>1, <1>2, NoRunSound, RunKeeps
<1>4. OutsideOK' /\ StoreOK' /\ RestOK' /\ TopicWasCreated'
  BY <1>1 DEF Inv, OutsideOK, StoreOK, RestOK, TopicWasCreated
<1> QED BY <1>3, <1>4 DEF Inv

LEMMA MonitorKeeps ==
    ASSUME Inv, NEW p \in Processes, ReadRegistration(p) \/ InspectSource(p)
    PROVE  Inv'
<1>1. UNCHANGED <<outside, store, history, budget>> /\ budget' \in [FaultKinds -> Nat]
  BY DEF ReadRegistration, InspectSource, Inv, RestOK
<1>2. CASE ReadRegistration(p)
  <2> DEFINE v == [NoRun EXCEPT !.pc = "inspect table"]
  <2>1. v \in RunSet /\ v.pc = "inspect table"
    BY NoValues DEF RunSet, Labels
  <2>2. run' = [run EXCEPT ![p] = v]
    BY <1>2 DEF ReadRegistration
  <2> HIDE DEF v
  <2>3. Sound(v)
    BY <2>1 DEF Sound, Establishing
  <2> QED BY <1>1, <2>1, <2>2, <2>3, ReadOnlyKeeps
<1>3. CASE InspectSource(p)
  <2>1. ASSUME NEW label \in {"inspect topic", "inspect slot", "inspect connector", "idle"}
        PROVE  label \in Labels /\ Sound([run[p] EXCEPT !.pc = label])
    <3>1. label \in Labels
      BY DEF Labels
    <3>2. PICK v : v = [run[p] EXCEPT !.pc = label]
      OBVIOUS
    <3>3. v.pc = label
      BY <3>1, <3>2, LabelType
    <3>4. Sound(v)
      BY <2>1, <3>3 DEF Sound, Establishing
    <3> QED BY <3>1, <3>2, <3>4
  <2>2. ASSUME NEW c \in Settings, Check(p, "inspect table", InspectIdentity(c), "inspect topic")
        PROVE  Inv'
    BY <1>1, <2>1, <2>2, CheckKeeps
  <2>3. CASE Check(p, "inspect topic", InspectTopic, "inspect slot")
    BY <1>1, <2>1, <2>3, CheckKeeps
  <2>4. CASE Check(p, "inspect slot", InspectSlot, "inspect connector")
    BY <1>1, <2>1, <2>4, CheckKeeps
  <2>5. CASE Check(p, "inspect connector", InspectConnector, "idle")
    BY <1>1, <2>1, <2>5, CheckKeeps
  <2> QED BY <1>3, <2>2, <2>3, <2>4, <2>5 DEF InspectSource
<1> QED BY <1>2, <1>3

LEMMA EndKeeps ==
    ASSUME Inv, NEW p \in Processes, End(p)
    PROVE  Inv'
<1>1. budget' \in [FaultKinds -> Nat]
  BY SpendType DEF End, Inv, RestOK, FaultKinds
<1>2. run' = [run EXCEPT ![p] = NoRun] /\ UNCHANGED <<outside, store, history>>
  BY DEF End, Fails
<1> QED BY <1>1, <1>2, NoRunSound, ReadOnlyKeeps

LEMMA NextKeeps == Inv /\ [Next]_vars => Inv'
<1> SUFFICES ASSUME Inv, [Next]_vars PROVE Inv'
  OBVIOUS
<1>1. Provisioners \subseteq Processes /\ Monitors \subseteq Processes
  BY DEF Processes
<1>2. CASE \E p \in Provisioners : (\E c \in Settings : InspectTable(p, c)) \/ ProvisionStep(p)
  BY <1>1, <1>2, InspectTableKeeps, GetStreamKeeps, ConfirmKeeps, BlockSourceKeeps, FindTopicKeeps,
     CreateTopicKeeps, EnsureConnectorKeeps, AwaitCaptureKeeps, AwaitSlotKeeps, RegisterStreamKeeps
     DEF ProvisionStep
<1>3. CASE \E p \in Monitors : MonitorStep(p)
  BY <1>1, <1>3, MonitorKeeps, BlockSourceKeeps DEF MonitorStep
<1>4. CASE \E p \in Processes : End(p)
  BY <1>4, EndKeeps
<1>5. CASE Outside
  BY <1>5, OutsideKeeps
<1>6. CASE UNCHANGED vars
  <2>1. UNCHANGED <<table, topic, created, slot, connector, stream, blocked, run, worked, broken,
                    budget>>
    BY <1>6 DEF vars, outside, store, history
  <2>2. RunOK' /\ RunsSound'
    BY <2>1, SoundStays DEF Inv, OutsideOK
  <2>3. OutsideOK' /\ StoreOK' /\ RestOK' /\ TopicWasCreated'
    BY <2>1 DEF Inv, OutsideOK, StoreOK, RestOK, TopicWasCreated
  <2> QED BY <2>2, <2>3 DEF Inv
<1> QED BY <1>2, <1>3, <1>4, <1>5, <1>6 DEF Next

LEMMA InvHolds == Spec => []Inv
  BY InvInitial, NextKeeps, PTL DEF Spec

-------------------------------------------------------------------------------
(* Theorems *)

\* Every variable always has its type, and a run that establishes the stream
\* knows a topic that was created.
THEOREM ProvisionTypeCorrect == Spec => []TypeOK
  BY InvHolds, InvIsTypeOK, PTL

\* Whatever runs interleave and wherever they end, one that reports success has
\* the stream it describes in the store.
THEOREM SuccessRegistered == Spec => []SuccessIsRegistered
<1>1. Inv => SuccessIsRegistered
  BY DEF Inv, RunsSound, Sound, SuccessIsRegistered, Processes
<1> QED BY <1>1, InvHolds, PTL

\* Every step leaves the store alone, or is the first registration, or a block of
\* a registered stream.
LEMMA StoreStep == Inv /\ [Next]_vars => [Registry!Next]_(Registry!vars)
<1> SUFFICES ASSUME Inv, [Next]_vars, ~UNCHANGED <<stream, blocked>> PROVE Registry!Next
  BY DEF Registry!vars
<1>1. ASSUME NEW p \in Provisioners, RegisterStream(p) PROVE Registry!Next
  <2>1. Registration(p) # NoStream
    BY <1>1, RegistrationType DEF RegisterStream, Processes
  <2>2. stream = NoStream /\ stream' = Registration(p) /\ blocked' = blocked
    BY <1>1 DEF RegisterStream
  <2> QED BY <2>1, <2>2 DEF Registry!Next, Registry!Register
<1>2. ASSUME NEW p \in Processes, BlockSource(p) PROVE Registry!Next
  BY <1>2 DEF BlockSource, Registry!Next, Registry!Block
<1>3. ASSUME NEW p \in Provisioners,
             (\E c \in Settings : InspectTable(p, c)) \/ ProvisionStep(p)
      PROVE  RegisterStream(p) \/ BlockSource(p)
  BY <1>3 DEF ProvisionStep, InspectTable, GetStream, ConfirmEstablished, FindTopic, CreateTopic,
              EnsureConnector, AwaitCapture, AwaitSlot, store
<1>4. ASSUME NEW p \in Monitors, MonitorStep(p) PROVE BlockSource(p)
  BY <1>4 DEF MonitorStep, ReadRegistration, InspectSource, store
<1>5. ASSUME NEW p \in Processes PROVE ~End(p)
  BY DEF End, store
<1>6. ~Outside
  BY DEF Outside, TopicListed, ConnectorStarts, AlterTable, TopicChanges, SlotChanges,
         ConnectorChanges, store
<1>7. ~UNCHANGED vars
  BY DEF vars, store
<1> QED BY <1>1, <1>2, <1>3, <1>4, <1>5, <1>6, <1>7 DEF Next, Processes

\* However many runs and workers there are, with whatever configurations: the
\* first registration is the only one and a block is for good (StreamRegistry).
THEOREM RegistryImplemented == Spec => RegistrationFrozen
<1>1. Init => Registry!Init
  BY DEF Init, Registry!Init
<1> QED BY <1>1, StoreStep, InvHolds, PTL DEF Spec, RegistrationFrozen, Registry!Spec

-------------------------------------------------------------------------------
(* A capture that worked, where everyone has the same configuration *)

OneConfiguration == \A c, d \in Settings : c = d

\* What a connector is told for a configuration: column types are not part of it.
Told(c) ==
    [serial |-> c.serial, partitioning |-> c.partitioning, publication |-> c.publication,
     columns |-> [i \in DOMAIN c.columns |-> c.columns[i]]]

ToldWorked == \E c \in Settings : Told(c) \in worked

Configured(v) == \E c \in Settings : ConnectorConfig(v.identity, v.names) = Told(c)

\* A run has read the table and has not ended.
Read == {"lookup", "find", "create", "poll"} \cup Establishing

\* What a run has configured and seen: ready means that a connector ran.
Seen(v) ==
    /\ v.pc \in Read => Configured(v)
    /\ (v.pc = "await slot" /\ v.ready) \/ v.pc = "register" => ToldWorked

ConnectorTold ==
    /\ connector.exists => \E c \in Settings : connector.wanted = Told(c)
    /\ connector.status = Up => ToldWorked

WorkedInv == ConnectorTold /\ (\A p \in Processes : Seen(run[p])) /\ RegisteredCaptureWorked

LEMMA ToldFromTable ==
    ASSUME NEW c \in Settings, NEW t
    PROVE  ConnectorConfig(IdentityFrom(c, t), captureNames(c)) = Told(c)
<1> DEFINE columns == [i \in DOMAIN c.columns |->
                         [name |-> c.columns[i], type |-> t.columns[c.columns[i]].type]]
<1>1. IdentityFrom(c, t).columns = columns /\ IdentityFrom(c, t).serial = c.serial
      /\ IdentityFrom(c, t).partitioning = c.partitioning
  BY DEF IdentityFrom
<1>2. [i \in DOMAIN columns |-> columns[i].name] = [i \in DOMAIN c.columns |-> c.columns[i]]
  OBVIOUS
<1> QED BY <1>1, <1>2 DEF ConnectorConfig, Told, captureNames

\* Of all that a connector may report, only Up counts as ready (captureReady).
LEMMA ReadyIsUp ==
    ASSUME NEW status \in {Up, Coming} \cup Down, ConnectorReady(status)
    PROVE  status = Up
<1>1. status # Coming
  BY DEF ConnectorReady, Coming
<1>2. "FAILED" \in Range(<<"FAILED">>)
  BY DEF Range
<1>3. status \notin Down
  BY <1>2 DEF ConnectorReady, Failed, Down
<1> QED BY <1>1, <1>3

LEMMA WorkedInitial == Init => WorkedInv
<1> SUFFICES ASSUME Init PROVE WorkedInv
  OBVIOUS
<1>1. connector.exists = FALSE /\ connector.status # Up
  BY DEF Init, NoConnector, Coming, Up
<1>2. \A p \in Processes : run[p] = NoRun
  BY DEF Init
<1>3. Seen(NoRun)
  BY DEF Seen, NoRun, Read, Establishing
<1> QED BY <1>1, <1>2, <1>3 DEF WorkedInv, ConnectorTold, RegisteredCaptureWorked, Init

\* worked only grows, and what was seen stays seen.
LEMMA SeenStays ==
    ASSUME NEW v, Seen(v), worked \subseteq worked'
    PROVE  Seen(v)' 
  BY DEF Seen, ToldWorked, Configured

\* A process goes on with v.
LEMMA SeenKeeps ==
    ASSUME Inv, WorkedInv, NEW p \in Processes, NEW v, run' = [run EXCEPT ![p] = v], Seen(v),
           UNCHANGED <<stream, worked>>, ConnectorTold'
    PROVE  WorkedInv'
<1>1. worked \subseteq worked' /\ run \in [Processes -> RunSet]
  BY DEF Inv, RunOK
<1>2. \A u : Seen(u) => Seen(u)'
  BY <1>1, SeenStays
<1>3. \A q \in Processes : Seen(run'[q])
  BY <1>1 DEF WorkedInv
<1>4. \A q \in Processes : Seen(run[q])'
  BY <1>2, <1>3 DEF Seen, ToldWorked, Configured
<1>5. RegisteredCaptureWorked'
  BY DEF WorkedInv, RegisteredCaptureWorked
<1> QED BY <1>4, <1>5 DEF WorkedInv

\* A process ends, or goes to a label where nothing is expected of it, or goes on
\* with the configuration it has.
LEMMA LabelSeen ==
    ASSUME Inv, WorkedInv, NEW p \in Processes, NEW label \in Labels,
           label \in Read => run[p].pc \in Read, label \notin {"await slot", "register"}
    PROVE  Seen([run[p] EXCEPT !.pc = label])
<1>1. PICK v : v = [run[p] EXCEPT !.pc = label]
  OBVIOUS
<1>2. v.pc = label /\ v.identity = run[p].identity /\ v.names = run[p].names
  BY <1>1, LabelType
<1>3. run[p].pc \in Read => Configured(run[p])
  BY DEF WorkedInv, Seen
<1>4. Seen(v)
  BY <1>2, <1>3 DEF Seen, Configured
<1> QED BY <1>1, <1>4

LEMMA NoRunSeen == Seen(NoRun)
  BY DEF Seen, NoRun, Read, Establishing

LEMMA FailsKeeps ==
    ASSUME Inv, WorkedInv, NEW p \in Processes, Fails(p), UNCHANGED <<stream, worked>>, ConnectorTold'
    PROVE  WorkedInv'
  BY NoRunSeen, SeenKeeps DEF Fails

\* The label of a run changes.
LEMMA LabelKeeps ==
    ASSUME Inv, WorkedInv, NEW p \in Processes, NEW label \in Labels,
           label \in Read => run[p].pc \in Read, label \notin {"await slot", "register"},
           run' = [run EXCEPT ![p].pc = label], UNCHANGED <<stream, worked>>, ConnectorTold'
    PROVE  WorkedInv'
<1>1. [run EXCEPT ![p].pc = label] = [run EXCEPT ![p] = [run[p] EXCEPT !.pc = label]]
  BY LabelType
<1> QED BY <1>1, LabelSeen, SeenKeeps

LEMMA ToldStays ==
    ASSUME WorkedInv, UNCHANGED <<connector, worked>>
    PROVE  ConnectorTold'
  BY DEF WorkedInv, ConnectorTold, ToldWorked

\* A step outside Postie.
LEMMA OutsideWorked ==
    ASSUME Inv, WorkedInv, Outside
    PROVE  WorkedInv'
<1>1. ASSUME UNCHANGED <<run, stream>>, worked \subseteq worked', ConnectorTold'
      PROVE  WorkedInv'
  <2>1. \A u : Seen(u) => Seen(u)'
    BY <1>1, SeenStays
  <2>2. \A q \in Processes : Seen(run[q])'
    BY <1>1, <2>1 DEF WorkedInv, Seen, ToldWorked, Configured
  <2>3. RegisteredCaptureWorked'
    BY <1>1 DEF WorkedInv, RegisteredCaptureWorked
  <2> QED BY <1>1, <2>2, <2>3 DEF WorkedInv
<1>2. CASE ConnectorStarts
  <2>1. connector' = [connector EXCEPT !.live = connector.wanted, !.status = Up]
        /\ connector.exists /\ worked' = worked \cup {connector.wanted}
        /\ UNCHANGED <<run, stream>>
    BY <1>2 DEF ConnectorStarts, store
  <2>2. connector'.exists = connector.exists /\ connector'.wanted = connector.wanted
    BY <2>1 DEF Inv, OutsideOK, ConnectorSet
  <2>3. PICK c \in Settings : connector.wanted = Told(c)
    BY <2>1 DEF WorkedInv, ConnectorTold
  <2>4. Told(c) \in worked'
    BY <2>1, <2>3
  <2>5. ConnectorTold'
    BY <2>2, <2>3, <2>4 DEF ConnectorTold, ToldWorked
  <2> QED BY <1>1, <2>1, <2>5
<1>3. CASE ConnectorChanges
  <2>1. UNCHANGED <<run, stream, worked>>
    BY <1>3 DEF ConnectorChanges, store
  <2>2. CASE connector' = NoConnector
    <3>1. connector'.exists = FALSE /\ connector'.status # Up
      BY <2>2 DEF NoConnector, Coming, Up
    <3>2. ConnectorTold'
      BY <3>1 DEF ConnectorTold
    <3> QED BY <1>1, <2>1, <3>2
  <2>3. ASSUME NEW status \in Down, connector' = [connector EXCEPT !.status = status]
        PROVE  WorkedInv'
    <3>1. status # Up
      BY <2>3 DEF Down, Up
    <3>2. /\ connector'.exists = connector.exists /\ connector'.wanted = connector.wanted
          /\ connector'.status # Up
      BY <2>3, <3>1 DEF Inv, OutsideOK, ConnectorSet
    <3>3. ConnectorTold'
      BY <3>2 DEF WorkedInv, ConnectorTold
    <3> QED BY <1>1, <2>1, <3>3
  <2> QED BY <1>3, <2>2, <2>3 DEF ConnectorChanges
<1>4. CASE TopicListed \/ AlterTable \/ TopicChanges \/ SlotChanges
  <2>1. UNCHANGED <<connector, run, stream, worked>>
    BY <1>4 DEF TopicListed, AlterTable, TopicChanges, SlotChanges, store, history
  <2> QED BY <1>1, <2>1, ToldStays
<1> QED BY <1>2, <1>3, <1>4 DEF Outside

\* One check of a sequence leads away from establishing.
LEMMA CheckWorked ==
    ASSUME Inv, WorkedInv, NEW p \in Processes, NEW label, NEW finding, NEW next \in Labels,
           next \notin Read, Check(p, label, finding, next), UNCHANGED <<outside, store, history>>
    PROVE  WorkedInv'
<1>1. UNCHANGED <<connector, stream, worked>>
  BY DEF outside, store, history
<1>2. ConnectorTold'
  BY <1>1, ToldStays
<1>3. CASE finding = "unavailable"
  BY <1>1, <1>2, <1>3, FailsKeeps DEF Check
<1>4. CASE finding # "unavailable"
  <2> DEFINE after == IF finding = "blocked" THEN "block" ELSE next
  <2>1. after \in Labels /\ after \notin Read /\ after \notin {"await slot", "register"}
    BY DEF Labels, Read, Establishing
  <2>2. run' = [run EXCEPT ![p].pc = after]
    BY <1>4 DEF Check
  <2> HIDE DEF after
  <2> QED BY <1>1, <1>2, <2>1, <2>2, LabelKeeps
<1> QED BY <1>3, <1>4

\* A run goes on with a topic.
LEMMA ConnectSeen ==
    ASSUME Inv, WorkedInv, NEW p \in Processes, NEW n \in Nat, run[p].pc \in Read,
           run' = [run EXCEPT ![p].pc = "connect", ![p].topicID = n],
           UNCHANGED <<stream, worked>>, ConnectorTold'
    PROVE  WorkedInv'
<1>1. PICK v : v = [run[p] EXCEPT !.pc = "connect", !.topicID = n]
  OBVIOUS
<1>2. [run EXCEPT ![p].pc = "connect", ![p].topicID = n] = [run EXCEPT ![p] = v]
  BY <1>1, TopicIDType
<1>3. v.pc = "connect" /\ v.identity = run[p].identity /\ v.names = run[p].names
  BY <1>1 DEF Inv, RunOK, RunSet
<1>4. Configured(run[p])
  BY DEF WorkedInv, Seen
<1>5. Seen(v)
  BY <1>3, <1>4 DEF Seen, Configured
<1> QED BY <1>2, <1>5, SeenKeeps

LEMMA BlockWorked ==
    ASSUME Inv, WorkedInv, NEW p \in Processes, BlockSource(p)
    PROVE  WorkedInv'
<1>1. UNCHANGED <<connector, stream, worked>> /\ Fails(p)
  BY DEF BlockSource, outside, history
<1> QED BY <1>1, ToldStays, FailsKeeps

\* A step of a provisioning run.
LEMMA ProvisionWorked ==
    ASSUME OneConfiguration, Inv, WorkedInv, NEW p \in Processes,
           (\E c \in Settings : InspectTable(p, c)) \/ ProvisionStep(p)
    PROVE  WorkedInv'
<1>1. ASSUME NEW c \in Settings, InspectTable(p, c) PROVE WorkedInv'
  <2>1. UNCHANGED <<connector, stream, worked>>
    BY <1>1 DEF InspectTable, outside, store, history
  <2>2. ConnectorTold'
    BY <2>1, ToldStays
  <2>3. CASE Conforms(c, table)
    <3> DEFINE v == [NoRun EXCEPT !.pc = "lookup", !.names = captureNames(c),
                                  !.identity = IdentityFrom(c, table)]
    <3>1. run' = [run EXCEPT ![p] = v]
      BY <1>1, <2>3 DEF InspectTable
    <3>2. v.pc = "lookup" /\ v.identity = IdentityFrom(c, table) /\ v.names = captureNames(c)
      BY DEF NoRun
    <3> HIDE DEF v
    <3>3. Configured(v)
      BY <3>2, ToldFromTable DEF Configured
    <3>4. Seen(v)
      BY <3>2, <3>3 DEF Seen
    <3> QED BY <2>1, <2>2, <3>1, <3>4, SeenKeeps
  <2>4. CASE ~Conforms(c, table)
    BY <1>1, <2>1, <2>2, <2>4, FailsKeeps DEF InspectTable
  <2> QED BY <2>3, <2>4
<1>2. CASE GetStream(p)
  <2>1. UNCHANGED <<connector, stream, worked>> /\ run[p].pc = "lookup"
    BY <1>2 DEF GetStream, outside, store, history, At
  <2>2. ConnectorTold'
    BY <2>1, ToldStays
  <2>3. CASE Fails(p)
    BY <2>1, <2>2, <2>3, FailsKeeps
  <2>4. CASE ~Fails(p)
    <3> DEFINE label == IF stream = NoStream THEN "find" ELSE "validate topic"
    <3>1. run' = [run EXCEPT ![p].pc = label]
      BY <1>2, <2>4 DEF GetStream
    <3>2. label \in Labels /\ run[p].pc \in Read /\ label \notin {"await slot", "register"}
      BY <2>1 DEF Labels, Read
    <3> HIDE DEF label
    <3> QED BY <2>1, <2>2, <3>1, <3>2, LabelKeeps
  <2> QED BY <2>3, <2>4
<1>3. CASE FindTopic(p)
  <2>1. UNCHANGED <<connector, stream, worked>> /\ run[p].pc \in {"find", "poll"}
    BY <1>3 DEF FindTopic, outside, store, history
  <2>2. ConnectorTold'
    BY <2>1, ToldStays
  <2>3. CASE Fails(p)
    BY <2>1, <2>2, <2>3, FailsKeeps
  <2>4. CASE run' = [run EXCEPT ![p].pc = "create"]
    BY <2>1, <2>2, <2>4, LabelKeeps DEF Labels, Read
  <2>5. CASE run' = [run EXCEPT ![p].pc = "connect", ![p].topicID = topic.id]
    <3>1. topic.id \in Nat
      BY DEF Inv, OutsideOK, TopicSet
    <3>2. run[p].pc \in Read
      BY <2>1 DEF Read
    <3> QED BY <2>1, <2>2, <2>5, <3>1, <3>2, ConnectSeen
  <2> QED BY <1>3, <2>3, <2>4, <2>5 DEF FindTopic
<1>4. CASE CreateTopic(p)
  <2>1. UNCHANGED <<connector, stream, worked>> /\ run[p].pc = "create"
    BY <1>4 DEF CreateTopic, store, history, At
  <2>2. ConnectorTold'
    BY <2>1, ToldStays
  <2>3. CASE run' = [run EXCEPT ![p].pc = "poll"]
    BY <2>1, <2>2, <2>3, LabelKeeps DEF Labels, Read
  <2>4. CASE run' # [run EXCEPT ![p].pc = "poll"]
    <3>1. PICK n \in Nat : n = created + 1
      BY DEF Inv, OutsideOK
    <3>2. run' = [run EXCEPT ![p].pc = "connect", ![p].topicID = n]
      BY <1>4, <2>4, <3>1 DEF CreateTopic
    <3>3. run[p].pc \in Read
      BY <2>1 DEF Read
    <3> QED BY <2>1, <2>2, <3>1, <3>2, <3>3, ConnectSeen
  <2> QED BY <2>3, <2>4
<1>5. CASE EnsureConnector(p)
  <2>1. UNCHANGED <<stream, worked>> /\ run[p].pc = "connect"
        /\ run' = [run EXCEPT ![p].pc = "await"]
    BY <1>5 DEF EnsureConnector, store, history, At
  <2>2. PICK config : config = ConnectorConfig(run[p].identity, run[p].names)
    OBVIOUS
  <2>3. PICK c \in Settings : config = Told(c)
    BY <2>1, <2>2 DEF WorkedInv, Seen, Configured, Read, Establishing
  <2>4. connector' = IF connector.exists
                       THEN [connector EXCEPT !.wanted = config]
                       ELSE [NoConnector EXCEPT !.exists = TRUE, !.wanted = config]
    BY <1>5, <2>2 DEF EnsureConnector
  <2>5. connector'.wanted = Told(c) /\ (connector'.status = Up => connector.status = Up)
    <3>1. CASE connector.exists
      BY <2>3, <2>4, <3>1 DEF Inv, OutsideOK, ConnectorSet
    <3>2. CASE ~connector.exists
      BY <2>3, <2>4, <3>2 DEF NoConnector, Coming, Up
    <3> QED BY <3>1, <3>2
  <2>6. ConnectorTold'
    BY <2>1, <2>5 DEF WorkedInv, ConnectorTold, ToldWorked
  <2> QED BY <2>1, <2>6, LabelKeeps DEF Labels, Read, Establishing
<1>6. CASE AwaitCapture(p)
  <2> DEFINE good == connector.exists /\ ConnectorReady(connector.status)
             v    == [run[p] EXCEPT !.pc = "await slot", !.ready = good]
  <2>1. UNCHANGED <<connector, stream, worked>> /\ run[p].pc = "await"
        /\ run' = [run EXCEPT ![p] = v]
    BY <1>6 DEF AwaitCapture, outside, store, history, At
  <2>2. ConnectorTold'
    BY <2>1, ToldStays
  <2>3. good => ToldWorked
    BY ReadyIsUp DEF Inv, OutsideOK, ConnectorSet, WorkedInv, ConnectorTold
  <2>4. Configured(run[p])
    BY <2>1 DEF WorkedInv, Seen, Read, Establishing
  <2>5. run[p] \in RunSet
    BY DEF Inv, RunOK
  <2>6. /\ v.pc = "await slot" /\ v.ready = good
        /\ v.identity = run[p].identity /\ v.names = run[p].names
    BY <2>5 DEF RunSet
  <2> HIDE DEF v, good
  <2>7. Seen(v)
    BY <2>3, <2>4, <2>6 DEF Seen, Configured
  <2> QED BY <2>1, <2>2, <2>7, SeenKeeps
<1>7. CASE AwaitSlot(p)
  <2> DEFINE label == IF run[p].ready /\ SlotReady(slot) THEN "register" ELSE "await"
             v     == [run[p] EXCEPT !.pc = label, !.ready = FALSE]
  <2>1. UNCHANGED <<connector, stream, worked>> /\ run[p].pc = "await slot"
        /\ run' = [run EXCEPT ![p] = v]
    BY <1>7 DEF AwaitSlot, outside, store, history, At
  <2>2. ConnectorTold'
    BY <2>1, ToldStays
  <2>3. Configured(run[p]) /\ (run[p].ready => ToldWorked)
    BY <2>1 DEF WorkedInv, Seen, Read, Establishing
  <2>4. label \in {"register", "await"} /\ (label = "register" => run[p].ready)
    OBVIOUS
  <2>5. run[p] \in RunSet
    BY DEF Inv, RunOK
  <2> HIDE DEF label
  <2>6. v.pc = label /\ v.identity = run[p].identity /\ v.names = run[p].names
    BY <2>5 DEF RunSet
  <2> HIDE DEF v
  <2>7. Seen(v)
    BY <2>3, <2>4, <2>6 DEF Seen, Configured
  <2> QED BY <2>1, <2>2, <2>7, SeenKeeps
<1>8. CASE RegisterStream(p)
  <2>1. /\ UNCHANGED <<connector, worked>> /\ run[p].pc = "register"
        /\ stream' = IF stream = NoStream THEN Registration(p) ELSE stream
    BY <1>8 DEF RegisterStream, outside, history, At
  <2>2. ConnectorTold'
    BY <2>1, ToldStays
  <2>3. ConnectorConfig(run[p].identity, run[p].names) \in worked
    <3>1. PICK c \in Settings : ConnectorConfig(run[p].identity, run[p].names) = Told(c)
      BY <2>1 DEF WorkedInv, Seen, Configured, Read, Establishing
    <3>2. PICK d \in Settings : Told(d) \in worked
      BY <2>1 DEF WorkedInv, Seen, ToldWorked
    <3>3. c = d
      BY DEF OneConfiguration
    <3> QED BY <3>1, <3>2, <3>3
  <2>4. RegisteredCaptureWorked'
    BY <2>1, <2>3 DEF WorkedInv, RegisteredCaptureWorked, Registration
  <2>5. run' = [run EXCEPT ![p].pc = "ok"] \/ run' = [run EXCEPT ![p] = NoRun]
    BY <1>8 DEF RegisterStream, Fails
  <2>6. \E v : run' = [run EXCEPT ![p] = v] /\ Seen(v)
    <3>1. "ok" \in Labels /\ "ok" \notin Read
      BY DEF Labels, Read, Establishing
    <3>2. /\ [run EXCEPT ![p].pc = "ok"] = [run EXCEPT ![p] = [run[p] EXCEPT !.pc = "ok"]]
          /\ Seen([run[p] EXCEPT !.pc = "ok"])
      BY <3>1, LabelType, LabelSeen
    <3> QED BY <2>5, <3>2, NoRunSeen
  <2>7. \A q \in Processes : Seen(run'[q])
    BY <2>6 DEF WorkedInv, Inv, RunOK
  <2>8. \A q \in Processes : Seen(run[q])'
    BY <2>1, <2>7 DEF Seen, ToldWorked, Configured
  <2> QED BY <2>2, <2>4, <2>8 DEF WorkedInv
<1>9. CASE ConfirmEstablished(p)
  BY <1>9, CheckWorked DEF ConfirmEstablished, Labels, Read, Establishing
<1>10. CASE BlockSource(p)
  BY <1>10, BlockWorked
<1> QED BY <1>1, <1>2, <1>3, <1>4, <1>5, <1>6, <1>7, <1>8, <1>9, <1>10 DEF ProvisionStep

LEMMA WorkedNext ==
    ASSUME OneConfiguration
    PROVE  Inv /\ WorkedInv /\ [Next]_vars => WorkedInv'
<1> SUFFICES ASSUME Inv, WorkedInv, [Next]_vars PROVE WorkedInv'
  OBVIOUS
<1>1. ASSUME NEW p \in Provisioners, (\E c \in Settings : InspectTable(p, c)) \/ ProvisionStep(p)
      PROVE  WorkedInv'
  BY <1>1, ProvisionWorked DEF Processes
<1>2. ASSUME NEW p \in Monitors, MonitorStep(p) PROVE WorkedInv'
  <2>1. p \in Processes
    BY DEF Processes
  <2>2. CASE ReadRegistration(p)
    <3> DEFINE v == [NoRun EXCEPT !.pc = "inspect table"]
    <3>1. UNCHANGED <<connector, stream, worked>> /\ run' = [run EXCEPT ![p] = v]
      BY <2>2 DEF ReadRegistration, outside, store, history
    <3>2. v.pc = "inspect table"
      BY DEF NoRun
    <3> HIDE DEF v
    <3>3. Seen(v)
      BY <3>2 DEF Seen, Read, Establishing
    <3>4. ConnectorTold'
      BY <3>1, ToldStays
    <3> QED BY <2>1, <3>1, <3>3, <3>4, SeenKeeps
  <2>3. CASE InspectSource(p)
    BY <2>1, <2>3, CheckWorked DEF InspectSource, Labels, Read, Establishing
  <2> QED BY <1>2, <2>1, <2>2, <2>3, BlockWorked DEF MonitorStep
<1>3. ASSUME NEW p \in Processes, End(p) PROVE WorkedInv'
  <2>1. UNCHANGED <<connector, stream, worked>> /\ Fails(p)
    BY <1>3 DEF End, outside, store, history
  <2>2. ConnectorTold'
    BY <2>1, ToldStays
  <2> QED BY <2>1, <2>2, FailsKeeps
<1>4. CASE UNCHANGED vars
  BY <1>4 DEF vars, outside, store, history, WorkedInv, ConnectorTold, Seen, ToldWorked, Configured,
              RegisteredCaptureWorked
<1> QED BY <1>1, <1>2, <1>3, <1>4, OutsideWorked DEF Next

\* "a registration always points at a capture that worked at least once", for any
\* number of runs and faults, as long as every run has the same configuration
\* (establish).  Without that it is false: the Conflict run.
THEOREM RegisteredWorked ==
    ASSUME OneConfiguration
    PROVE  Spec => []RegisteredCaptureWorked
<1>1. WorkedInv => RegisteredCaptureWorked
  BY DEF WorkedInv
<1>2. Inv /\ WorkedInv /\ [Next]_vars => WorkedInv'
  BY WorkedNext
<1> QED BY <1>1, <1>2, WorkedInitial, InvHolds, PTL DEF Spec

==============================================================================
