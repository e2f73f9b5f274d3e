---------------------------- MODULE ContractProofs ----------------------------
(***************************************************************************)
(* When Provision reports a broken contract: provisioning and inspection    *)
(* report it in the same states, and where everyone has one configuration a *)
(* source is blocked only after its table, topic, slot or connector was     *)
(* changed from outside.                                                    *)
(***************************************************************************)
EXTENDS ProvisionProofs

-------------------------------------------------------------------------------
(* The inductive invariant of a source that nobody has changed *)

Validating == {"validate topic", "validate slot", "validate connector"}
Inspecting == {"inspect table", "inspect topic", "inspect slot", "inspect connector"}

\* What the table says today.
Current(identity, names) ==
    \E c \in Settings :
        Conforms(c, table) /\ identity = IdentityFrom(c, table) /\ names = captureNames(c)

\* The topic is there, is the one with this ID, and has the partitions asked for.
Serves(identity, id) == topic.exists /\ topic.id = id /\ topic.partitions = identity.partitions

\* What a process has read and done so far is still so, and it found nothing
\* to block the source for.
Intact(v) ==
    /\ v.pc \in Read \cup Validating => Current(v.identity, v.names)
    /\ v.pc \in Establishing => Serves(v.identity, v.topicID)
    /\ v.pc \in {"await", "await slot", "register"} => connector.exists
    /\ v.pc = "await slot" /\ v.ready => topic.listed
    /\ v.pc = "register" => topic.listed /\ slot = "reserved"
    /\ v.pc \in Inspecting => stream # NoStream
    /\ v.pc # "block"

\* A registration is matched by what it describes.
Matched ==
    stream # NoStream =>
        /\ Current(stream.identity, stream.names)
        /\ Serves(stream.identity, stream.topicID) /\ topic.listed
        /\ slot = "reserved" /\ connector.exists

\* A connector is created after the topic, and runs when the topic is listed.
Ordered ==
    /\ topic.listed => topic.exists
    /\ connector.exists => topic.exists
    /\ connector.status = Up => topic.listed
    /\ slot \in {"none", "reserved"}

Whole ==
    /\ Matched /\ Ordered /\ ~blocked
    /\ \A p \in Processes : Intact(run[p])

CauseInv == ~broken => Whole

-------------------------------------------------------------------------------
(* The two sequences of findings *)

\* The first finding that is not "running" is the verdict.
LEMMA FirstOfFour ==
    ASSUME NEW a, NEW b, NEW c, NEW d
    PROVE  First(<<a, b, c, d>>) = IF a # "running" THEN a ELSE IF b # "running" THEN b
                                   ELSE IF c # "running" THEN c ELSE d
<1> DEFINE findings == <<a, b, c, d>>
           wrong    == {i \in DOMAIN findings : findings[i] # "running"}
<1>1. /\ DOMAIN findings = {1, 2, 3, 4}
      /\ findings[1] = a /\ findings[2] = b /\ findings[3] = c /\ findings[4] = d
  OBVIOUS
<1>2. First(findings) =
        IF wrong = {} THEN "running" ELSE findings[CHOOSE i \in wrong : \A j \in wrong : i <= j]
  BY DEF First
<1> SUFFICES First(findings) = IF a # "running" THEN a ELSE IF b # "running" THEN b
                                ELSE IF c # "running" THEN c ELSE d
  OBVIOUS
<1> HIDE DEF findings
<1>3. ASSUME NEW k \in {1, 2, 3, 4}, findings[k] # "running",
             \A j \in {1, 2, 3, 4} : j < k => findings[j] = "running"
      PROVE  First(findings) = findings[k]
  <2>1. k \in wrong /\ wrong \subseteq {1, 2, 3, 4}
    BY <1>1, <1>3
  <2>2. \A j \in wrong : k <= j
    BY <1>1, <1>3
  <2> HIDE DEF wrong
  <2>3. \A i \in wrong : (\A j \in wrong : i <= j) => i = k
    BY <2>1, <2>2
  <2>4. (CHOOSE i \in wrong : \A j \in wrong : i <= j) = k
    BY <2>1, <2>2, <2>3
  <2> QED BY <1>2, <2>1, <2>4
<1>4. CASE a # "running"
  BY <1>1, <1>3, <1>4
<1>5. CASE a = "running" /\ b # "running"
  BY <1>1, <1>3, <1>5
<1>6. CASE a = "running" /\ b = "running" /\ c # "running"
  BY <1>1, <1>3, <1>6
<1>7. CASE a = "running" /\ b = "running" /\ c = "running" /\ d # "running"
  BY <1>1, <1>3, <1>7
<1>8. CASE a = "running" /\ b = "running" /\ c = "running" /\ d = "running"
  BY <1>1, <1>2, <1>8
<1> QED BY <1>4, <1>5, <1>6, <1>7, <1>8

\* Provisioning and inspection call a registered stream broken in the same
\* states, for any configuration whose contract the table meets: a worker never
\* blocks a source that `postie provision` would confirm, nor the reverse
\* (validateRegisteredStream, InspectSource).
THEOREM SameVerdicts == Spec => []VerdictsAgree
<1>1. VerdictsAgree
  <2> SUFFICES ASSUME NEW c \in Settings, Conforms(c, table)
               PROVE  First(<<ValidateIdentity(IdentityFrom(c, table), captureNames(c)),
                              ValidateTopic(IdentityFrom(c, table)), ValidateSlot,
                              ValidateConnector>>) = "blocked"
                        <=> First(<<InspectIdentity(c), InspectTopic, InspectSlot,
                                    InspectConnector>>) = "blocked"
    BY DEF VerdictsAgree
  <2>1. ValidateIdentity(IdentityFrom(c, table), captureNames(c)) = InspectIdentity(c)
    BY DEF ValidateIdentity, InspectIdentity
  <2>2. InspectIdentity(c) = "running" => ValidateTopic(IdentityFrom(c, table)) = InspectTopic
    BY DEF InspectIdentity, ValidateTopic, InspectTopic
  <2>3. ValidateSlot = InspectSlot
    BY DEF ValidateSlot, InspectSlot
  <2>4. ValidateConnector = "blocked" <=> InspectConnector = "blocked"
    BY DEF ValidateConnector, InspectConnector
  <2> QED BY <2>1, <2>2, <2>3, <2>4, FirstOfFour
<1> QED BY <1>1, PTL

-------------------------------------------------------------------------------
(* Nothing changed from outside: steps that only add *)

\* What is there stays there.
Grows ==
    /\ table' = table
    /\ topic.exists =>
         topic'.exists /\ topic'.id = topic.id /\ topic'.partitions = topic.partitions
    /\ topic.listed => topic'.listed
    /\ connector.exists => connector'.exists
    /\ slot = "reserved" => slot' = "reserved"
    /\ stream # NoStream => stream' = stream

LEMMA IntactGrows ==
    ASSUME NEW v, Intact(v), Grows
    PROVE  Intact(v)'
<1>1. \A identity, names : Current(identity, names) => Current(identity, names)'
  BY DEF Grows, Current
<1>2. \A identity, id : Serves(identity, id) => Serves(identity, id)'
  BY DEF Grows, Serves
<1> QED BY <1>1, <1>2 DEF Grows, Intact, Current, Serves

\* A process goes on with v.
LEMMA RunWhole ==
    ASSUME Inv, Whole, NEW p \in Processes, NEW v, run' = [run EXCEPT ![p] = v], Grows,
           Intact(v)', Matched', Ordered', ~blocked'
    PROVE  Whole'
<1>1. ASSUME NEW q \in Processes PROVE Intact(run[q])'
  <2>1. run'[q] = IF q = p THEN v ELSE run[q]
    BY DEF Inv, RunOK
  <2>2. \A u : Intact(u) => Intact(u)'
    BY IntactGrows
  <2>3. CASE q = p
    BY <2>1, <2>3 DEF Intact, Current, Serves
  <2>4. CASE q # p
    <3>1. PICK u : u = run[q]
      OBVIOUS
    <3>2. Intact(u)'
      BY <2>2, <3>1 DEF Whole
    <3>3. u = run'[q]
      BY <2>1, <2>4, <3>1
    <3> QED BY <3>2, <3>3 DEF Intact, Current, Serves
  <2> QED BY <2>3, <2>4
<1> QED BY <1>1 DEF Whole

\* ... and changes nothing else.
LEMMA ReadWhole ==
    ASSUME Inv, Whole, NEW p \in Processes, NEW v, run' = [run EXCEPT ![p] = v], Intact(v),
           UNCHANGED <<outside, store>>
    PROVE  Whole'
<1>1. UNCHANGED <<table, topic, slot, connector, stream, blocked>>
  BY DEF outside, store
<1>2. Grows
  BY <1>1 DEF Grows
<1>3. Intact(v)'
  BY <1>2, IntactGrows
<1>4. Matched' /\ Ordered' /\ ~blocked'
  BY <1>1 DEF Whole, Matched, Ordered, Current, Serves
<1> QED BY <1>2, <1>3, <1>4, RunWhole

LEMMA NoRunIntact == Intact(NoRun)
  BY DEF Intact, NoRun, Read, Establishing, Validating, Inspecting

LEMMA FailsWhole ==
    ASSUME Inv, Whole, NEW p \in Processes, Fails(p), UNCHANGED <<outside, store>>
    PROVE  Whole'
  BY NoRunIntact, ReadWhole DEF Fails

LEMMA LabelWhole ==
    ASSUME Inv, Whole, NEW p \in Processes, NEW label \in Labels,
           run' = [run EXCEPT ![p].pc = label], Intact([run[p] EXCEPT !.pc = label]),
           UNCHANGED <<outside, store>>
    PROVE  Whole'
<1>1. [run EXCEPT ![p].pc = label] = [run EXCEPT ![p] = [run[p] EXCEPT !.pc = label]]
  BY LabelType
<1> QED BY <1>1, ReadWhole

\* A label where no more is expected of a run than where it comes from.
LEMMA LabelIntact ==
    ASSUME Inv, Whole, NEW p \in Processes,
           NEW label \in Labels \ (Establishing \cup {"block"}),
           label \in Read \cup Validating => run[p].pc \in Read \cup Validating,
           label \in Inspecting => stream # NoStream
    PROVE  Intact([run[p] EXCEPT !.pc = label])
<1>1. PICK v : v = [run[p] EXCEPT !.pc = label]
  OBVIOUS
<1>2. v.pc = label /\ v.identity = run[p].identity /\ v.names = run[p].names
  BY <1>1, LabelType
<1>3. label \in Read \cup Validating => Current(v.identity, v.names)
  BY <1>2 DEF Whole, Intact
<1>4. Intact(v)
  BY <1>2, <1>3 DEF Intact, Establishing
<1> QED BY <1>1, <1>4

\* One check of a sequence that finds nothing to block the source for.
LEMMA CheckWhole ==
    ASSUME Inv, Whole, NEW p \in Processes, NEW label, NEW finding, finding # "blocked",
           NEW next \in Labels, Check(p, label, finding, next),
           Intact([run[p] EXCEPT !.pc = next]), UNCHANGED <<outside, store>>
    PROVE  Whole'
<1>1. CASE finding = "unavailable"
  BY <1>1, FailsWhole DEF Check
<1>2. CASE finding # "unavailable"
  <2>1. run' = [run EXCEPT ![p].pc = next]
    BY <1>2 DEF Check
  <2> QED BY <2>1, LabelWhole
<1> QED BY <1>1, <1>2

\* As long as nothing was changed from outside, no check finds a broken contract.
LEMMA NothingToBlock ==
    ASSUME OneConfiguration, Inv, Whole, stream # NoStream
    PROVE  /\ \A identity, names : Current(identity, names) =>
                /\ ValidateIdentity(identity, names) # "blocked"
                /\ ValidateTopic(identity) # "blocked"
           /\ ValidateSlot # "blocked" /\ ValidateConnector # "blocked"
           /\ \A c \in Settings : InspectIdentity(c) # "blocked"
           /\ InspectTopic # "blocked" /\ InspectSlot # "blocked"
           /\ InspectConnector # "blocked"
<1>1. PICK c \in Settings : /\ Conforms(c, table) /\ stream.identity = IdentityFrom(c, table)
                            /\ stream.names = captureNames(c)
  BY DEF Whole, Matched, Current
<1>2. /\ topic.listed /\ topic.id = stream.topicID /\ topic.partitions = stream.identity.partitions
      /\ slot = "reserved" /\ connector.exists
  BY DEF Whole, Matched, Serves
<1>3. ASSUME NEW identity, NEW names, Current(identity, names)
      PROVE  ValidateIdentity(identity, names) # "blocked" /\ ValidateTopic(identity) # "blocked"
  <2>1. stream.identity = identity /\ stream.names = names
    <3>1. PICK d \in Settings : identity = IdentityFrom(d, table) /\ names = captureNames(d)
      BY <1>3 DEF Current
    <3>2. d = c
      BY DEF OneConfiguration
    <3> QED BY <1>1, <3>1, <3>2
  <2> QED BY <1>2, <2>1 DEF ValidateIdentity, ValidateTopic
<1>4. ASSUME NEW d \in Settings PROVE InspectIdentity(d) # "blocked"
  <2>1. d = c
    BY DEF OneConfiguration
  <2> QED BY <1>1, <2>1 DEF InspectIdentity
<1>5. ValidateSlot # "blocked" /\ InspectSlot # "blocked"
  BY <1>2 DEF ValidateSlot, InspectSlot, historyLost
<1>6. ValidateConnector # "blocked" /\ InspectConnector # "blocked" /\ InspectTopic # "blocked"
  BY <1>2 DEF ValidateConnector, InspectConnector, InspectTopic
<1> QED BY <1>3, <1>4, <1>5, <1>6

-------------------------------------------------------------------------------
(* The steps of a process *)

LEMMA InspectTableWhole ==
    ASSUME Inv, Whole, NEW p \in Processes, NEW c \in Settings, InspectTable(p, c)
    PROVE  Whole'
<1>1. UNCHANGED <<outside, store>>
  BY DEF InspectTable
<1>2. CASE Conforms(c, table)
  <2> DEFINE v == [NoRun EXCEPT !.pc = "lookup", !.names = captureNames(c),
                                !.identity = IdentityFrom(c, table)]
  <2>1. run' = [run EXCEPT ![p] = v]
    BY <1>2 DEF InspectTable
  <2>2. v.pc = "lookup" /\ v.identity = IdentityFrom(c, table) /\ v.names = captureNames(c)
    BY DEF NoRun
  <2> HIDE DEF v
  <2>3. Current(v.identity, v.names)
    BY <1>2, <2>2 DEF Current
  <2>4. Intact(v)
    BY <2>2, <2>3 DEF Intact, Establishing, Inspecting
  <2> QED BY <1>1, <2>1, <2>4, ReadWhole
<1>3. CASE ~Conforms(c, table)
  BY <1>1, <1>3, FailsWhole DEF InspectTable
<1> QED BY <1>2, <1>3

LEMMA GetStreamWhole ==
    ASSUME Inv, Whole, NEW p \in Processes, GetStream(p)
    PROVE  Whole'
<1>1. UNCHANGED <<outside, store>> /\ run[p].pc = "lookup"
  BY DEF GetStream, At
<1>2. CASE Fails(p)
  BY <1>1, <1>2, FailsWhole
<1>3. CASE ~Fails(p)
  <2> DEFINE label == IF stream = NoStream THEN "find" ELSE "validate topic"
  <2>1. run' = [run EXCEPT ![p].pc = label]
    BY <1>3 DEF GetStream
  <2>2. label \in Labels \ (Establishing \cup {"block"}) /\ label \notin Inspecting
    BY DEF Labels, Establishing, Inspecting
  <2>3. run[p].pc \in Read
    BY <1>1 DEF Read
  <2> HIDE DEF label
  <2> QED BY <1>1, <2>1, <2>2, <2>3, LabelIntact, LabelWhole
<1> QED BY <1>2, <1>3

\* A run goes on with the topic that serves it.
LEMMA ConnectIntact ==
    ASSUME Inv, Whole, NEW p \in Processes, NEW n \in Nat, run[p].pc \in Read
    PROVE  LET v == [run[p] EXCEPT !.pc = "connect", !.topicID = n] IN
             /\ v.pc = "connect" /\ v.topicID = n
             /\ v.identity = run[p].identity /\ v.names = run[p].names
             /\ Current(v.identity, v.names)
             /\ [run EXCEPT ![p].pc = "connect", ![p].topicID = n] = [run EXCEPT ![p] = v]
<1>1. PICK v : v = [run[p] EXCEPT !.pc = "connect", !.topicID = n]
  OBVIOUS
<1>2. /\ v.pc = "connect" /\ v.topicID = n
      /\ [run EXCEPT ![p].pc = "connect", ![p].topicID = n] = [run EXCEPT ![p] = v]
  BY <1>1, TopicIDType
<1>3. v.identity = run[p].identity /\ v.names = run[p].names
  BY <1>1 DEF Inv, RunOK, RunSet
<1>4. Current(run[p].identity, run[p].names)
  BY DEF Whole, Intact
<1> QED BY <1>1, <1>2, <1>3, <1>4

LEMMA FindTopicWhole ==
    ASSUME Inv, Whole, NEW p \in Processes, FindTopic(p)
    PROVE  Whole'
<1>1. UNCHANGED <<outside, store>> /\ run[p].pc \in {"find", "poll"}
  BY DEF FindTopic
<1>2. run[p].pc \in Read
  BY <1>1 DEF Read
<1>3. CASE Fails(p)
  BY <1>1, <1>3, FailsWhole
<1>4. CASE run' = [run EXCEPT ![p].pc = "create"]
  <2>1. "create" \in Labels \ (Establishing \cup {"block"}) /\ "create" \notin Inspecting
    BY DEF Labels, Establishing, Inspecting
  <2> QED BY <1>1, <1>2, <1>4, <2>1, LabelIntact, LabelWhole
<1>5. CASE TopicListing(run[p].identity.partitions) = "good"
           /\ run' = [run EXCEPT ![p].pc = "connect", ![p].topicID = topic.id]
  <2>1. PICK n \in Nat : n = topic.id
    BY DEF Inv, OutsideOK, TopicSet
  <2>2. PICK v : v = [run[p] EXCEPT !.pc = "connect", !.topicID = n]
    OBVIOUS
  <2>3. /\ v.pc = "connect" /\ v.topicID = n /\ v.identity = run[p].identity
        /\ Current(v.identity, v.names) /\ run' = [run EXCEPT ![p] = v]
    <3>1. run' = [run EXCEPT ![p].pc = "connect", ![p].topicID = n]
      BY <1>5, <2>1
    <3> QED BY <1>2, <2>2, <3>1, ConnectIntact
  <2>4. Serves(v.identity, v.topicID)
    BY <1>5, <2>1, <2>3 DEF TopicListing, Serves, Whole, Ordered
  <2>5. Intact(v)
    BY <2>3, <2>4 DEF Intact, Inspecting
  <2> QED BY <1>1, <2>3, <2>5, ReadWhole
<1> QED BY <1>3, <1>4, <1>5 DEF FindTopic

LEMMA CreateTopicWhole ==
    ASSUME Inv, Whole, NEW p \in Processes, CreateTopic(p)
    PROVE  Whole'
<1>1. UNCHANGED <<table, slot, connector, stream, blocked>> /\ run[p].pc = "create"
  BY DEF CreateTopic, At, store
<1>2. run[p].pc \in Read
  BY <1>1 DEF Read
<1>3. CASE topic.exists
  <2>1. run' = [run EXCEPT ![p].pc = "poll"] /\ UNCHANGED <<outside, store>>
    BY <1>3 DEF CreateTopic, outside
  <2>2. "poll" \in Labels \ (Establishing \cup {"block"}) /\ "poll" \notin Inspecting
    BY DEF Labels, Establishing, Inspecting
  <2> QED BY <1>2, <2>1, <2>2, LabelIntact, LabelWhole
<1>4. CASE ~topic.exists
  <2>1. PICK n \in Nat : n = created + 1
    BY DEF Inv, OutsideOK
  <2>2. PICK v : v = [run[p] EXCEPT !.pc = "connect", !.topicID = n]
    OBVIOUS
  <2>3. run' = [run EXCEPT ![p].pc = "connect", ![p].topicID = n]
    BY <1>4, <2>1 DEF CreateTopic
  <2>4. topic'.exists /\ topic'.id = n /\ topic'.partitions = run[p].identity.partitions
        /\ topic'.listed = FALSE
    BY <1>4, <2>1 DEF CreateTopic
  <2>5. /\ v.pc = "connect" /\ v.topicID = n /\ v.identity = run[p].identity
        /\ Current(v.identity, v.names) /\ run' = [run EXCEPT ![p] = v]
    BY <1>2, <2>2, <2>3, ConnectIntact
  <2>6. stream = NoStream /\ ~topic.listed /\ ~connector.exists /\ connector.status # Up
    BY <1>4 DEF Whole, Matched, Ordered, Serves
  <2>7. Grows
    BY <1>1, <1>4, <2>6 DEF Grows
  <2>8. Current(v.identity, v.names)' /\ Serves(v.identity, v.topicID)'
    BY <1>1, <2>4, <2>5 DEF Current, Serves
  <2>9. Intact(v)'
    BY <2>5, <2>8 DEF Intact, Inspecting, Current, Serves
  <2>10. Matched' /\ Ordered' /\ ~blocked'
    BY <1>1, <2>4, <2>6 DEF Whole, Matched, Ordered
  <2> QED BY <2>5, <2>7, <2>9, <2>10, RunWhole
<1> QED BY <1>3, <1>4

LEMMA EnsureConnectorWhole ==
    ASSUME Inv, Whole, NEW p \in Processes, EnsureConnector(p)
    PROVE  Whole'
<1>1. /\ UNCHANGED <<table, topic, slot, stream, blocked>> /\ run[p].pc = "connect"
      /\ run' = [run EXCEPT ![p].pc = "await"]
  BY DEF EnsureConnector, At, store
<1>2. PICK v : v = [run[p] EXCEPT !.pc = "await"]
  OBVIOUS
<1>3. /\ v.pc = "await" /\ v.identity = run[p].identity /\ v.names = run[p].names
      /\ v.topicID = run[p].topicID /\ run' = [run EXCEPT ![p] = v]
  BY <1>1, <1>2, LabelType DEF Labels
<1>4. Current(v.identity, v.names) /\ Serves(v.identity, v.topicID)
  BY <1>1, <1>3 DEF Whole, Intact, Read, Establishing
<1>5. PICK config : config = ConnectorConfig(run[p].identity, run[p].names)
  OBVIOUS
<1>6. connector' = IF connector.exists
                     THEN [connector EXCEPT !.wanted = config]
                     ELSE [NoConnector EXCEPT !.exists = TRUE, !.wanted = config]
  BY <1>5 DEF EnsureConnector
<1>7. connector'.exists /\ (connector'.status = Up => connector.status = Up)
  <2>1. CASE connector.exists
    BY <1>6, <2>1 DEF Inv, OutsideOK, ConnectorSet
  <2>2. CASE ~connector.exists
    BY <1>6, <2>2 DEF NoConnector, Coming, Up
  <2> QED BY <2>1, <2>2
<1>8. Grows
  BY <1>1, <1>7 DEF Grows
<1>9. Intact(v)'
  BY <1>1, <1>3, <1>4, <1>7 DEF Intact, Inspecting, Current, Serves
<1>10. Matched' /\ Ordered' /\ ~blocked'
  BY <1>1, <1>4, <1>7 DEF Whole, Matched, Ordered, Current, Serves
<1> QED BY <1>3, <1>8, <1>9, <1>10, RunWhole

LEMMA AwaitCaptureWhole ==
    ASSUME Inv, Whole, NEW p \in Processes, AwaitCapture(p)
    PROVE  Whole'
<1> DEFINE good == connector.exists /\ ConnectorReady(connector.status)
           v    == [run[p] EXCEPT !.pc = "await slot", !.ready = good]
<1>1. UNCHANGED <<outside, store>> /\ run[p].pc = "await" /\ run' = [run EXCEPT ![p] = v]
  BY DEF AwaitCapture, At
<1>2. good => topic.listed
  BY ReadyIsUp DEF Inv, OutsideOK, ConnectorSet, Whole, Ordered
<1>3. run[p] \in RunSet
  BY DEF Inv, RunOK
<1>4. /\ v.pc = "await slot" /\ v.ready = good /\ v.identity = run[p].identity
      /\ v.names = run[p].names /\ v.topicID = run[p].topicID
  BY <1>3 DEF RunSet
<1>5. Current(run[p].identity, run[p].names) /\ Serves(run[p].identity, run[p].topicID)
      /\ connector.exists
  BY <1>1 DEF Whole, Intact, Read, Establishing
<1> HIDE DEF v, good
<1>6. Intact(v)
  BY <1>2, <1>4, <1>5 DEF Intact, Inspecting
<1> QED BY <1>1, <1>6, ReadWhole

LEMMA AwaitSlotWhole ==
    ASSUME Inv, Whole, NEW p \in Processes, AwaitSlot(p)
    PROVE  Whole'
<1> DEFINE label == IF run[p].ready /\ SlotReady(slot) THEN "register" ELSE "await"
           v     == [run[p] EXCEPT !.pc = label, !.ready = FALSE]
<1>1. UNCHANGED <<outside, store>> /\ run[p].pc = "await slot" /\ run' = [run EXCEPT ![p] = v]
  BY DEF AwaitSlot, At
<1>2. /\ label \in {"register", "await"}
      /\ label = "register" => topic.listed /\ slot = "reserved"
  BY <1>1 DEF SlotReady, Whole, Intact, Ordered
<1>3. run[p] \in RunSet
  BY DEF Inv, RunOK
<1> HIDE DEF label
<1>4. /\ v.pc = label /\ v.identity = run[p].identity
      /\ v.names = run[p].names /\ v.topicID = run[p].topicID
  BY <1>3 DEF RunSet
<1>5. Current(run[p].identity, run[p].names) /\ Serves(run[p].identity, run[p].topicID)
      /\ connector.exists
  BY <1>1 DEF Whole, Intact, Read, Establishing
<1> HIDE DEF v
<1>6. Intact(v)
  BY <1>2, <1>4, <1>5 DEF Intact, Inspecting
<1> QED BY <1>1, <1>6, ReadWhole

LEMMA RegisterStreamWhole ==
    ASSUME Inv, Whole, NEW p \in Processes, RegisterStream(p)
    PROVE  Whole'
<1>1. /\ UNCHANGED <<table, topic, slot, connector, blocked>> /\ run[p].pc = "register"
      /\ stream' = IF stream = NoStream THEN Registration(p) ELSE stream
  BY DEF RegisterStream, outside, At
<1>2. Grows
  BY <1>1 DEF Grows
<1>3. /\ Current(run[p].identity, run[p].names) /\ Serves(run[p].identity, run[p].topicID)
      /\ connector.exists /\ topic.listed /\ slot = "reserved"
  BY <1>1 DEF Whole, Intact, Read, Establishing
<1>4. /\ Registration(p).identity = run[p].identity /\ Registration(p).names = run[p].names
      /\ Registration(p).topicID = run[p].topicID
  BY DEF Registration
<1>5. Current(stream'.identity, stream'.names) /\ Serves(stream'.identity, stream'.topicID)
  BY <1>1, <1>3, <1>4 DEF Whole, Matched
<1>6. Matched' /\ Ordered' /\ ~blocked'
  BY <1>1, <1>3, <1>5 DEF Whole, Matched, Ordered, Current, Serves
<1>7. CASE run' = [run EXCEPT ![p].pc = "ok"]
  <2>1. PICK v : v = [run[p] EXCEPT !.pc = "ok"]
    OBVIOUS
  <2>2. v.pc = "ok" /\ run' = [run EXCEPT ![p] = v]
    BY <1>7, <2>1, LabelType DEF Labels
  <2>3. Intact(v)'
    BY <2>2 DEF Intact, Read, Establishing, Validating, Inspecting
  <2> QED BY <1>2, <1>6, <2>2, <2>3, RunWhole
<1>8. CASE Fails(p)
  <2>1. Intact(NoRun)'
    BY DEF Intact, NoRun, Read, Establishing, Validating, Inspecting
  <2> QED BY <1>2, <1>6, <1>8, <2>1, RunWhole DEF Fails
<1> QED BY <1>7, <1>8 DEF RegisterStream

LEMMA ConfirmWhole ==
    ASSUME OneConfiguration, Inv, Whole, NEW p \in Processes, ConfirmEstablished(p)
    PROVE  Whole'
<1>1. UNCHANGED <<outside, store>>
  BY DEF ConfirmEstablished
<1>2. Sound(run[p]) /\ Intact(run[p])
  BY DEF Inv, RunsSound, Whole
<1>3. run[p].pc \in Validating => stream # NoStream
  BY <1>2 DEF Sound, Validating
<1>4. ASSUME NEW label \in {"validate slot", "validate connector", "ok"},
             run[p].pc \in Validating
      PROVE  label \in Labels /\ Intact([run[p] EXCEPT !.pc = label])
  <2>1. label \in Labels \ (Establishing \cup {"block"}) /\ label \notin Inspecting
    BY DEF Labels, Establishing, Inspecting
  <2> QED BY <1>4, <2>1, LabelIntact
<1>5. CASE Check(p, "validate topic",
                 IF ValidateIdentity(run[p].identity, run[p].names) = "blocked"
                   THEN "blocked" ELSE ValidateTopic(run[p].identity), "validate slot")
  <2> DEFINE finding == IF ValidateIdentity(run[p].identity, run[p].names) = "blocked"
                          THEN "blocked" ELSE ValidateTopic(run[p].identity)
  <2>1. run[p].pc \in Validating
    BY <1>5 DEF Check, At, Validating
  <2>2. Current(run[p].identity, run[p].names)
    BY <1>2, <2>1 DEF Intact
  <2>3. finding # "blocked"
    BY <1>3, <2>1, <2>2, NothingToBlock
  <2>4. Check(p, "validate topic", finding, "validate slot")
    BY <1>5
  <2> HIDE DEF finding
  <2> QED BY <1>1, <1>4, <2>1, <2>3, <2>4, CheckWhole
<1>6. CASE Check(p, "validate slot", ValidateSlot, "validate connector")
  <2>1. run[p].pc \in Validating
    BY <1>6 DEF Check, At, Validating
  <2> QED BY <1>1, <1>3, <1>4, <1>6, <2>1, NothingToBlock, CheckWhole
<1>7. CASE Check(p, "validate connector", ValidateConnector, "ok")
  <2>1. run[p].pc \in Validating
    BY <1>7 DEF Check, At, Validating
  <2> QED BY <1>1, <1>3, <1>4, <1>7, <2>1, NothingToBlock, CheckWhole
<1> QED BY <1>5, <1>6, <1>7 DEF ConfirmEstablished

LEMMA MonitorWhole ==
    ASSUME OneConfiguration, Inv, Whole, NEW p \in Processes,
           ReadRegistration(p) \/ InspectSource(p)
    PROVE  Whole'
<1>1. UNCHANGED <<outside, store>>
  BY DEF ReadRegistration, InspectSource
<1>2. CASE ReadRegistration(p)
  <2> DEFINE v == [NoRun EXCEPT !.pc = "inspect table"]
  <2>1. run' = [run EXCEPT ![p] = v] /\ stream # NoStream
    BY <1>2 DEF ReadRegistration
  <2>2. v.pc = "inspect table"
    BY DEF NoRun
  <2> HIDE DEF v
  <2>3. Intact(v)
    BY <2>1, <2>2 DEF Intact, Read, Establishing, Validating
  <2> QED BY <1>1, <2>1, <2>3, ReadWhole
<1>3. CASE InspectSource(p)
  <2>1. stream # NoStream
    BY <1>3 DEF InspectSource, Check, At, Whole, Intact, Inspecting
  <2>2. ASSUME NEW label \in {"inspect topic", "inspect slot", "inspect connector", "idle"}
        PROVE  label \in Labels /\ Intact([run[p] EXCEPT !.pc = label])
    <3>1. label \in Labels \ (Establishing \cup {"block"}) /\ label \notin Read \cup Validating
      BY DEF Labels, Establishing, Read, Validating
    <3> QED BY <2>1, <3>1, LabelIntact
  <2>3. ASSUME NEW c \in Settings, Check(p, "inspect table", InspectIdentity(c), "inspect topic")
        PROVE  Whole'
    BY <1>1, <2>1, <2>2, <2>3, NothingToBlock, CheckWhole
  <2>4. CASE Check(p, "inspect topic", InspectTopic, "inspect slot")
    BY <1>1, <2>1, <2>2, <2>4, NothingToBlock, CheckWhole
  <2>5. CASE Check(p, "inspect slot", InspectSlot, "inspect connector")
    BY <1>1, <2>1, <2>2, <2>5, NothingToBlock, CheckWhole
  <2>6. CASE Check(p, "inspect connector", InspectConnector, "idle")
    BY <1>1, <2>1, <2>2, <2>6, NothingToBlock, CheckWhole
  <2> QED BY <1>3, <2>3, <2>4, <2>5, <2>6 DEF InspectSource
<1> QED BY <1>2, <1>3

-------------------------------------------------------------------------------
(* Steps outside Postie, and the theorem *)

LEMMA OutsideWhole ==
    ASSUME Inv, Whole, Outside, ~broken'
    PROVE  Whole'
<1>1. ASSUME Grows, UNCHANGED <<run, stream, blocked>>, Ordered' PROVE Whole'
  <2>1. \A u : Intact(u) => Intact(u)'
    BY <1>1, IntactGrows
  <2>2. ASSUME NEW q \in Processes PROVE Intact(run[q])'
    <3>1. PICK u : u = run[q]
      OBVIOUS
    <3>2. Intact(u)' /\ u = run'[q]
      BY <1>1, <2>1, <3>1 DEF Whole
    <3> QED BY <3>2 DEF Intact, Current, Serves
  <2>3. Matched'
    BY <1>1 DEF Whole, Matched, Grows, Current, Serves
  <2> QED BY <1>1, <2>2, <2>3 DEF Whole
<1>2. CASE TopicListed
  <2>1. /\ UNCHANGED <<table, slot, connector, run, stream, blocked>> /\ topic.exists
        /\ topic' = [topic EXCEPT !.listed = TRUE]
    BY <1>2 DEF TopicListed, store
  <2>2. topic'.exists /\ topic'.id = topic.id /\ topic'.partitions = topic.partitions
        /\ topic'.listed
    BY <2>1 DEF Inv, OutsideOK, TopicSet
  <2> QED BY <1>1, <2>1, <2>2 DEF Grows, Ordered, Whole
<1>3. CASE ConnectorStarts
  <2>1. /\ UNCHANGED <<table, run, stream, blocked>> /\ connector.exists
        /\ topic.exists => topic.listed /\ UNCHANGED topic
        /\ connector' = [connector EXCEPT !.live = connector.wanted, !.status = Up]
        /\ slot' = IF slot = "none" THEN "reserved" ELSE slot
    BY <1>3 DEF ConnectorStarts, store
  <2>2. topic.exists /\ topic.listed /\ topic' = topic
    BY <2>1 DEF Whole, Ordered
  <2>3. connector'.exists
    BY <2>1 DEF Inv, OutsideOK, ConnectorSet
  <2>4. Grows
    BY <2>1, <2>2, <2>3 DEF Grows
  <2>5. Ordered'
    BY <2>1, <2>2 DEF Whole, Ordered
  <2> QED BY <1>1, <2>1, <2>4, <2>5
<1>4. CASE TopicChanges
  <2>1. UNCHANGED <<table, slot, connector, run, stream, blocked>>
    BY <1>4 DEF TopicChanges, store
  <2>2. \/ topic' = [topic EXCEPT !.replicated = FALSE] \/ topic' = [topic EXCEPT !.configured = FALSE]
        \/ topic' = [topic EXCEPT !.replicated = TRUE] \/ topic' = [topic EXCEPT !.configured = TRUE]
    BY <1>4 DEF TopicChanges
  <2>3. topic'.exists = topic.exists /\ topic'.id = topic.id /\ topic'.partitions = topic.partitions
        /\ topic'.listed = topic.listed
    BY <2>2 DEF Inv, OutsideOK, TopicSet
  <2> QED BY <1>1, <2>1, <2>3 DEF Grows, Ordered, Whole
<1>5. CASE ConnectorChanges
  <2>1. UNCHANGED <<table, topic, slot, run, stream, blocked>>
    BY <1>5 DEF ConnectorChanges, store
  <2>2. PICK status \in Down : connector' = [connector EXCEPT !.status = status]
    BY <1>5 DEF ConnectorChanges
  <2>3. status # Up
    BY <2>2 DEF Down, Up
  <2>4. connector'.exists = connector.exists /\ connector'.status # Up
    BY <2>2, <2>3 DEF Inv, OutsideOK, ConnectorSet
  <2> QED BY <1>1, <2>1, <2>4 DEF Grows, Ordered, Whole
<1>6. ~AlterTable /\ ~SlotChanges
  BY DEF AlterTable, SlotChanges
<1> QED BY <1>2, <1>3, <1>4, <1>5, <1>6 DEF Outside

\* A change from outside is never taken back.
LEMMA BrokenStays == Inv /\ [Next]_vars /\ ~broken' => ~broken
<1> SUFFICES ASSUME Inv, [Next]_vars, broken' # broken PROVE broken'
  BY DEF Inv, RestOK
<1>1. ASSUME NEW p \in Provisioners,
             (\E c \in Settings : InspectTable(p, c)) \/ ProvisionStep(p)
      PROVE  FALSE
  BY <1>1 DEF ProvisionStep, InspectTable, GetStream, ConfirmEstablished, BlockSource, FindTopic,
              CreateTopic, EnsureConnector, AwaitCapture, AwaitSlot, RegisterStream, history
<1>2. ASSUME NEW p \in Monitors, MonitorStep(p) PROVE FALSE
  BY <1>2 DEF MonitorStep, ReadRegistration, InspectSource, BlockSource, history
<1>3. ASSUME NEW p \in Processes, End(p) PROVE FALSE
  BY <1>3 DEF End, history
<1>4. CASE Outside
  BY <1>4 DEF Outside, TopicListed, ConnectorStarts, AlterTable, TopicChanges, SlotChanges,
              ConnectorChanges, history
<1>5. ~UNCHANGED vars
  BY DEF vars, history
<1> QED BY <1>1, <1>2, <1>3, <1>4, <1>5 DEF Next

LEMMA WholeStep ==
    ASSUME OneConfiguration, Inv, Whole, [Next]_vars, ~broken'
    PROVE  Whole'
<1>1. Provisioners \subseteq Processes /\ Monitors \subseteq Processes
  BY DEF Processes
<1>2. ASSUME NEW p \in Processes PROVE ~BlockSource(p)
  BY DEF BlockSource, At, Whole, Intact
<1>3. CASE \E p \in Provisioners : (\E c \in Settings : InspectTable(p, c)) \/ ProvisionStep(p)
  BY <1>1, <1>2, <1>3, InspectTableWhole, GetStreamWhole, ConfirmWhole, FindTopicWhole,
     CreateTopicWhole, EnsureConnectorWhole, AwaitCaptureWhole, AwaitSlotWhole,
     RegisterStreamWhole DEF ProvisionStep
<1>4. CASE \E p \in Monitors : MonitorStep(p)
  BY <1>1, <1>2, <1>4, MonitorWhole DEF MonitorStep
<1>5. ASSUME NEW p \in Processes, End(p) PROVE Whole'
  BY <1>5, FailsWhole DEF End
<1>6. CASE Outside
  BY <1>6, OutsideWhole
<1>7. CASE UNCHANGED vars
  <2>1. UNCHANGED <<table, topic, slot, connector, stream, blocked, run>>
    BY <1>7 DEF vars, outside, store
  <2> QED BY <2>1 DEF Whole, Matched, Ordered, Intact, Current, Serves
<1> QED BY <1>3, <1>4, <1>5, <1>6, <1>7 DEF Next

\* However runs, workers and failures interleave, a source is blocked only after
\* its table, topic, slot or connector was changed from outside, as long as
\* everyone has the same configuration (isContract, tableFailure).
THEOREM NeverBlockedWithoutCause ==
    ASSUME OneConfiguration
    PROVE  Spec => []BlockedForCause
<1>1. Init => CauseInv
  <2> SUFFICES ASSUME Init PROVE Whole
    BY DEF CauseInv
  <2>1. \A p \in Processes : Intact(run[p])
    BY NoRunIntact DEF Init
  <2>2. Matched /\ ~blocked
    BY DEF Init, Matched
  <2>3. Ordered
    BY DEF Init, Ordered, NoTopic, NoConnector, Coming, Up
  <2> QED BY <2>1, <2>2, <2>3 DEF Whole
<1>2. Inv /\ CauseInv /\ [Next]_vars => CauseInv'
  BY BrokenStays, WholeStep DEF CauseInv
<1>3. CauseInv => BlockedForCause
  BY DEF CauseInv, Whole, BlockedForCause
<1> QED BY <1>1, <1>2, <1>3, InvHolds, PTL DEF Spec
==============================================================================
