----------------------------- MODULE MCProvision -----------------------------
(* Small instances of Provision for TLC. *)
EXTENDS Provision, TLC

Column(type, notNull) == [type |-> type, notNull |-> notNull]

\* A table, the table with a column of another type, and one whose key may be
\* null, which breaks the contract.
Orders(body, keyNotNull) ==
    [exists |-> TRUE, serialUniqueIndex |-> TRUE,
     columns |-> [id |-> Column("int8", TRUE), key |-> Column("text", keyNotNull),
                  body |-> Column(body, FALSE)]]

OneTable  == {Orders("text", TRUE)}
AllTables == {Orders("text", TRUE), Orders("int8", TRUE), Orders("text", FALSE)}

Setting(columns) == [columns |-> columns, serial |-> "id", partitioning |-> "key",
                     partitions |-> 2, publication |-> "managed"]
Narrow == Setting(<<"id", "key">>)
Wide   == Setting(<<"id", "key", "body">>)

OneSetting  == {Wide}
TwoSettings == {Narrow, Wide}

Faults(end, alter, topics, slots, connectors) ==
    [k \in FaultKinds |-> CASE k = "end" -> end [] k = "alter" -> alter [] k = "topic" -> topics
                            [] k = "slot" -> slots [] k = "connector" -> connectors]

\* A set of alternatives: a behaviour suffers the faults of one of them.
ProvisionFaults == {Faults(1, 1, 0, 0, 0), Faults(0, 0, 2, 0, 0), Faults(1, 0, 0, 1, 0),
                    Faults(1, 0, 0, 0, 1)}
SlotFault       == {Faults(0, 0, 0, 1, 0)}
NoFaults        == {Faults(0, 0, 0, 0, 0)}

Symmetric == Permutations(Provisioners)
==============================================================================
