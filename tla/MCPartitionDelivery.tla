------------------------- MODULE MCPartitionDelivery -------------------------
(* Small instances of PartitionDelivery for TLC. *)
EXTENDS PartitionDelivery, TLC

Faults(evict, crash, stop, rebalance, gate, lose) ==
    [evict |-> evict, crash |-> crash, stop |-> stop, rebalance |-> rebalance,
     gate |-> gate, lose |-> lose]

\* Each is a set of alternatives: a behaviour suffers the faults of one of them.
EvictionFaults == {Faults(1, 0, 0, 0, 0, 0)}
OutageFaults   == {Faults(0, 1, 1, 1, 1, 0), Faults(0, 1, 0, 0, 0, 2)}
ProgressFaults == {Faults(1, 0, 0, 0, 0, 0), Faults(0, 0, 1, 0, 1, 1)}
TruncateFaults == {Faults(0, 0, 0, 0, 0, 1)}

Symmetric == Permutations(Clients)
==============================================================================
