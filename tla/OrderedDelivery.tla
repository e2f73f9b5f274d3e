--------------------------- MODULE OrderedDelivery ---------------------------
(***************************************************************************)
(* What delivery of one partition to one destination promises, without      *)
(* Kafka, workers, leases or crashes.                                       *)
(*                                                                          *)
(* README.md: "Each partition delivers in order"; docs/specification.md,    *)
(* "Delivery and operations": an offset is committed "after a terminal      *)
(* acknowledgement or audited keep_going skip"; "Delivery is at least       *)
(* once".                                                                   *)
(***************************************************************************)
EXTENDS Naturals

CONSTANTS Offsets,     \* offsets a record may have
          Excluded     \* offsets of the records the destination's filter excludes

VARIABLES sent,        \* offsets put on the wire at least once
          settled,     \* offsets acknowledged, or with a durable skip
          frontier     \* every offset below it has been committed

vars == <<sent, settled, frontier>>

\* Nothing more is owed to the destination for this offset.
Done(o) == o \in settled \cup Excluded

Init ==
    /\ sent = {}
    /\ settled = {}
    /\ frontier = 0

\* At least once: an offset may be attempted again and again, but never before
\* everything ahead of it is done.
Attempt(o) ==
    /\ \A p \in 0 .. o - 1 : Done(p)
    /\ sent' = sent \cup {o}
    /\ UNCHANGED <<settled, frontier>>

\* Only an offset that was attempted can be acknowledged or skipped.
Settle(o) ==
    /\ o \in sent
    /\ settled' = settled \cup {o}
    /\ UNCHANGED <<sent, frontier>>

\* The frontier passes one finished record at a time.
Advance ==
    /\ Done(frontier)
    /\ frontier' = frontier + 1
    /\ UNCHANGED <<sent, settled>>

Next ==
    \/ \E o \in Offsets : Attempt(o)
    \/ \E o \in sent : Settle(o)
    \/ Advance

Spec == Init /\ [][Next]_vars
==============================================================================
