--------------------------- MODULE StreamRegistry ----------------------------
(***************************************************************************)
(* What the registration of a source promises to everyone who reads it, for *)
(* one source of one stream generation.                                     *)
(*                                                                          *)
(* docs/specification.md, "Capture contract": a generation "freezes its     *)
(* table identity, configured columns, key, partition count, and capture    *)
(* resource names"; a block is durable.                                     *)
(***************************************************************************)
CONSTANT Nothing        \* no registration

VARIABLES stream,       \* the registration
          blocked       \* it carries a block reason

vars == <<stream, blocked>>

Init ==
    /\ stream = Nothing
    /\ blocked = FALSE

\* The first registration is the only one.
Register ==
    /\ stream = Nothing
    /\ stream' # Nothing
    /\ UNCHANGED blocked

\* A registered stream is blocked, for good.
Block ==
    /\ stream # Nothing
    /\ blocked' = TRUE
    /\ UNCHANGED stream

Next ==
    \/ Register
    \/ Block

Spec == Init /\ [][Next]_vars
==============================================================================
