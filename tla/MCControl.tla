------------------------------ MODULE MCControl ------------------------------
(* Control for TLC: the requests and faults of each run. *)
EXTENDS Control, TLC

Events(start, change, call, consumers, block, crash, shutdown, expire) ==
    [k \in EventKinds |-> CASE k = "start" -> start [] k = "change" -> change
                            [] k = "call" -> call [] k = "consumer" -> consumers
                            [] k = "block" -> block [] k = "crash" -> crash
                            [] k = "shutdown" -> shutdown [] k = "expire" -> expire]

\* Each is a set of alternatives: a behaviour has the events of one of them.
LoopEvents       == {Events(1, 2, 0, 1, 0, 0, 0, 0), Events(1, 1, 1, 0, 1, 0, 1, 0),
                     Events(2, 0, 0, 0, 1, 1, 0, 0), Events(2, 1, 0, 0, 0, 0, 0, 0),
                     Events(1, 1, 0, 0, 0, 0, 0, 1)}
SupersededEvents == {Events(2, 3, 0, 0, 0, 0, 0, 0)}

Symmetric == Permutations(Workers)
==============================================================================
