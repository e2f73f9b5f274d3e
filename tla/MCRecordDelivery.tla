-------------------------- MODULE MCRecordDelivery ---------------------------
(* Small instances of RecordDelivery for TLC. *)
EXTENDS RecordDelivery, TLC

CONSTANTS a, b

Full == {"class", "description"}

\* Nothing came, an error status with a good body, every kind of body.
SomeAnswers == {Answer(FALSE, 0, "missing", "missing", {}),
                Answer(TRUE, 500, "object", "missing", {})}
    \cup {Answer(TRUE, 200, success, policy, given) :
            success \in {"missing", "null", "object"},
            policy \in {"missing", "keep_going", "must_retry", "other"},
            given \in {{}, {"description"}, Full}}

Plain(whole) == Number(FALSE, whole, <<>>, 0)

Row(id, key, amount) == [id |-> id, key |-> key, amount |-> amount]

Raw(op, key, row) == [op |-> op, table |-> TRUE, key |-> key, after |-> row]

\* Numbers with up to two digits before and after the point, zeros at either end.
Whole     == {<<0>>, <<5>>, <<5, 0>>, <<5, 7>>}
Fractions == {<<>>, <<0>>, <<5>>, <<0, 5>>, <<5, 0>>}
Amounts   == {Number(neg, w, f, e) : neg \in BOOLEAN, w \in Whole, f \in Fractions,
                                     e \in -maxExpandedDigits - 1 .. maxExpandedDigits + 1}

Good == Raw("c", Text("k"), Row(Plain(<<5>>), Text("k"), Null))

\* A row the connector may produce for each reason to reject one.
Rejects == {Raw("u", Text("k"), Good.after), Raw("d", Text("k"), NoRow),
            Raw("c", Text("l"), Good.after), Raw("c", Text("k"), [id |-> Plain(<<5>>), key |-> Text("k")]),
            Raw("c", Null, Row(Plain(<<5>>), Null, Null)), Raw("c", Text("k"), Row(Null, Text("k"), Null)),
            Raw("c", Text("k"), Row(Plain(<<8>>), Text("k"), Null)),
            [Good EXCEPT !.table = FALSE]}

SomeEntries == [worker : Workers, message : Messages]

NoFilter == [column |-> "", values |-> {}]
OnlyK    == [column |-> "key", values |-> {"k"}]
Filters  == {NoFilter, OnlyK, [column |-> "key", values |-> {"l"}],
             [column |-> "amount", values |-> {"k"}]}

Budget(retries, commits, reads, restarts) ==
    [answer |-> retries, commit |-> commits, read |-> reads, restart |-> restarts]

\* Every number; every rejection, filter and answer; a destination that does not
\* answer; two partitions, a reader and a restart.
Raws(first, second) == {(a :> x) @@ (b :> y) : x \in first, y \in second}
Update == Raw("u", Text("k"), Good.after)
Other  == Raw("c", Text("l"), Row(Plain(<<5>>), Text("l"), Null))

Lost == Answer(FALSE, 0, "missing", "missing", {})
Few  == {Lost, Answer(TRUE, 200, "object", "missing", {}),
         Answer(TRUE, 200, "missing", "keep_going", Full)}

SomeScenarios ==
    {[raw |-> Raws({Raw("r", Text("k"), Row(Plain(<<5>>), Text("k"), n)) : n \in Amounts}, {Update}),
      filters |-> {NoFilter}, answers |-> Few, budget |-> Budget(0, 0, 0, 0)],
     [raw |-> Raws(Rejects \cup {Good}, {Update}), filters |-> Filters, answers |-> SomeAnswers,
      budget |-> Budget(1, 0, 0, 1)],
     [raw |-> Raws({Good}, {Update}), filters |-> {NoFilter}, answers |-> Few,
      budget |-> Budget(8, 0, 1, 0)],
     [raw |-> Raws({Good}, {Other}), filters |-> {OnlyK}, answers |-> Few \ {Lost},
      budget |-> Budget(0, 1, 2, 1)]}
==============================================================================
