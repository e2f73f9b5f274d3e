------------------------------- MODULE Payload -------------------------------
(***************************************************************************)
(* The pure functions a record goes through: Debezium decoding              *)
(* (adapters/debezium/decode.go), value conversion (protocol/payload.go),   *)
(* the filter and the acknowledgement (protocol/protocol.go), and the       *)
(* backoff between attempts (delivery/processor.go).                        *)
(*                                                                          *)
(* A JSON value is a record: its kind, and for a number the digits before   *)
(* and after the point and the exponent, for a string its text.             *)
(***************************************************************************)
EXTENDS Integers, Sequences, SequencesExt

CONSTANTS maxExpandedDigits,  \* bound on exponents and expansions
          IntBits,            \* width of the integer column
          Second,             \* one second, in units of time.Duration
          DurationBits        \* width of time.Duration

ASSUME PayloadAssumption ==
    /\ maxExpandedDigits \in Nat /\ IntBits \in Nat \ {0}
    /\ Second \in Nat \ {0}
    /\ 2 ^ (DurationBits - 1) \in Nat /\ 2 ^ DurationBits = 2 * 2 ^ (DurationBits - 1)
    /\ 2 ^ (DurationBits - 1) > 64 * Second

Null            == [kind |-> "null"]
Text(t)         == [kind |-> "string", text |-> t]
Number(neg, whole, fraction, exponent) ==
    [kind |-> "number", negative |-> neg, whole |-> whole, fraction |-> fraction,
     exponent |-> exponent]

Invalid == [kind |-> "invalid"]

\* JSON has a digit before the point, and no zero before other digits there.
WellFormed(value) ==
    value.kind = "number" =>
      /\ value.whole \in Seq(0 .. 9) /\ value.fraction \in Seq(0 .. 9) /\ value.exponent \in Int
      /\ value.whole # <<>> /\ (Len(value.whole) = 1 \/ value.whole[1] # 0)

-------------------------------------------------------------------------------
(* expandDecimal *)

Zeros(n) == [i \in 1 .. n |-> 0]

\* parseDecimal: the digits without the point, and the place of the point.
Digits(n) == n.whole \o n.fraction
Point(n)  == Len(n.whole) + n.exponent

InRange(k) == -maxExpandedDigits <= k /\ k <= maxExpandedDigits

Parses(n) == InRange(n.exponent) /\ InRange(Point(n))

\* Mutant: digits that end at the point are cut there.
placePointInside(digits, point) ==
    IF point <= 0 THEN [whole |-> <<0>>, fraction |-> Zeros(-point) \o digits]
    ELSE IF point > Len(digits) THEN [whole |-> digits \o Zeros(point - Len(digits) - 1), fraction |-> <<>>]
    ELSE [whole |-> SubSeq(digits, 1, point), fraction |-> SubSeq(digits, point + 1, Len(digits))]

placePoint(digits, point) ==
    IF point <= 0 THEN [whole |-> <<0>>, fraction |-> Zeros(-point) \o digits]
    ELSE IF point >= Len(digits) THEN [whole |-> digits \o Zeros(point - Len(digits)), fraction |-> <<>>]
    ELSE [whole |-> SubSeq(digits, 1, point), fraction |-> SubSeq(digits, point + 1, Len(digits))]

\* The first digit that is not zero, or the last one.
trimLeadingZeros(whole) ==
    LET first == CHOOSE i \in DOMAIN whole :
                   /\ whole[i] # 0 \/ i = Len(whole)
                   /\ \A j \in 1 .. i - 1 : whole[j] = 0
    IN SubSeq(whole, first, Len(whole))

\* The number without an exponent, digit for digit.
expandDecimal(n) ==
    IF ~Parses(n) THEN Invalid
    ELSE LET placed == placePoint(Digits(n), Point(n))
         IN Number(n.negative, trimLeadingZeros(placed.whole), placed.fraction, 0)

-------------------------------------------------------------------------------
(* ConvertValue *)

\* What a sequence of digits stands for.
NatOf(digits) == FoldLeft(LAMBDA n, d : 10 * n + d, 0, digits)

\* ParseInt, for a literal without point and exponent.
Fits(n) ==
    LET v == IF n.negative THEN -NatOf(n.whole) ELSE NatOf(n.whole) IN
      /\ n.fraction = <<>> /\ n.exponent = 0
      /\ -2 ^ (IntBits - 1) <= v /\ v < 2 ^ (IntBits - 1)

\* Integers and strings are passed on as they are, floats are expanded.
ConvertValue(type, value) ==
    IF value.kind = "null" THEN value
    ELSE IF type = "int" /\ value.kind = "number" THEN IF Fits(value) THEN value ELSE Invalid
    ELSE IF type = "float" /\ value.kind = "number" THEN expandDecimal(value)
    ELSE IF type = "text" /\ value.kind = "string" THEN value
    ELSE Invalid
-------------------------------------------------------------------------------
(* Decode *)

\* The configured columns and their types: the serial column, the partitioning
\* column and another.
Columns == [id |-> "int", key |-> "text", amount |-> "float"]

NoRow == <<>>

\* The record is of the configured table.
validateSource(raw) == raw.table

\* The Kafka key is the row's partitioning column, and not null.
validateKey(raw) ==
    /\ raw.key # Null /\ ConvertValue(Columns["key"], raw.key) # Invalid
    /\ "key" \in DOMAIN raw.after /\ raw.after["key"] = raw.key

\* An insert or a snapshot read with every configured column there and valid,
\* and a serial that is not null.
Decodes(raw) ==
    /\ raw.op \in {"c", "r"}
    /\ validateSource(raw)
    /\ raw.after # NoRow
    /\ validateKey(raw)
    /\ DOMAIN Columns \subseteq DOMAIN raw.after
    /\ raw.after["id"] # Null
    /\ \A c \in DOMAIN Columns : ConvertValue(Columns[c], raw.after[c]) # Invalid

\* The configured columns only.
Decoded(raw) == [c \in DOMAIN Columns |-> ConvertValue(Columns[c], raw.after[c])]

-------------------------------------------------------------------------------
(* MatchesFilter, DecodeAcknowledgement, classify *)

\* No filter, no such column or no string there: the record is delivered.
MatchesFilter(filter, payload) ==
    LET value == payload[filter.column] IN
      (filter.column \in DOMAIN payload /\ value.kind = "string") => value.text \in filter.values

\* A response: whether it came, its status, its result's "success", and the
\* policy and the other members of its result's "error".
Answer(came, status, success, policy, given) ==
    [came |-> came, status |-> status, success |-> success, policy |-> policy, given |-> given]

AnswerSet ==
    [came : BOOLEAN, status : Nat, success : {"missing", "null", "object"},
     policy : {"missing", "keep_going", "must_retry", "other"},
     given : SUBSET {"class", "description"}]

\* Mutant: an error without class and description is enough.
DecodeAcknowledgementLoose(a) ==
    IF a.success = "object" THEN "Success"
    ELSE IF a.policy = "keep_going" THEN "KeepGoing"
    ELSE "Retry"

\* Success goes before error; an error has a policy, a class and a description.
\* Anything else is a Retry.
DecodeAcknowledgement(a) ==
    IF a.success = "object" THEN "Success"
    ELSE IF a.policy = "keep_going" /\ {"class", "description"} \subseteq a.given THEN "KeepGoing"
    ELSE "Retry"

\* How an attempt ends; "retry" is an error.
classify(a) ==
    IF ~a.came \/ a.status < 200 \/ a.status > 299 THEN "retry"
    ELSE CASE DecodeAcknowledgement(a) = "Success"   -> "delivered"
           [] DecodeAcknowledgement(a) = "KeepGoing" -> "skipped"
           [] OTHER                                  -> "retry"

-------------------------------------------------------------------------------
(* backoff *)

\* The integer that is left of n in w bits.
Wrap(n, w) == ((n + 2 ^ (w - 1)) % (2 ^ w)) - 2 ^ (w - 1)

Clamp(d) == IF d < Second THEN Second ELSE IF d > 60 * Second THEN 60 * Second ELSE d

\* jitter(half + 1).
Jitters(half) == 0 .. half

\* Mutant: the shift is capped too soon.
backoffShort(attempt) ==
    LET half == Wrap(Second * 2 ^ (IF attempt < 5 THEN attempt ELSE 5), DurationBits) \div 2
    IN {Clamp(half + j) : j \in Jitters(half)}

\* The delays there may be after this attempt.
backoff(attempt) ==
    LET half == Wrap(Second * 2 ^ (IF attempt < 6 THEN attempt ELSE 6), DurationBits) \div 2
    IN {Clamp(half + j) : j \in Jitters(half)}

==============================================================================
