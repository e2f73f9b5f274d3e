------------------------- MODULE RecordDeliveryProofs -------------------------
(***************************************************************************)
(* Proofs about RecordDelivery, for every set of workers and of records,    *)
(* every destination, filter and unit of time.                              *)
(***************************************************************************)
EXTENDS RecordDelivery, ActivityLogProofs, FiniteSetTheorems

-------------------------------------------------------------------------------
(* The log *)

\* Whatever the workers do, the log sees its own operations.
LEMMA StepIsLogStep == [Next]_vars => [LogNext]_logVars
<1> SUFFICES ASSUME [Next]_vars PROVE [LogNext]_logVars
  OBVIOUS
<1>1. \A w \in Workers, m \in Messages : Entry(w, m) \in Entries
  BY EntriesAssumption DEF Entry
<1>2. \A w \in Workers, m \in Messages : Add(Entry(w, m)) => LogNext
  BY <1>1 DEF LogNext
<1>3. ASSUME NEW w \in Workers, WorkerStep(w) PROVE [LogNext]_logVars
  BY <1>2, <1>3 DEF WorkerStep, Process, Lookup, Filter, Sleep, LogOutcome, Audit, Commit, Messages
<1>4. ASSUME NEW w \in Workers, NEW a \in answers, Send(w, a) PROVE [LogNext]_logVars
  BY <1>2, <1>4 DEF Send, Messages
<1>5. ASSUME NEW r \in Readers, ReadLog(r) PROVE [LogNext]_logVars
  BY <1>5 DEF ReadLog, LogNext
<1>6. CASE Restart
  BY <1>6 DEF Restart, LogNext
<1>7. CASE UNCHANGED vars
  BY <1>7 DEF vars
<1> QED BY <1>3, <1>4, <1>5, <1>6, <1>7 DEF Next

\* The composition of workers and log implements the log.
THEOREM ImplementsLog == Spec => LogSpec
<1>1. Init => LogInit
  BY DEF Init
<1> QED BY <1>1, StepIsLogStep, PTL DEF Spec, LogSpec

\* A client that follows the log while any number of workers add to it gets every
\* retained entry once and in order (Read, Add).
THEOREM DeliveryLogFollows == Spec => FollowsLog
  BY ImplementsLog, LogFollows

-------------------------------------------------------------------------------
(* The operators *)

\* A delay of a documented length (backoff).
LEMMA BackoffDocumented ==
    ASSUME NEW n \in Nat, NEW d \in backoff(n)
    PROVE  d \in Nat /\ Documented(n, d)
<1> DEFINE R    == 2 ^ (DurationBits - 1)
           k    == IF n < 6 THEN n ELSE 6
           half == Wrap(Second * 2 ^ k, DurationBits) \div 2
<1>1. R \in Nat /\ 2 ^ DurationBits = 2 * R /\ R > 64 * Second /\ Second \in Nat \ {0}
  BY PayloadAssumption
<1>2. ASSUME NEW c \in Nat, c <= 64 * Second PROVE Wrap(c, DurationBits) = c
  <2>1. (c + R) % (2 * R) = c + R
    <3> HIDE DEF R
    <3> QED BY <1>1, <1>2
  <2> QED BY <1>1, <1>2, <2>1 DEF Wrap
<1> HIDE DEF R
<1>3. PICK j \in Jitters(half) : d = Clamp(half + j)
  BY DEF backoff
<1>4. /\ 2 ^ 0 = 1 /\ 2 ^ 1 = 2 /\ 2 ^ 2 = 4 /\ 2 ^ 3 = 8 /\ 2 ^ 4 = 16 /\ 2 ^ 5 = 32
      /\ 2 ^ 6 = 64
  OBVIOUS
<1>5. ASSUME NEW e \in 0 .. 6, NEW p \in {1, 2, 4, 8, 16, 32, 64}, e = k, 2 ^ e = p,
             e = 0 <=> p = 1, e = 6 <=> p = 64
      PROVE  d \in Nat /\ Documented(n, d)
  <2>1. Second * p \in Nat /\ Second * p <= 64 * Second
    BY <1>1
  <2>2. half = (Second * p) \div 2
    BY <1>2, <1>5, <2>1
  <2>3. j \in 0 .. half /\ d = Clamp(half + j)
    BY <1>3 DEF Jitters
  <2> HIDE DEF half
  <2>4. d \in Nat /\ d >= Second /\ d <= 60 * Second
    BY <1>1, <2>2, <2>3 DEF Clamp
  <2>5. 2 * d >= Second * p /\ (e > 0 => d <= Second * p)
    BY <1>1, <1>5, <2>2, <2>3 DEF Clamp
  <2>6. e = n \/ (e = 6 /\ n > 6)
    BY <1>5
  <2> QED BY <1>5, <2>4, <2>5, <2>6 DEF Documented
<1>6. k \in 0 .. 6 /\ (k = 0 \/ k = 1 \/ k = 2 \/ k = 3 \/ k = 4 \/ k = 5 \/ k = 6)
  OBVIOUS
<1> QED BY <1>4, <1>5, <1>6

\* A string comes from a string: numbers are not turned into one (ConvertValue).
LEMMA StringsAreKept ==
    ASSUME NEW type, NEW value, ConvertValue(type, value).kind = "string"
    PROVE  ConvertValue(type, value) = value
  BY DEF ConvertValue, expandDecimal, Invalid, Number

\* A record that decodes is not the record nobody sent (Decode).
LEMMA DecodedIsSomething ==
    ASSUME NEW r, Decodes(r)
    PROVE  Decoded(r) # Nowhere
<1>1. Columns["id"] = "int" /\ "id" \in DOMAIN Columns
  BY DEF Columns
<1>2. Decoded(r)["id"] = ConvertValue("int", r.after["id"])
  BY <1>1 DEF Decoded
<1>3. r.after["id"] # Null /\ ConvertValue("int", r.after["id"]) # Invalid
  BY <1>1 DEF Decodes
<1>4. ConvertValue("int", r.after["id"]) # Null
  BY <1>3 DEF ConvertValue
<1>5. Nowhere["id"] = Null
  BY DEF Nowhere
<1> QED BY <1>2, <1>4, <1>5

\* What MatchesFilter rejects, the filter excludes.
LEMMA RejectedIsExcluded ==
    ASSUME NEW w \in Workers, ~MatchesFilter(filter, Decoded(raw[w]))
    PROVE  Excluded(w)
<1> DEFINE c == filter.column
<1>1. /\ c \in DOMAIN Decoded(raw[w]) /\ Decoded(raw[w])[c].kind = "string"
      /\ Decoded(raw[w])[c].text \notin filter.values
  BY DEF MatchesFilter
<1>2. c \in DOMAIN Columns /\ Decoded(raw[w])[c] = ConvertValue(Columns[c], raw[w].after[c])
  BY <1>1 DEF Decoded
<1>3. Decoded(raw[w])[c] = raw[w].after[c]
  BY <1>1, <1>2, StringsAreKept
<1> QED BY <1>1, <1>2, <1>3 DEF Excluded

\* An answer that ends the attempts is complete (classify).
LEMMA TerminalIsComplete ==
    ASSUME NEW a \in AnswerSet, classify(a) # "retry"
    PROVE  /\ a.came /\ a.status \in 200 .. 299
           /\ a.success = "object" \/ (a.policy = "keep_going" /\ a.given = {"class", "description"})
           /\ classify(a) \in {"delivered", "skipped"}
<1>1. a.came /\ a.status >= 200 /\ a.status <= 299 /\ a.status \in Nat
  BY DEF classify, AnswerSet
<1>2. DecodeAcknowledgement(a) \in {"Success", "KeepGoing"}
  BY <1>1 DEF classify
<1>3. a.given \subseteq {"class", "description"}
  BY DEF AnswerSet
<1>4. a.success = "object" \/ (a.policy = "keep_going" /\ a.given = {"class", "description"})
  BY <1>2, <1>3 DEF DecodeAcknowledgement
<1>5. classify(a) \in {"delivered", "skipped"}
  BY <1>1, <1>2 DEF classify
<1> QED BY <1>1, <1>4, <1>5

-------------------------------------------------------------------------------
(* The expansion of a decimal *)

\* A set of natural numbers that is not empty has a least member: of the intervals
\* that end in a member, one has no other inside.
LEMMA LeastNatural ==
    ASSUME NEW X \in SUBSET Nat, X # {}
    PROVE  \E i \in X : \A j \in X : i <= j
<1> DEFINE R == StrictSubsetOrdering(Nat)
           F == FiniteSubsetsOf(Nat)
           T == {1 .. i : i \in X}
<1>1. IsWellFoundedOn(R, F)
  BY FS_StrictSubsetOrderingWellFounded
<1>2. T \subseteq F
  <2> SUFFICES ASSUME NEW i \in X PROVE 1 .. i \in F
    OBVIOUS
  <2>1. IsFiniteSet(1 .. i)
    BY FS_Interval
  <2> QED BY <2>1 DEF FiniteSubsetsOf
<1>3. T # {}
  OBVIOUS
<1>4. PICK t \in T : \A u \in T : ~(<<u, t>> \in R)
  <2> HIDE DEF R, F, T
  <2> QED BY <1>1, <1>2, <1>3, WFMin
<1>5. PICK i \in X : t = 1 .. i
  OBVIOUS
<1>6. ASSUME NEW j \in X, j < i PROVE FALSE
  <2>1. i \in 1 .. i /\ i \notin 1 .. j
    BY <1>6
  <2>2. 1 .. j \subseteq 1 .. i /\ 1 .. j # 1 .. i
    BY <1>6, <2>1
  <2>3. 1 .. j \in F /\ 1 .. i \in F /\ 1 .. j \in T
    BY <1>2
  <2> QED BY <1>4, <1>5, <2>2, <2>3 DEF StrictSubsetOrdering, FiniteSubsetsOf
<1> QED BY <1>6

\* A digit of a sequence; before and after it there are zeros.
DigitAt(digits, i) == IF i \in 1 .. Len(digits) THEN digits[i] ELSE 0

\* The digits before the point and the digits after it, and where each one goes.
LEMMA Joined ==
    ASSUME NEW s \in Seq(0 .. 9), NEW u \in Seq(0 .. 9)
    PROVE  /\ s \o u \in Seq(0 .. 9) /\ Len(s \o u) = Len(s) + Len(u)
           /\ \A i \in Int : DigitAt(s \o u, i) = IF i <= Len(s) THEN DigitAt(s, i)
                                                  ELSE DigitAt(u, i - Len(s))
<1>1. s \o u \in Seq(0 .. 9) /\ Len(s \o u) = Len(s) + Len(u)
  OBVIOUS
<1>2. \A i \in 1 .. Len(s) + Len(u) : (s \o u)[i] = IF i <= Len(s) THEN s[i] ELSE u[i - Len(s)]
  OBVIOUS
<1> QED BY <1>1, <1>2 DEF DigitAt

LEMMA ZerosAreZero ==
    ASSUME NEW n \in Nat
    PROVE  Zeros(n) \in Seq(0 .. 9) /\ Len(Zeros(n)) = n /\ \A i \in Int : DigitAt(Zeros(n), i) = 0
<1>1. Zeros(n) \in Seq(0 .. 9) /\ Len(Zeros(n)) = n
  BY DEF Zeros
<1>2. \A i \in 1 .. n : Zeros(n)[i] = 0
  BY DEF Zeros
<1> QED BY <1>1, <1>2 DEF DigitAt

LEMMA PartOf ==
    ASSUME NEW s \in Seq(0 .. 9), NEW m \in 1 .. Len(s) + 1, NEW n \in 0 .. Len(s), m <= n + 1
    PROVE  /\ SubSeq(s, m, n) \in Seq(0 .. 9) /\ Len(SubSeq(s, m, n)) = n - m + 1
           /\ \A i \in Int : DigitAt(SubSeq(s, m, n), i) = IF i >= 1 /\ i + m - 1 <= n
                                                           THEN DigitAt(s, i + m - 1) ELSE 0
<1>1. SubSeq(s, m, n) \in Seq(0 .. 9) /\ Len(SubSeq(s, m, n)) = n - m + 1
  OBVIOUS
<1>2. \A i \in 1 .. n - m + 1 : SubSeq(s, m, n)[i] = s[i + m - 1]
  OBVIOUS
<1> QED BY <1>1, <1>2 DEF DigitAt

\* Wherever the point is placed, every digit keeps its distance from it, there is a
\* digit before it, and no more zeros are added than the point is away (placePoint).
LEMMA PlacePointKeeps ==
    ASSUME NEW D \in Seq(0 .. 9), D # <<>>, NEW p \in Int
    PROVE  LET placed == placePoint(D, p) IN
             /\ placed.whole \in Seq(0 .. 9) /\ placed.whole # <<>> /\ placed.fraction \in Seq(0 .. 9)
             /\ \A k \in Int : DigitAt(placed.whole \o placed.fraction, Len(placed.whole) - k)
                                 = DigitAt(D, p - k)
             /\ \A bound \in Nat : -bound <= p /\ p <= bound =>
                  Len(placed.whole) + Len(placed.fraction) <= Len(D) + bound + 1
<1> DEFINE placed == placePoint(D, p)
           w == placed.whole
           f == placed.fraction
<1>0. Len(D) \in Nat /\ Len(D) > 0
  OBVIOUS
<1>1. CASE p <= 0
  <2>1. w = <<0>> /\ f = Zeros(-p) \o D
    BY <1>1 DEF placePoint
  <2>2. Zeros(-p) \in Seq(0 .. 9) /\ Len(Zeros(-p)) = -p /\ \A i \in Int : DigitAt(Zeros(-p), i) = 0
    BY <1>1, ZerosAreZero
  <2>3. w \in Seq(0 .. 9) /\ Len(w) = 1 /\ \A i \in Int : DigitAt(w, i) = 0
    BY <2>1 DEF DigitAt
  <2>4. f \in Seq(0 .. 9) /\ \A i \in Int : DigitAt(f, i) = IF i <= -p THEN 0 ELSE DigitAt(D, i + p)
    BY <1>1, <2>1, <2>2, Joined
  <2>5. Len(f) = -p + Len(D)
    BY <1>1, <2>1, <2>2, Joined
  <2> HIDE DEF w, f
  <2>6. ASSUME NEW k \in Int PROVE DigitAt(w \o f, 1 - k) = DigitAt(D, p - k)
    <3>1. DigitAt(w \o f, 1 - k) = IF 1 - k <= 1 THEN 0 ELSE DigitAt(f, -k)
      <4>1. 1 - k \in Int /\ 1 - k - 1 = -k
        OBVIOUS
      <4>2. DigitAt(w \o f, 1 - k) = IF 1 - k <= Len(w) THEN DigitAt(w, 1 - k)
                                     ELSE DigitAt(f, 1 - k - Len(w))
        BY <2>3, <2>4, <4>1, Joined
      <4> QED BY <2>3, <4>1, <4>2
    <3>2. DigitAt(f, -k) = IF -k <= -p THEN 0 ELSE DigitAt(D, p - k)
      BY <2>4
    <3>3. p - k <= 0 => DigitAt(D, p - k) = 0
      BY DEF DigitAt
    <3> QED BY <1>1, <3>1, <3>2, <3>3
  <2>7. w # <<>>
    BY <2>1
  <2>8. \A k \in Int : DigitAt(w \o f, Len(w) - k) = DigitAt(D, p - k)
    BY <2>3, <2>6
  <2>9. \A bound \in Nat : -bound <= p => Len(w) + Len(f) <= Len(D) + bound + 1
    BY <1>0, <2>3, <2>5
  <2> QED BY <2>3, <2>4, <2>7, <2>8, <2>9 DEF w, f
<1>2. CASE p > 0 /\ p >= Len(D)
  <2>1. w = D \o Zeros(p - Len(D)) /\ f = <<>>
    BY <1>2 DEF placePoint
  <2>2. /\ Zeros(p - Len(D)) \in Seq(0 .. 9) /\ Len(Zeros(p - Len(D))) = p - Len(D)
        /\ \A i \in Int : DigitAt(Zeros(p - Len(D)), i) = 0
    <3>1. p - Len(D) \in Nat
      BY <1>0, <1>2
    <3> HIDE DEF w, f, placed
    <3> QED BY <3>1, ZerosAreZero
  <2>3. /\ w \in Seq(0 .. 9) /\ Len(w) = p
        /\ \A i \in Int : DigitAt(w, i) = IF i <= Len(D) THEN DigitAt(D, i) ELSE 0
    BY <1>0, <1>2, <2>1, <2>2, Joined
  <2>4. \A i \in Int : DigitAt(w, i) = DigitAt(D, i)
    BY <2>3 DEF DigitAt
  <2>5. w \o f = w /\ w # <<>>
    BY <1>2, <2>1, <2>3
  <2>6. \A bound \in Nat : p <= bound => Len(w) + Len(f) <= Len(D) + bound + 1
    BY <1>0, <2>1, <2>3
  <2> HIDE DEF w, f
  <2> QED BY <2>1, <2>3, <2>4, <2>5, <2>6 DEF w, f
<1>3. CASE p > 0 /\ p < Len(D)
  <2>1. w = SubSeq(D, 1, p) /\ f = SubSeq(D, p + 1, Len(D))
    BY <1>0, <1>3 DEF placePoint
  <2>2. /\ w \in Seq(0 .. 9) /\ Len(w) = p
        /\ \A i \in Int : DigitAt(w, i) = IF i >= 1 /\ i <= p THEN DigitAt(D, i) ELSE 0
    <3>1. /\ 1 \in 1 .. Len(D) + 1 /\ p \in 0 .. Len(D) /\ 1 <= p + 1 /\ p - 1 + 1 = p
          /\ \A i \in Int : i + 1 - 1 = i
      BY <1>0, <1>3
    <3> HIDE DEF w, f, placed
    <3>2. /\ w \in Seq(0 .. 9) /\ Len(w) = p - 1 + 1
          /\ \A i \in Int : DigitAt(w, i) = IF i >= 1 /\ i + 1 - 1 <= p THEN DigitAt(D, i + 1 - 1) ELSE 0
      BY <2>1, <3>1, PartOf
    <3> QED BY <3>1, <3>2
  <2>3. /\ f \in Seq(0 .. 9) /\ Len(f) = Len(D) - p
        /\ \A i \in Int : DigitAt(f, i) = IF i >= 1 /\ i + p <= Len(D) THEN DigitAt(D, i + p) ELSE 0
    <3>1. /\ p + 1 \in 1 .. Len(D) + 1 /\ Len(D) \in 0 .. Len(D) /\ p + 1 <= Len(D) + 1
          /\ Len(D) - (p + 1) + 1 = Len(D) - p /\ \A i \in Int : i + (p + 1) - 1 = i + p
      BY <1>0, <1>3
    <3> HIDE DEF w, f, placed
    <3>2. /\ f \in Seq(0 .. 9) /\ Len(f) = Len(D) - (p + 1) + 1
          /\ \A i \in Int : DigitAt(f, i) = IF i >= 1 /\ i + (p + 1) - 1 <= Len(D)
                                            THEN DigitAt(D, i + (p + 1) - 1) ELSE 0
      BY <2>1, <3>1, PartOf
    <3> QED BY <3>1, <3>2
  <2> HIDE DEF w, f
  <2>4. ASSUME NEW i \in Int PROVE DigitAt(w \o f, i) = DigitAt(D, i)
    <3>1. DigitAt(w \o f, i) = IF i <= p THEN DigitAt(w, i) ELSE DigitAt(f, i - p)
      BY <2>2, <2>3, Joined
    <3>2. i \notin 1 .. Len(D) => DigitAt(D, i) = 0
      BY DEF DigitAt
    <3> QED BY <1>0, <1>3, <2>2, <2>3, <3>1, <3>2
  <2>5. w # <<>>
    BY <1>3, <2>2
  <2>6. \A k \in Int : DigitAt(w \o f, p - k) = DigitAt(D, p - k)
    BY <2>4
  <2>7. \A bound \in Nat : Len(w) + Len(f) <= Len(D) + bound + 1
    BY <1>0, <2>2, <2>3
  <2> QED BY <2>2, <2>3, <2>5, <2>6, <2>7 DEF w, f
<1>4. p <= 0 \/ (p > 0 /\ p >= Len(D)) \/ (p > 0 /\ p < Len(D))
  BY <1>0
<1> HIDE DEF placed
<1> QED BY <1>1, <1>2, <1>3, <1>4, Zenon

\* Only zeros are cut off, and not the last digit (trimLeadingZeros).
LEMMA TrimCutsZeros ==
    ASSUME NEW W \in Seq(0 .. 9), W # <<>>
    PROVE  \E m \in 1 .. Len(W) : /\ trimLeadingZeros(W) = SubSeq(W, m, Len(W))
                                  /\ W[m] # 0 \/ m = Len(W)
                                  /\ \A j \in 1 .. m - 1 : W[j] = 0
<1> DEFINE X == {i \in DOMAIN W : W[i] # 0 \/ i = Len(W)}
           P(i) == /\ W[i] # 0 \/ i = Len(W)
                   /\ \A j \in 1 .. i - 1 : W[j] = 0
<1>1. Len(W) \in Nat /\ Len(W) > 0 /\ DOMAIN W = 1 .. Len(W)
  OBVIOUS
<1>2. X \in SUBSET Nat /\ X # {}
  BY <1>1
<1>3. PICK least \in X : \A j \in X : least <= j
  BY <1>2, LeastNatural
<1>4. least \in DOMAIN W /\ P(least)
  BY <1>1, <1>3
<1> DEFINE m == CHOOSE i \in DOMAIN W : P(i)
<1>5. m \in DOMAIN W /\ P(m)
  <2> HIDE DEF P
  <2> QED BY <1>4
<1>6. trimLeadingZeros(W) = SubSeq(W, m, Len(W))
  BY DEF trimLeadingZeros
<1> QED BY <1>1, <1>5, <1>6

\* And every other digit keeps its distance from the point.
LEMMA TrimKeeps ==
    ASSUME NEW W \in Seq(0 .. 9), W # <<>>, NEW f \in Seq(0 .. 9)
    PROVE  LET t == trimLeadingZeros(W) IN
             /\ t \in Seq(0 .. 9) /\ t # <<>> /\ (Len(t) = 1 \/ t[1] # 0)
             /\ Len(t) <= Len(W)
             /\ \A k \in Int : DigitAt(t \o f, Len(t) - k) = DigitAt(W \o f, Len(W) - k)
<1> DEFINE t == trimLeadingZeros(W)
<1>1. PICK m \in 1 .. Len(W) : /\ t = SubSeq(W, m, Len(W)) /\ (W[m] # 0 \/ m = Len(W))
                               /\ \A j \in 1 .. m - 1 : W[j] = 0
  BY TrimCutsZeros
<1> HIDE DEF t
<1>2. Len(W) \in Nat /\ Len(W) > 0
  OBVIOUS
<1>3. /\ t \in Seq(0 .. 9) /\ Len(t) = Len(W) - m + 1
      /\ \A i \in Int : DigitAt(t, i) = IF i >= 1 /\ i + m - 1 <= Len(W) THEN DigitAt(W, i + m - 1) ELSE 0
  <2>1. m \in 1 .. Len(W) + 1 /\ Len(W) \in 0 .. Len(W) /\ m <= Len(W) + 1
    BY <1>2
  <2> QED BY <1>1, <2>1, PartOf
<1>4. t # <<>> /\ (Len(t) = 1 \/ t[1] # 0)
  <2>1. Len(t) \in Nat /\ Len(t) >= 1 /\ t # <<>>
    BY <1>2, <1>3
  <2>2. DigitAt(t, 1) = DigitAt(W, m)
    BY <1>2, <1>3
  <2>3. t[1] = W[m]
    BY <2>1, <2>2 DEF DigitAt
  <2> QED BY <1>1, <1>2, <1>3, <2>1, <2>3
<1>5. ASSUME NEW k \in Int PROVE DigitAt(t \o f, Len(t) - k) = DigitAt(W \o f, Len(W) - k)
  <2>1. DigitAt(t \o f, Len(t) - k) = IF Len(t) - k <= Len(t) THEN DigitAt(t, Len(t) - k)
                                      ELSE DigitAt(f, -k)
    BY <1>2, <1>3, Joined
  <2>2. DigitAt(W \o f, Len(W) - k) = IF Len(W) - k <= Len(W) THEN DigitAt(W, Len(W) - k)
                                      ELSE DigitAt(f, -k)
    BY <1>2, Joined
  <2>3. CASE k < 0
    BY <1>2, <1>3, <2>1, <2>2, <2>3
  <2>4. CASE k >= 0 /\ Len(t) - k >= 1
    <3>1. Len(t) - k + m - 1 = Len(W) - k
      BY <1>2, <1>3
    <3> QED BY <1>2, <1>3, <2>1, <2>2, <2>4, <3>1
  <2>5. CASE k >= 0 /\ Len(t) - k < 1
    <3>1. Len(W) - k <= m - 1
      BY <1>2, <1>3, <2>5
    <3>2. DigitAt(W, Len(W) - k) = 0
      BY <1>1, <1>2, <3>1 DEF DigitAt
    <3>3. DigitAt(t, Len(t) - k) = 0
      BY <1>3, <2>5
    <3> QED BY <1>2, <1>3, <2>1, <2>2, <2>5, <3>2, <3>3
  <2> QED BY <1>2, <1>3, <2>3, <2>4, <2>5
<1>6. Len(t) <= Len(W)
  BY <1>2, <1>3
<1> QED BY <1>3, <1>4, <1>5, <1>6 DEF t

\* A literal's digit of a weight, as a digit of the sequence of its digits.
LEMMA DigitOfIsDigitAt ==
    ASSUME NEW n, NEW w \in Seq(0 .. 9), NEW f \in Seq(0 .. 9), NEW e \in Int,
           n.whole = w, n.fraction = f, n.exponent = e
    PROVE  /\ Weights(n) \subseteq Int
           /\ \A k \in Int : DigitOf(n, k) = DigitAt(w \o f, Len(w) + e - k)
<1>1. Len(w) \in Nat /\ Len(f) \in Nat /\ Len(w \o f) = Len(w) + Len(f)
  BY Joined
<1>2. PICK point \in Int : point = Len(w) + e
  BY <1>1
<1>3. PICK total \in Nat : total = Len(w) + Len(f)
  BY <1>1
<1>4. Weights(n) = {point - i : i \in 1 .. total}
  <2>1. Weights(n) = {Len(w) + e - i : i \in 1 .. Len(w) + Len(f)}
    BY DEF Weights
  <2> QED BY <1>2, <1>3, <2>1
<1>5. ASSUME NEW k \in Int PROVE DigitOf(n, k) = DigitAt(w \o f, point - k)
  <2>1. DigitOf(n, k) = IF k \in Weights(n) THEN (w \o f)[point - k] ELSE 0
    <3>1. DigitOf(n, k) = IF k \in Weights(n) THEN (w \o f)[Len(w) + e - k] ELSE 0
      BY DEF DigitOf
    <3>2. Len(w) + e - k = point - k
      BY <1>2
    <3> QED BY <3>1, <3>2, Zenon
  <2>2. k \in Weights(n) <=> point - k \in 1 .. total
    <3>1. point - k \in 1 .. total => k = point - (point - k)
      OBVIOUS
    <3>2. \A i \in 1 .. total : k = point - i => point - k = i
      OBVIOUS
    <3> QED BY <1>4, <3>1, <3>2
  <2> QED BY <1>1, <1>3, <2>1, <2>2 DEF DigitAt
<1> QED BY <1>2, <1>4, <1>5

\* Digit for digit, whatever the digits and the exponent (expandDecimal).
LEMMA ExpandDenotes ==
    ASSUME NEW n, n.kind = "number", WellFormed(n), expandDecimal(n) # Invalid
    PROVE  Denotes(expandDecimal(n), n)
<1> DEFINE placed == placePoint(Digits(n), Point(n))
           t == trimLeadingZeros(placed.whole)
           e == expandDecimal(n)
<1>1. /\ n.whole \in Seq(0 .. 9) /\ n.fraction \in Seq(0 .. 9) /\ n.exponent \in Int
      /\ n.whole # <<>>
  BY DEF WellFormed
<1>2. /\ e.kind = "number" /\ e.negative = n.negative /\ e.whole = t
      /\ e.fraction = placed.fraction /\ e.exponent = 0
  BY DEF expandDecimal, Number
<1>3. Digits(n) \in Seq(0 .. 9) /\ Digits(n) # <<>> /\ Point(n) \in Int
  BY <1>1, Joined DEF Digits, Point
<1>4. /\ placed.whole \in Seq(0 .. 9) /\ placed.whole # <<>> /\ placed.fraction \in Seq(0 .. 9)
      /\ \A k \in Int : DigitAt(placed.whole \o placed.fraction, Len(placed.whole) - k)
                          = DigitAt(Digits(n), Point(n) - k)
  BY <1>3, PlacePointKeeps
<1> HIDE DEF placed
<1>5. /\ t \in Seq(0 .. 9) /\ t # <<>> /\ (Len(t) = 1 \/ t[1] # 0)
      /\ \A k \in Int : DigitAt(t \o placed.fraction, Len(t) - k)
                          = DigitAt(placed.whole \o placed.fraction, Len(placed.whole) - k)
  BY <1>4, TrimKeeps
<1> HIDE DEF t, e
<1>6. /\ Weights(n) \subseteq Int
      /\ \A k \in Int : DigitOf(n, k) = DigitAt(Digits(n), Point(n) - k)
  <2>1. /\ Weights(n) \subseteq Int
        /\ \A k \in Int : DigitOf(n, k) = DigitAt(n.whole \o n.fraction, Len(n.whole) + n.exponent - k)
    BY <1>1, DigitOfIsDigitAt
  <2>2. Digits(n) = n.whole \o n.fraction /\ Point(n) = Len(n.whole) + n.exponent
    BY DEF Digits, Point
  <2>3. ASSUME NEW k \in Int PROVE DigitOf(n, k) = DigitAt(Digits(n), Point(n) - k)
    <3>1. Len(n.whole) \in Nat /\ n.exponent \in Int
      BY <1>1
    <3>2. Len(n.whole) + n.exponent - k = Point(n) - k
      BY <2>2, <3>1
    <3> QED BY <2>1, <2>2, <3>2, Zenon
  <2> QED BY <2>1, <2>3
<1>7. /\ Weights(e) \subseteq Int
      /\ \A k \in Int : DigitOf(e, k) = DigitAt(t \o placed.fraction, Len(t) - k)
  <2>1. Len(t) \in Nat /\ Len(t) + 0 = Len(t)
    BY <1>5
  <2>2. e.whole \in Seq(0 .. 9) /\ e.fraction \in Seq(0 .. 9) /\ e.exponent \in Int
    BY <1>2, <1>4, <1>5
  <2>3. /\ Weights(e) \subseteq Int
        /\ \A k \in Int : DigitOf(e, k) = DigitAt(e.whole \o e.fraction, Len(e.whole) + e.exponent - k)
    BY <2>2, DigitOfIsDigitAt
  <2> QED BY <1>2, <2>1, <2>3
<1>8. \A k \in Weights(e) \cup Weights(n) : DigitOf(e, k) = DigitOf(n, k)
  BY <1>4, <1>5, <1>6, <1>7
<1> QED BY <1>2, <1>5, <1>8 DEF Denotes, e

\* The zeros that an expansion adds are at most maxExpandedDigits and the one before
\* the point, for every number that parseDecimal accepts ("the zero padding stays
\* within maxExpandedDigits": decimal.String).
THEOREM ExpansionBounded ==
    ASSUME NEW n, WellFormed(n), n.kind = "number", expandDecimal(n) # Invalid
    PROVE  Len(expandDecimal(n).whole) + Len(expandDecimal(n).fraction)
             <= Len(n.whole) + Len(n.fraction) + maxExpandedDigits + 1
<1> DEFINE placed == placePoint(Digits(n), Point(n))
           t == trimLeadingZeros(placed.whole)
<1>1. expandDecimal(n).whole = t /\ expandDecimal(n).fraction = placed.fraction /\ Parses(n)
  BY DEF expandDecimal, Number
<1>2. /\ n.whole \in Seq(0 .. 9) /\ n.fraction \in Seq(0 .. 9) /\ n.exponent \in Int
      /\ n.whole # <<>>
  BY DEF WellFormed
<1>3. Digits(n) \in Seq(0 .. 9) /\ Digits(n) # <<>> /\ Point(n) \in Int
  BY <1>2, Joined DEF Digits, Point
<1>4. Len(Digits(n)) = Len(n.whole) + Len(n.fraction) /\ Len(Digits(n)) \in Nat
  <2>1. Len(n.whole \o n.fraction) = Len(n.whole) + Len(n.fraction)
    BY <1>2, Joined
  <2>2. Len(Digits(n)) = Len(n.whole) + Len(n.fraction)
    BY <2>1, Zenon DEF Digits
  <2>3. Len(Digits(n)) \in Nat
    BY <1>3
  <2> QED BY <2>2, <2>3
<1>5. /\ -maxExpandedDigits <= Point(n) /\ Point(n) <= maxExpandedDigits
      /\ maxExpandedDigits \in Nat
  BY <1>1, PayloadAssumption DEF Parses, InRange
<1>6. /\ placed.whole \in Seq(0 .. 9) /\ placed.whole # <<>> /\ placed.fraction \in Seq(0 .. 9)
      /\ \A bound \in Nat : -bound <= Point(n) /\ Point(n) <= bound =>
           Len(placed.whole) + Len(placed.fraction) <= Len(Digits(n)) + bound + 1
  BY <1>3, PlacePointKeeps
<1> HIDE DEF placed
<1>7. t \in Seq(0 .. 9) /\ Len(t) <= Len(placed.whole)
  BY <1>6, TrimKeeps
<1> HIDE DEF t
<1>8. Len(t) \in Nat /\ Len(placed.whole) \in Nat /\ Len(placed.fraction) \in Nat
  BY <1>6, <1>7
<1>9. Len(placed.whole) + Len(placed.fraction) <= Len(Digits(n)) + maxExpandedDigits + 1
  BY <1>5, <1>6
<1>10. ASSUME NEW x \in Nat, NEW y \in Nat, NEW z \in Nat, NEW u \in Nat, NEW v \in Nat,
              x <= y, y + z <= u + v + 1
       PROVE  x + z <= u + v + 1
  BY <1>10
<1>11. Len(t) + Len(placed.fraction) <= Len(Digits(n)) + maxExpandedDigits + 1
  BY <1>4, <1>5, <1>7, <1>8, <1>9, <1>10, Zenon
<1> QED BY <1>1, <1>4, <1>11

\* Whatever its type, a value that is passed on is the captured one (ConvertValue).
LEMMA ConvertDenotes ==
    ASSUME NEW type, NEW value, WellFormed(value), ConvertValue(type, value) # Invalid
    PROVE  Denotes(ConvertValue(type, value), value)
<1>1. CASE value.kind # "number"
  <2>1. ConvertValue(type, value) = value
    BY <1>1 DEF ConvertValue
  <2> QED BY <1>1, <2>1 DEF Denotes
<1>2. CASE value.kind = "number" /\ type = "int"
  <2>1. ConvertValue(type, value) = value /\ value.exponent = 0
    BY <1>2 DEF ConvertValue, Fits
  <2> QED BY <1>2, <2>1 DEF Denotes, WellFormed
<1>3. CASE value.kind = "number" /\ type = "float"
  <2>1. ConvertValue(type, value) = expandDecimal(value)
    BY <1>3 DEF ConvertValue
  <2> QED BY <1>3, <2>1, ExpandDenotes
<1>4. CASE value.kind = "number" /\ type \notin {"int", "float"}
  BY <1>4 DEF ConvertValue
<1> QED BY <1>1, <1>2, <1>3, <1>4

-------------------------------------------------------------------------------
(* The workers *)

Places == {"idle", "lookup", "filter", "send", "sleep", "outcome", "audit", "commit", "done",
           "blocked"}

\* The types of the workers' own variables.
WorkersOK ==
    /\ answers \subseteq AnswerSet
    /\ at \in [Workers -> Places]
    /\ attempt \in [Workers -> Nat] /\ delay \in [Workers -> Nat]
    /\ answer \in [Workers -> AnswerSet]
    /\ outcome \in [Workers -> {"none", "delivered", "filtered", "skipped"}]
    /\ saved \subseteq Workers
    /\ DOMAIN received = Workers

\* Only a record that decodes gets past Process.
PassedDecodes == \A w \in Workers : at[w] \notin {"idle", "blocked"} => Decodes(raw[w])

\* A record with an outcome, stored or not, has a reason for it.
Reasoned ==
    \A w \in Workers :
      at[w] \in {"outcome", "audit", "commit", "done"} \/ w \in saved => Excluded(w) \/ Answered(w)

\* A record that was given up for good is not on its way to the destination.
GivenUp == \A w \in saved : at[w] \in {"idle", "lookup", "commit", "done", "blocked"}

WorkerInv == WorkersOK /\ PassedDecodes /\ Reasoned /\ GivenUp /\ WaitsAsDocumented

LEMMA WorkersInitial == Init => WorkerInv
<1> SUFFICES ASSUME Init PROVE WorkerInv
  OBVIOUS
<1>1. answers \subseteq AnswerSet
  BY ScenarioAssumption DEF Init
<1>2. NoAnswer \in AnswerSet
  BY DEF NoAnswer, Answer, AnswerSet
<1>3. WorkersOK
  BY <1>1, <1>2, PayloadAssumption DEF Init, Unstarted, WorkersOK, Places
<1>4. PassedDecodes /\ Reasoned /\ GivenUp /\ WaitsAsDocumented
  BY DEF Init, Unstarted, PassedDecodes, Reasoned, GivenUp, WaitsAsDocumented
<1> QED BY <1>3, <1>4 DEF WorkerInv

\* A worker's step that moves it to a place, and leaves the answers, what was
\* received and the stored skips alone.
LEMMA MoveKeeps ==
    ASSUME WorkerInv, NEW w \in Workers, NEW label \in Places, Goto(w, label),
           UNCHANGED <<raw, filter, answers, received, answer, saved, delay>>,
           attempt' \in [Workers -> Nat],
           \A v \in Workers : attempt'[v] = attempt[v] \/ v = w,
           outcome' \in [Workers -> {"none", "delivered", "filtered", "skipped"}],
           label \notin {"idle", "blocked"} => Decodes(raw[w]),
           label \in {"outcome", "audit", "commit", "done"} => Excluded(w) \/ Answered(w),
           w \in saved => label \in {"idle", "lookup", "commit", "done", "blocked"},
           label # "sleep"
    PROVE  WorkerInv'
<1>1. /\ at' \in [Workers -> Places] /\ at'[w] = label
      /\ \A v \in Workers : v # w => at'[v] = at[v]
  BY DEF Goto, WorkerInv, WorkersOK
<1>2. WorkersOK'
  BY <1>1 DEF WorkerInv, WorkersOK
<1>3. PassedDecodes'
  BY <1>1 DEF WorkerInv, PassedDecodes
<1>4. \A v \in Workers : /\ Excluded(v)' <=> Excluded(v)
                         /\ Answered(v)' <=> Answered(v)
  BY DEF Excluded, Answered
<1>5. Reasoned'
  BY <1>1, <1>4 DEF WorkerInv, Reasoned
<1>6. GivenUp'
  BY <1>1 DEF WorkerInv, GivenUp, WorkersOK
<1>7. WaitsAsDocumented'
  BY <1>1 DEF WorkerInv, WaitsAsDocumented
<1> QED BY <1>2, <1>3, <1>5, <1>6, <1>7 DEF WorkerInv

LEMMA WorkerStepKeeps ==
    ASSUME WorkerInv, NEW w \in Workers, WorkerStep(w)
    PROVE  WorkerInv'
<1> USE DEF WorkerInv, WorkersOK, Places
<1>1. CASE Process(w)
  BY <1>1, MoveKeeps DEF Process
<1>2. CASE Lookup(w)
  <2>1. Decodes(raw[w])
    BY <1>2 DEF Lookup, PassedDecodes
  <2>2. w \in saved => Excluded(w) \/ Answered(w)
    BY DEF Reasoned
  <2> QED BY <1>2, <2>1, <2>2, MoveKeeps DEF Lookup
<1>3. CASE Filter(w)
  <2>1. Decodes(raw[w]) /\ w \notin saved
    BY <1>3 DEF Filter, PassedDecodes, GivenUp
  <2>2. CASE MatchesFilter(filter, Decoded(raw[w]))
    BY <1>3, <2>1, <2>2, MoveKeeps DEF Filter
  <2>3. CASE ~MatchesFilter(filter, Decoded(raw[w]))
    BY <1>3, <2>1, <2>3, MoveKeeps, RejectedIsExcluded DEF Filter
  <2> QED BY <2>2, <2>3
<1>4. CASE Sleep(w)
  <2>1. Decodes(raw[w]) /\ w \notin saved
    BY <1>4 DEF Sleep, PassedDecodes, GivenUp
  <2> QED BY <1>4, <2>1, MoveKeeps DEF Sleep
<1>5. CASE LogOutcome(w)
  <2>1. Decodes(raw[w]) /\ w \notin saved /\ (Excluded(w) \/ Answered(w))
    BY <1>5 DEF LogOutcome, PassedDecodes, GivenUp, Reasoned
  <2> QED BY <1>5, <2>1, MoveKeeps DEF LogOutcome
<1>6. CASE Audit(w)
  <2>1. /\ Decodes(raw[w]) /\ (Excluded(w) \/ Answered(w))
        /\ saved' = saved \cup {w} /\ at' = [at EXCEPT ![w] = "commit"]
        /\ UNCHANGED <<raw, filter, answers, attempt, delay, received, answer, outcome>>
    BY <1>6 DEF Audit, Goto, PassedDecodes, Reasoned
  <2>2. \A v \in Workers : /\ Excluded(v)' <=> Excluded(v)
                           /\ Answered(v)' <=> Answered(v)
    BY <2>1 DEF Excluded, Answered
  <2>3. WorkersOK' /\ PassedDecodes' /\ GivenUp' /\ WaitsAsDocumented'
    BY <2>1 DEF PassedDecodes, GivenUp, WaitsAsDocumented
  <2>4. Reasoned'
    BY <2>1, <2>2 DEF Reasoned
  <2> QED BY <2>3, <2>4
<1>7. CASE Commit(w)
  <2>1. Decodes(raw[w]) /\ (Excluded(w) \/ Answered(w)) /\ at[w] = "commit"
    BY <1>7 DEF Commit, PassedDecodes, Reasoned
  <2>2. Goto(w, "done") \/ Goto(w, "commit")
    BY <1>7, <2>1 DEF Commit, Goto
  <2> QED BY <1>7, <2>1, <2>2, MoveKeeps DEF Commit
<1> QED BY <1>1, <1>2, <1>3, <1>4, <1>5, <1>6, <1>7 DEF WorkerStep

\* An attempt: a complete answer is a reason, any other leads to a documented wait.
LEMMA SendKeeps ==
    ASSUME WorkerInv, NEW w \in Workers, NEW a \in answers, Send(w, a)
    PROVE  WorkerInv'
<1> USE DEF WorkerInv, WorkersOK, Places
<1>1. /\ Decodes(raw[w]) /\ w \notin saved /\ a \in AnswerSet
      /\ UNCHANGED <<raw, filter, answers, attempt, saved>>
      /\ answer' = [answer EXCEPT ![w] = a]
  BY DEF Send, PassedDecodes, GivenUp
<1>2. /\ DOMAIN received' = Workers
      /\ \A v \in Workers : v # w => received'[v] = received[v] /\ answer'[v] = answer[v]
      /\ a.came => received'[w] # Nowhere
  BY <1>1, DecodedIsSomething DEF Send
<1>3. \A v \in Workers : /\ Excluded(v)' <=> Excluded(v)
                         /\ v # w => (Answered(v)' <=> Answered(v))
  BY <1>1, <1>2 DEF Excluded, Answered
<1>4. CASE classify(a) = "retry"
  <2>1. PICK d \in backoff(attempt[w]) : delay' = [delay EXCEPT ![w] = d]
    BY <1>4 DEF Send
  <2>2. at' = [at EXCEPT ![w] = "sleep"] /\ UNCHANGED outcome
    BY <1>4 DEF Send, Goto
  <2>3. d \in Nat /\ Documented(attempt[w], d)
    BY <2>1, BackoffDocumented
  <2>4. WorkersOK'
    BY <1>1, <1>2, <2>1, <2>2, <2>3
  <2>5. PassedDecodes' /\ GivenUp'
    BY <1>1, <2>2 DEF PassedDecodes, GivenUp
  <2>6. Reasoned'
    BY <1>1, <1>3, <2>2 DEF Reasoned
  <2>7. \A v \in Workers : at'[v] = "sleep" => Documented(attempt[v], delay'[v])
    BY <2>1, <2>2, <2>3 DEF WaitsAsDocumented
  <2>8. WaitsAsDocumented'
    BY <1>1, <2>7 DEF WaitsAsDocumented, Documented
  <2> QED BY <2>4, <2>5, <2>6, <2>8
<1>5. CASE classify(a) # "retry"
  <2>1. /\ at' = [at EXCEPT ![w] = "outcome"] /\ UNCHANGED delay
        /\ outcome' = [outcome EXCEPT ![w] = classify(a)]
    BY <1>5 DEF Send, Goto
  <2>2. /\ a.came /\ a.status \in 200 .. 299 /\ classify(a) \in {"delivered", "skipped"}
        /\ a.success = "object" \/ (a.policy = "keep_going" /\ a.given = {"class", "description"})
    BY <1>1, <1>5, TerminalIsComplete
  <2>3. Answered(w)'
    BY <1>1, <1>2, <2>2 DEF Answered
  <2>4. WorkersOK'
    BY <1>1, <1>2, <2>1, <2>2
  <2>5. PassedDecodes' /\ GivenUp' /\ WaitsAsDocumented'
    BY <1>1, <2>1 DEF PassedDecodes, GivenUp, WaitsAsDocumented
  <2>6. Reasoned'
    BY <1>1, <1>3, <2>1, <2>3 DEF Reasoned
  <2> QED BY <2>4, <2>5, <2>6
<1> QED BY <1>4, <1>5

LEMMA RestartKeeps == WorkerInv /\ Restart => WorkerInv'
<1> SUFFICES ASSUME WorkerInv, Restart PROVE WorkerInv'
  OBVIOUS
<1> USE DEF WorkerInv, WorkersOK, Places
<1>1. /\ UNCHANGED <<raw, filter, answers, delay, received, answer, saved>>
      /\ at' = [w \in Workers |-> IF at[w] \in {"done", "blocked"} THEN at[w] ELSE "idle"]
      /\ attempt' = [w \in Workers |-> IF at[w] = "done" THEN attempt[w] ELSE 0]
      /\ outcome' = [w \in Workers |-> IF at[w] = "done" THEN outcome[w] ELSE "none"]
  BY DEF Restart
<1>2. \A v \in Workers : /\ Excluded(v)' <=> Excluded(v)
                         /\ Answered(v)' <=> Answered(v)
  BY <1>1 DEF Excluded, Answered
<1>3. WorkersOK'
  BY <1>1
<1>4. PassedDecodes' /\ GivenUp' /\ WaitsAsDocumented'
  BY <1>1 DEF PassedDecodes, GivenUp, WaitsAsDocumented
<1>5. Reasoned'
  BY <1>1, <1>2 DEF Reasoned
<1> QED BY <1>3, <1>4, <1>5

LEMMA NextKeepsWorkers == WorkerInv /\ [Next]_vars => WorkerInv'
<1> SUFFICES ASSUME WorkerInv, [Next]_vars PROVE WorkerInv'
  OBVIOUS
<1>1. ASSUME UNCHANGED <<raw, filter, answers, workerVars>> PROVE WorkerInv'
  BY <1>1 DEF WorkerInv, WorkersOK, PassedDecodes, Reasoned, GivenUp, WaitsAsDocumented,
              Excluded, Answered, workerVars
<1>2. CASE \E r \in Readers : ReadLog(r)
  BY <1>1, <1>2 DEF ReadLog
<1>3. CASE UNCHANGED vars
  BY <1>1, <1>3 DEF vars
<1> QED BY <1>2, <1>3, WorkerStepKeeps, SendKeeps, RestartKeeps DEF Next

\* Every variable always has its type, and the log counts its entries.
THEOREM DeliveryTypeCorrect == Spec => []TypeOK
<1>1. WorkerInv /\ LogTypeOK => TypeOK
  BY DEF WorkerInv, WorkersOK, Places, TypeOK
<1> QED BY <1>1, WorkersInitial, NextKeepsWorkers, ImplementsLog, LogTypeCorrect, PTL DEF Spec

\* For every filter, every sequence of answers and every place where the process
\* ends: an offset moves on only past a record that the filter excludes, or that
\* the destination got and answered in full.
THEOREM DeliveryAnswered == Spec => []CommittedIsAnswered
<1>1. WorkerInv => CommittedIsAnswered
  BY DEF WorkerInv, Reasoned, CommittedIsAnswered
<1> QED BY <1>1, WorkersInitial, NextKeepsWorkers, PTL DEF Spec

\* For every unit of time and every number of attempts, the wait is the documented
\* one, and its computation does not overflow.
THEOREM DeliveryWaits == Spec => []WaitsAsDocumented
<1>1. WorkerInv => WaitsAsDocumented
  BY DEF WorkerInv
<1> QED BY <1>1, WorkersInitial, NextKeepsWorkers, PTL DEF Spec

-------------------------------------------------------------------------------
(* What the destination gets *)

\* The records are JSON, and a destination has got nothing, or the decoded row of
\* a record that decodes: also after a restart, which forgets that it was sent.
Sent ==
    \A w \in Workers :
      /\ \A c \in DOMAIN raw[w].after : WellFormed(raw[w].after[c])
      /\ received[w] # Nowhere => Decodes(raw[w]) /\ received[w] = Decoded(raw[w])

LEMMA SentInitial == Init => Sent
<1> SUFFICES ASSUME Init PROVE Sent
  OBVIOUS
<1>1. \A w \in Workers : \A c \in DOMAIN raw[w].after : WellFormed(raw[w].after[c])
  BY ScenarioAssumption DEF Init
<1>2. \A w \in Workers : received[w] = Nowhere
  BY DEF Init, Unstarted
<1> QED BY <1>1, <1>2 DEF Sent

LEMMA SentStep == WorkerInv /\ Sent /\ [Next]_vars => Sent'
<1> SUFFICES ASSUME WorkerInv, Sent, [Next]_vars PROVE Sent'
  OBVIOUS
<1>1. ASSUME UNCHANGED <<raw, received>> PROVE Sent'
  BY <1>1 DEF Sent
<1>2. ASSUME NEW w \in Workers, WorkerStep(w) PROVE Sent'
  BY <1>1, <1>2 DEF WorkerStep, Process, Lookup, Filter, Sleep, LogOutcome, Audit, Commit
<1>3. ASSUME NEW w \in Workers, NEW a \in answers, Send(w, a) PROVE Sent'
  <2>1. Decodes(raw[w]) /\ UNCHANGED raw /\ DOMAIN received = Workers
    BY <1>3 DEF Send, WorkerInv, WorkersOK, PassedDecodes
  <2>2. received' = received \/ received' = [received EXCEPT ![w] = Decoded(raw[w])]
    BY <1>3 DEF Send
  <2>3. ASSUME NEW v \in Workers, received'[v] # Nowhere
        PROVE  Decodes(raw[v]) /\ received'[v] = Decoded(raw[v])
    BY <2>1, <2>2, <2>3 DEF Sent
  <2> QED BY <2>1, <2>3 DEF Sent
<1>4. CASE \E r \in Readers : ReadLog(r)
  BY <1>1, <1>4 DEF ReadLog, workerVars
<1>5. CASE Restart
  BY <1>1, <1>5 DEF Restart
<1>6. CASE UNCHANGED vars
  BY <1>1, <1>6 DEF vars, workerVars
<1> QED BY <1>2, <1>3, <1>4, <1>5, <1>6 DEF Next

LEMMA SentIsCaptured == Sent => ReceivedIsCaptured
<1> SUFFICES ASSUME Sent, NEW w \in Workers, received[w] # Nowhere
             PROVE  /\ raw[w].op \in {"c", "r"} /\ raw[w].table /\ raw[w].key = raw[w].after["key"]
                    /\ \A c \in DOMAIN Columns : Denotes(received[w][c], raw[w].after[c])
  BY DEF ReceivedIsCaptured
<1>1. Decodes(raw[w]) /\ received[w] = Decoded(raw[w])
  BY DEF Sent
<1>2. raw[w].op \in {"c", "r"} /\ raw[w].table /\ raw[w].key = raw[w].after["key"]
  BY <1>1 DEF Decodes, validateSource, validateKey
<1>3. ASSUME NEW c \in DOMAIN Columns PROVE Denotes(received[w][c], raw[w].after[c])
  <2>1. received[w][c] = ConvertValue(Columns[c], raw[w].after[c])
    BY <1>1 DEF Decoded
  <2>2. c \in DOMAIN raw[w].after /\ ConvertValue(Columns[c], raw[w].after[c]) # Invalid
    BY <1>1 DEF Decodes
  <2>3. WellFormed(raw[w].after[c])
    BY <2>2 DEF Sent
  <2> QED BY <2>1, <2>2, <2>3, ConvertDenotes
<1> QED BY <1>2, <1>3

\* For every record, with numbers of any length and any exponent: what a
\* destination gets is the inserted row under its own key, every configured number
\* with each of its digits, however often the process ended in between.
THEOREM DeliveryFaithful == Spec => []ReceivedIsCaptured
  BY WorkersInitial, NextKeepsWorkers, SentInitial, SentStep, SentIsCaptured, PTL DEF Spec

==============================================================================
