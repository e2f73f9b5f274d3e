-------------------------- MODULE ActivityLogProofs ---------------------------
(***************************************************************************)
(* Proofs about ActivityLog, for every capacity and every set of readers.   *)
(***************************************************************************)
EXTENDS ActivityLog, TLAPS, SequenceTheorems

\* Readers come back with cursors.
PagesOK ==
    /\ DOMAIN page = Readers
    /\ \A r \in Readers : page[r].next \in CursorSet

\* The buffer holds the last Capacity entries that were written, each at the
\* slot of its number (Add).
RingHoldsLast ==
    \A n \in 1 .. sequence : n + Capacity > sequence => entries[slot(n)] = written[n]

LogInv == LogTypeOK /\ PagesOK /\ RingHoldsLast

-------------------------------------------------------------------------------
(* slot *)

\* Every number has a slot.
LEMMA SlotType ==
    ASSUME NEW n \in Nat
    PROVE  slot(n) \in Slots
  BY CapacityAssumption DEF slot, Slots

\* Numbers that are retained together have different slots: what collides is
\* Capacity apart (slot: "n and n+capacity collide").
LEMMA SlotsApart ==
    ASSUME NEW m \in Nat, NEW n \in Nat, m < n, n < m + Capacity
    PROVE  slot(m) # slot(n)
<1> DEFINE qm == m \div Capacity
           qn == n \div Capacity
<1>1. /\ qm \in Int /\ qn \in Int
      /\ m = Capacity * qm + slot(m) /\ n = Capacity * qn + slot(n)
  BY CapacityAssumption DEF slot
<1>2. SUFFICES ASSUME slot(m) = slot(n) PROVE FALSE
  OBVIOUS
<1>3. n - m = Capacity * (qn - qm)
  BY <1>1, <1>2, SlotType, CapacityAssumption DEF Slots
<1> HIDE DEF qm, qn
<1>4. CASE qn - qm <= 0
  <2>1. Capacity * (qn - qm) <= 0
    BY <1>1, <1>4, CapacityAssumption
  <2> QED BY <2>1, <1>3, CapacityAssumption
<1>5. CASE qn - qm >= 1
  <2>1. Capacity * (qn - qm) >= Capacity
    BY <1>1, <1>5, CapacityAssumption
  <2> QED BY <2>1, <1>3, CapacityAssumption
<1> QED BY <1>1, <1>4, <1>5

-------------------------------------------------------------------------------
(* The invariant *)

LEMMA LogInitial == LogInit => LogInv
  BY CapacityAssumption, SlotType
     DEF LogInit, LogInv, LogTypeOK, PagesOK, RingHoldsLast, NoPage, NoCursor, cursorFor, CursorSet

\* Add keeps the invariant: the entry it evicts is the one that is Capacity
\* behind.
LEMMA AddKeeps ==
    ASSUME LogInv, NEW e \in Entries, Add(e)
    PROVE  LogInv'
<1> USE DEF LogInv, LogTypeOK
<1>1. sequence' = sequence + 1 /\ sequence' \in Nat /\ slot(sequence') \in Slots
  BY SlotType DEF Add
<1> DEFINE stored == Stamped(e, sequence')
<1>2. /\ written' = Append(written, stored)
      /\ entries' = [entries EXCEPT ![slot(sequence')] = stored]
      /\ stored \in Stored
  BY <1>1 DEF Add, Stamped, Stored, cursorFor, CursorSet
<1> HIDE DEF stored
<1>3. LogTypeOK'
  BY <1>1, <1>2 DEF Add
<1>4. PagesOK'
  BY DEF Add, PagesOK
<1>5. RingHoldsLast'
  <2>1. SUFFICES ASSUME NEW n \in 1 .. sequence', n + Capacity > sequence'
                 PROVE  entries'[slot(n)] = written'[n]
    BY <1>1 DEF RingHoldsLast, slot
  <2>2. n \in Nat /\ slot(n) \in Slots
    BY <1>1, SlotType
  <2>3. CASE n = sequence'
    BY <2>3, <1>1, <1>2
  <2>4. CASE n # sequence'
    <3>1. n \in 1 .. sequence /\ n + Capacity > sequence
      BY <1>1, <2>1, <2>4, CapacityAssumption
    <3>2. entries[slot(n)] = written[n]
      BY <3>1 DEF RingHoldsLast
    <3>3. slot(n) # slot(sequence')
      BY <1>1, <2>1, <2>2, <2>4, <3>1, SlotsApart, CapacityAssumption
    <3>4. entries'[slot(n)] = entries[slot(n)] /\ written'[n] = written[n]
      BY <1>1, <1>2, <2>2, <3>1, <3>3
    <3> QED BY <3>2, <3>4
  <2> QED BY <2>3, <2>4
<1> QED BY <1>3, <1>4, <1>5

\* A read changes no more than the reader's page.
LEMMA ReadKeeps ==
    ASSUME LogInv, NEW r \in Readers, NEW c, Read(r, c)
    PROVE  LogInv'
<1>1. LogTypeOK' /\ RingHoldsLast'
  BY DEF Read, LogInv, LogTypeOK, RingHoldsLast, slot
<1>2. PagesOK'
  BY DEF Read, LogInv, LogTypeOK, PagesOK, cursorFor, CursorSet
<1> QED BY <1>1, <1>2 DEF LogInv

LEMMA NewKeeps == LogInv /\ New => LogInv'
  BY CapacityAssumption, SlotType
     DEF New, LogInv, LogTypeOK, PagesOK, RingHoldsLast

LEMMA LogNextKeeps == LogInv /\ [LogNext]_logVars => LogInv'
<1>1. ASSUME LogInv, UNCHANGED logVars PROVE LogInv'
  BY <1>1 DEF logVars, LogInv, LogTypeOK, PagesOK, RingHoldsLast, slot
<1> QED BY <1>1, AddKeeps, ReadKeeps, NewKeeps DEF LogNext

\* The log always has its type, and the buffer holds the last entries.
THEOREM LogInvariant == LogSpec => []LogInv
  BY LogInitial, LogNextKeeps, PTL DEF LogSpec

\* Every variable of the log always has its type, and sequence counts what was
\* added (New, Add).
THEOREM LogTypeCorrect == LogSpec => []LogTypeOK
<1>1. LogInv => LogTypeOK
  BY DEF LogInv
<1> QED BY <1>1, LogInvariant, PTL

-------------------------------------------------------------------------------
(* What a reader gets *)

\* The buffer, read from a retained number on, is what was written from there on.
LEMMA RetainedIsWritten ==
    ASSUME LogInv, NEW from \in Nat, from <= sequence, from + Capacity >= sequence
    PROVE  Retained(from + 1) = SubSeq(written, from + 1, sequence)
<1> USE DEF LogInv, LogTypeOK
<1>1. \A i \in 1 .. sequence - from : entries[slot(from + i)] = written[from + i]
  <2> SUFFICES ASSUME NEW i \in 1 .. sequence - from
               PROVE  entries[slot(from + i)] = written[from + i]
    OBVIOUS
  <2>1. from + i \in 1 .. sequence /\ (from + i) + Capacity > sequence
    BY CapacityAssumption
  <2> QED BY <2>1 DEF RingHoldsLast
<1>2. Retained(from + 1) = [i \in 1 .. sequence - from |-> entries[slot(from + i)]]
  <2>1. sequence - (from + 1) + 1 = sequence - from
    OBVIOUS
  <2>2. \A i \in 1 .. sequence - from : (from + 1) + i - 1 = from + i
    OBVIOUS
  <2> QED BY <2>1, <2>2 DEF Retained
<1>3. SubSeq(written, from + 1, sequence) = [i \in 1 .. sequence - from |-> written[from + i]]
  <2>1. sequence - (from + 1) + 1 = sequence - from
    OBVIOUS
  <2> QED BY <2>1
<1> QED BY <1>1, <1>2, <1>3

\* Every read gives exactly the retained entries after the reader's cursor, in
\* order, and says when entries were lost in between (Read, firstUnread).
LEMMA ReadFollows ==
    ASSUME LogInv, NEW r \in Readers, NEW c \in Cursors(r), Read(r, c)
    PROVE  LET kept == c.boot = boot /\ c.sequence <= sequence /\ c.sequence + Capacity >= sequence
               from == IF kept THEN c.sequence ELSE Larger(sequence, Capacity) - Capacity IN
             /\ page'[r].asked = c
             /\ page'[r].reset = (c # NoCursor /\ ~kept)
             /\ page'[r].entries = SubSeq(written, from + 1, sequence)
<1> DEFINE kept  == c.boot = boot /\ c.sequence <= sequence /\ c.sequence + Capacity >= sequence
           from  == IF kept THEN c.sequence ELSE Larger(sequence, Capacity) - Capacity
           reset == c # NoCursor /\ Unusable(c)
           after == IF reset THEN 0 ELSE c.sequence
<1> USE DEF LogInv, LogTypeOK
<1>1. c \in CursorSet
  BY DEF Cursors, PagesOK, CursorSet, NoCursor, cursorFor
<1>2. /\ page'[r].asked = c /\ page'[r].reset = reset
      /\ page'[r].entries = Retained(firstUnread(after))
  BY DEF Read, PagesOK
<1>3. Unusable(c) <=> ~kept
  BY <1>1, CapacityAssumption DEF Unusable, CursorSet
<1>4. c = NoCursor => c.sequence = 0 /\ ~kept
  BY DEF NoCursor, cursorFor
<1>5. from \in Nat /\ from <= sequence /\ from + Capacity >= sequence
  BY <1>1, CapacityAssumption DEF CursorSet, Larger
<1>6. firstUnread(after) = from + 1
  <2>1. CASE kept
    <3>1. after = c.sequence /\ from = c.sequence
      BY <2>1, <1>3
    <3> QED BY <3>1, <2>1, <1>1, CapacityAssumption DEF firstUnread, Larger, CursorSet
  <2>2. CASE ~kept
    <3>1. after = 0
      BY <2>2, <1>3, <1>4
    <3> QED BY <3>1, <2>2, CapacityAssumption DEF firstUnread, Larger
  <2> QED BY <2>1, <2>2
<1> HIDE DEF kept, from, reset, after
<1>7. Retained(firstUnread(after)) = SubSeq(written, from + 1, sequence)
  BY <1>5, <1>6, RetainedIsWritten
<1>8. reset = (c # NoCursor /\ ~kept)
  BY <1>3 DEF reset
<1> QED BY <1>2, <1>7, <1>8 DEF kept, from

\* A reader never misses a retained entry, gets none twice and none out of
\* order, whatever is added between its reads, at every capacity, and is told
\* when the buffer has moved past it or the process has been restarted.
THEOREM LogFollows == LogSpec => FollowsLog
<1> DEFINE Follows(r) ==
      page'[r] # page[r] =>
          LET c    == page'[r].asked
              kept == c.boot = boot /\ c.sequence <= sequence /\ c.sequence + Capacity >= sequence
              from == IF kept THEN c.sequence ELSE Larger(sequence, Capacity) - Capacity IN
            /\ page'[r].reset = (c # NoCursor /\ ~kept)
            /\ page'[r].entries = SubSeq(written, from + 1, sequence)
<1>1. ASSUME LogInv, LogNext, NEW r \in Readers PROVE Follows(r)
  <2>1. CASE \E e \in Entries : Add(e)
    BY <2>1 DEF Add
  <2>2. CASE New
    BY <2>2 DEF New
  <2>3. ASSUME NEW q \in Readers, NEW c \in Cursors(q), Read(q, c) PROVE Follows(r)
    <3>1. CASE q = r
      BY <1>1, <2>3, <3>1, ReadFollows
    <3>2. CASE q # r
      BY <1>1, <2>3, <3>2 DEF Read, LogInv, PagesOK
    <3> QED BY <3>1, <3>2
  <2> QED BY <1>1, <2>1, <2>2, <2>3 DEF LogNext
<1>2. LogInv /\ [LogNext]_logVars => [\A r \in Readers : Follows(r)]_logVars
  BY <1>1
<1>3. LogSpec => [][\A r \in Readers : Follows(r)]_logVars
  BY <1>2, LogInvariant, PTL DEF LogSpec
<1> QED BY <1>3 DEF FollowsLog

==============================================================================
