----------------------------- MODULE ActivityLog -----------------------------
(***************************************************************************)
(* The operator's activity log (internal/activity/log.go): a ring buffer    *)
(* that every delivery adds to and clients read by cursor.  Add and Read    *)
(* hold the log's mutex and are one step each.                              *)
(***************************************************************************)
EXTENDS Integers, Sequences

CONSTANTS Capacity,     \* entries the buffer retains
          Readers,      \* clients that read the log
          Entries,      \* what is added
          Blank         \* the zero value of an entry

ASSUME CapacityAssumption == Capacity \in Nat \ {0}

VARIABLES boot,         \* the process, numbered by its start
          sequence,     \* the number of the newest entry
          entries,      \* the ring buffer
          page,         \* the last page each reader got, and the cursor it asked with
          written       \* history: all entries of this process, in order

logVars == <<boot, sequence, entries, page, written>>

\* A position in the log.  No process has number 0: boot 0 is the empty cursor.
cursorFor(b, n) == [boot |-> b, sequence |-> n]
NoCursor        == cursorFor(0, 0)

NoPage  == [asked |-> NoCursor, entries |-> <<>>, next |-> NoCursor, reset |-> FALSE]

Slots == 0 .. Capacity - 1

Larger(m, n) == IF m > n THEN m ELSE n

slot(n) == n % Capacity

LogInit ==
    /\ boot = 1 /\ sequence = 0 /\ written = <<>>
    /\ entries = [s \in Slots |-> Blank]
    /\ page = [r \in Readers |-> NoPage]

\* Mutant: the numbers go on where the last process was.
NewKeepsSequence ==
    /\ boot' = boot + 1 /\ written' = <<>>
    /\ entries' = [s \in Slots |-> Blank]
    /\ UNCHANGED <<page, sequence>>

\* The process starts again: an empty log.
New ==
    /\ boot' = boot + 1 /\ sequence' = 0 /\ written' = <<>>
    /\ entries' = [s \in Slots |-> Blank]
    /\ UNCHANGED page

\* An entry as it is stored, with the ID it is given.
Stamped(e, n) == [id |-> cursorFor(boot, n), entry |-> e]

Add(e) ==
    /\ sequence' = sequence + 1
    /\ entries' = [entries EXCEPT ![slot(sequence')] = Stamped(e, sequence')]
    /\ written' = Append(written, Stamped(e, sequence'))
    /\ UNCHANGED <<boot, page>>

\* Mutant: one buffer behind is too far behind.
UnusableAtCapacity(c) ==
    c.boot # boot \/ c.sequence > sequence \/ sequence - c.sequence >= Capacity

\* A cursor of another process, from the future, or older than the buffer.
Unusable(c) == c.boot # boot \/ c.sequence > sequence \/ sequence - c.sequence > Capacity

firstUnread(after) == Larger(Larger(sequence, Capacity) - Capacity + 1, after + 1)

\* The entries numbered first to sequence, as the buffer has them.
Retained(first) == [i \in 1 .. sequence - first + 1 |-> entries[slot(first + i - 1)]]

Read(r, c) ==
    LET reset == c # NoCursor /\ Unusable(c)
        after == IF reset THEN 0 ELSE c.sequence IN
      /\ page' = [page EXCEPT ![r] = [asked |-> c, entries |-> Retained(firstUnread(after)),
                                      next |-> cursorFor(boot, sequence), reset |-> reset]]
      /\ UNCHANGED <<boot, sequence, entries, written>>

\* Cursors a client may come with: none, the one it was given, one that is not
\* there yet.
Cursors(r) == {NoCursor, page[r].next, cursorFor(boot, sequence + 1)}

LogNext ==
    \/ \E e \in Entries : Add(e)
    \/ \E r \in Readers : \E c \in Cursors(r) : Read(r, c)
    \/ New

LogSpec == LogInit /\ [][LogNext]_logVars

-------------------------------------------------------------------------------
(* Properties *)

CursorSet == [boot : Nat, sequence : Nat]
Stored    == [id : CursorSet, entry : Entries]

\* Every variable of the log has its type, and sequence counts the entries (New,
\* Add).
LogTypeOK ==
    /\ boot \in Nat \ {0} /\ sequence \in Nat
    /\ entries \in [Slots -> Stored \cup {Blank}]
    /\ written \in Seq(Stored) /\ Len(written) = sequence

\* A reader that comes back with the cursor it was given gets exactly the
\* entries added since, once each and in order, as long as they are retained; if
\* not, it is told so and gets all that are (Read, firstUnread, slot).
FollowsLog ==
    [][ \A r \in Readers : page'[r] # page[r] =>
          LET c    == page'[r].asked
              kept == c.boot = boot /\ c.sequence <= sequence /\ c.sequence + Capacity >= sequence
              from == IF kept THEN c.sequence ELSE Larger(sequence, Capacity) - Capacity IN
            /\ page'[r].reset = (c # NoCursor /\ ~kept)
            /\ page'[r].entries = SubSeq(written, from + 1, sequence) ]_logVars

==============================================================================
