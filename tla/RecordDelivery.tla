--------------------------- MODULE RecordDelivery ----------------------------
(***************************************************************************)
(* What becomes of a record's content on its way to a destination           *)
(* (internal/delivery): workers of several partitions decode, filter, send  *)
(* with retries and commit, each one record here, and report every step to  *)
(* the activity log they share.  PartitionDelivery has the offsets and the  *)
(* skip table; this module has the values, the answers, the waits and the   *)
(* log.                                                                     *)
(***************************************************************************)
EXTENDS Payload, ActivityLog

CONSTANTS Workers,      \* partition workers
          Scenarios     \* records the workers are given, the destination's filter and
                        \* answers, and how many calls may fail

Messages == {"delivery started", "retry", "acknowledged", "terminal outcome", "commit retry",
             "committed"}

ASSUME EntriesAssumption == [worker : Workers, message : Messages] \subseteq Entries
ASSUME ScenarioAssumption ==
    \A s \in Scenarios :
      /\ s.answers \subseteq AnswerSet
      /\ s.budget \in [{"answer", "commit", "read", "restart"} -> Nat]
      /\ \A r \in s.raw :
           /\ DOMAIN r = Workers
           /\ \A w \in Workers : \A c \in DOMAIN r[w].after : WellFormed(r[w].after[c])

VARIABLES raw,          \* the record each worker has
          filter,       \* the destination's filter
          answers,      \* what the destination may answer
          at,           \* where each worker is
          attempt,      \* attempt, from 0
          delay,        \* the wait chosen after the last attempt
          received,     \* what the destination got last
          answer,       \* what it answered
          outcome,      \* Outcome, or "none"
          saved,        \* postie_skips: the workers whose record has a row
          budget        \* bound: restarts and calls that may still fail

workerVars == <<at, attempt, delay, received, answer, outcome, saved>>
vars       == <<logVars, raw, filter, answers, workerVars, budget>>

Nowhere  == [id |-> Null, key |-> Null, amount |-> Null]
NoAnswer == Answer(FALSE, 0, "missing", "missing", {})

Unstarted ==
    /\ at = [w \in Workers |-> "idle"]
    /\ attempt = [w \in Workers |-> 0]
    /\ delay = [w \in Workers |-> Second]
    /\ received = [w \in Workers |-> Nowhere]
    /\ answer = [w \in Workers |-> NoAnswer]
    /\ outcome = [w \in Workers |-> "none"]
    /\ saved = {}

Init ==
    /\ LogInit
    /\ Unstarted
    /\ \E s \in Scenarios :
         /\ raw \in s.raw /\ filter \in s.filters
         /\ answers = s.answers /\ budget = s.budget

Goto(w, label) == at' = [at EXCEPT ![w] = label]

Spend(kind) ==
    /\ budget[kind] > 0
    /\ budget' = [budget EXCEPT ![kind] = @ - 1]

Entry(w, message) == [worker |-> w, message |-> message]

-------------------------------------------------------------------------------
(* Worker.Process *)

\* A record that does not decode blocks the source, and then no partition of it
\* goes on to another record.
Process(w) ==
    /\ at[w] = "idle"
    /\ \A v \in Workers : at[v] # "blocked"
    /\ Goto(w, IF Decodes(raw[w]) THEN "lookup" ELSE "blocked")
    /\ UNCHANGED <<logVars, raw, filter, answers, attempt, delay, received, answer, outcome, saved, budget>>

\* HasSkip, until it answers: a record that was given up before a restart is not
\* sent again.  The start of a delivery is logged.
Lookup(w) ==
    /\ at[w] = "lookup"
    /\ IF w \in saved
         THEN Goto(w, "commit") /\ UNCHANGED logVars
         ELSE Goto(w, "filter") /\ Add(Entry(w, "delivery started"))
    /\ UNCHANGED <<raw, filter, answers, attempt, delay, received, answer, outcome, saved, budget>>

\* Processor.Process: an excluded record is not sent.
Filter(w) ==
    /\ at[w] = "filter"
    /\ IF MatchesFilter(filter, Decoded(raw[w]))
         THEN Goto(w, "send") /\ UNCHANGED outcome
         ELSE Goto(w, "outcome") /\ outcome' = [outcome EXCEPT ![w] = "filtered"]
    /\ UNCHANGED <<logVars, raw, filter, answers, attempt, delay, received, answer, saved, budget>>

\* One attempt: the destination gets the payload, unless the request is lost,
\* and its answer is classified and logged.
Send(w, a) ==
    /\ at[w] = "send"
    /\ received' \in {[received EXCEPT ![w] = Decoded(raw[w])]}
                       \cup (IF a.came THEN {} ELSE {received})
    /\ answer' = [answer EXCEPT ![w] = a]
    /\ IF classify(a) = "retry"
         THEN /\ Spend("answer")
              /\ Add(Entry(w, "retry"))
              /\ \E d \in backoff(attempt[w]) : delay' = [delay EXCEPT ![w] = d]
              /\ Goto(w, "sleep")
              /\ UNCHANGED outcome
         ELSE /\ Add(Entry(w, "acknowledged"))
              /\ outcome' = [outcome EXCEPT ![w] = classify(a)]
              /\ Goto(w, "outcome")
              /\ UNCHANGED <<delay, budget>>
    /\ UNCHANGED <<raw, filter, answers, attempt, saved>>

\* The delay has passed.
Sleep(w) ==
    /\ at[w] = "sleep"
    /\ Goto(w, "send")
    /\ attempt' = [attempt EXCEPT ![w] = @ + 1]
    /\ UNCHANGED <<logVars, raw, filter, answers, delay, received, answer, outcome, saved, budget>>

\* The outcome is logged; a skip is stored before the commit.
LogOutcome(w) ==
    /\ at[w] = "outcome"
    /\ Add(Entry(w, "terminal outcome"))
    /\ Goto(w, IF outcome[w] = "skipped" THEN "audit" ELSE "commit")
    /\ UNCHANGED <<raw, filter, answers, attempt, delay, received, answer, outcome, saved, budget>>

\* SaveSkip, until it succeeds.
Audit(w) ==
    /\ at[w] = "audit"
    /\ Goto(w, "commit")
    /\ saved' = saved \cup {w}
    /\ UNCHANGED <<logVars, raw, filter, answers, attempt, delay, received, answer, outcome, budget>>

\* One commit attempt, retried every second.
Commit(w) ==
    /\ at[w] = "commit"
    /\ \/ /\ Add(Entry(w, "committed")) /\ Goto(w, "done") /\ UNCHANGED budget
       \/ /\ Add(Entry(w, "commit retry")) /\ Spend("commit") /\ UNCHANGED at
    /\ UNCHANGED <<raw, filter, answers, attempt, delay, received, answer, outcome, saved>>

\* The process ends and starts again, with an empty log; what was not committed
\* is delivered again.
Restart ==
    /\ Spend("restart")
    /\ New
    /\ at' = [w \in Workers |-> IF at[w] \in {"done", "blocked"} THEN at[w] ELSE "idle"]
    /\ attempt' = [w \in Workers |-> IF at[w] = "done" THEN attempt[w] ELSE 0]
    /\ outcome' = [w \in Workers |-> IF at[w] = "done" THEN outcome[w] ELSE "none"]
    /\ UNCHANGED <<raw, filter, answers, delay, received, answer, saved>>

WorkerStep(w) ==
    \/ Process(w) \/ Lookup(w) \/ Filter(w) \/ Sleep(w) \/ LogOutcome(w) \/ Audit(w) \/ Commit(w)

\* A client reads the log.
ReadLog(r) ==
    /\ Spend("read")
    /\ \E c \in Cursors(r) : Read(r, c)
    /\ UNCHANGED <<raw, filter, answers, workerVars>>

Next ==
    \/ \E w \in Workers : WorkerStep(w) \/ \E a \in answers : Send(w, a)
    \/ \E r \in Readers : ReadLog(r)
    \/ Restart

Spec == Init /\ [][Next]_vars

-------------------------------------------------------------------------------
(* Properties *)

\* Every variable has its type, and the log numbers what it holds (Log, Process).
TypeOK ==
    /\ LogTypeOK
    /\ answers \subseteq AnswerSet
    /\ at \in [Workers -> {"idle", "lookup", "filter", "send", "sleep", "outcome", "audit", "commit", "done",
                           "blocked"}]
    /\ attempt \in [Workers -> Nat] /\ delay \in [Workers -> Nat]
    /\ answer \in [Workers -> AnswerSet]
    /\ outcome \in [Workers -> {"none", "delivered", "filtered", "skipped"}]
    /\ saved \subseteq Workers

\* The weights (powers of ten) of a literal's digits, and its digit of a weight.
Weights(n)    == {Len(n.whole) + n.exponent - i : i \in 1 .. Len(n.whole) + Len(n.fraction)}
DigitOf(n, k) == IF k \in Weights(n) THEN (n.whole \o n.fraction)[Len(n.whole) + n.exponent - k] ELSE 0

\* The same number, digit by digit, and without exponent or needless zeros.
Denotes(sent, captured) ==
    IF captured.kind # "number" THEN sent = captured
    ELSE /\ sent.kind = "number" /\ sent.negative = captured.negative
         /\ \A k \in Weights(sent) \cup Weights(captured) : DigitOf(sent, k) = DigitOf(captured, k)
         /\ sent.exponent = 0 /\ (Len(sent.whole) = 1 \/ sent.whole[1] # 0)

\* A destination gets the row that was inserted, each configured value digit for
\* digit, and nothing else: no update, no delete, no row under another key
\* (Decode, ConvertValue, expandDecimal: "digit for digit").
ReceivedIsCaptured ==
    \A w \in Workers : received[w] # Nowhere =>
      /\ raw[w].op \in {"c", "r"} /\ raw[w].table /\ raw[w].key = raw[w].after["key"]
      /\ \A c \in DOMAIN Columns : Denotes(received[w][c], raw[w].after[c])

\* The filter names other values; or the destination got the record and said in
\* full that it took it or gives it up.
Excluded(w) ==
    /\ filter.column \in DOMAIN Columns /\ raw[w].after[filter.column].kind = "string"
    /\ raw[w].after[filter.column].text \notin filter.values

Answered(w) ==
    /\ received[w] # Nowhere
    /\ answer[w].came /\ answer[w].status \in 200 .. 299
    /\ \/ answer[w].success = "object"
       \/ answer[w].policy = "keep_going" /\ answer[w].given = {"class", "description"}

\* The offset moves on only when the record is excluded or answered, whatever the
\* destination said before and however often the process ended in between ("a
\* confused destination must never cause a record to be skipped": classify,
\* DecodeAcknowledgement, MatchesFilter, completeRecord).
CommittedIsAnswered ==
    \A w \in Workers : at[w] \in {"audit", "commit", "done"} => Excluded(w) \/ Answered(w)

\* The waits after attempt n as the documentation has them: half the ceiling to
\* the ceiling, which doubles from 1 s to 64 s, but from 1 s to 60 s.
Documented(n, d) ==
    \E k \in 0 .. 6 :
      /\ k = n \/ (k = 6 /\ n > 6)
      /\ d >= Second /\ d <= 60 * Second
      /\ 2 * d >= Second * 2 ^ k /\ (k > 0 => d <= Second * 2 ^ k)

\* The wait after an attempt is a documented one, however many attempts there
\* were (backoff).
WaitsAsDocumented ==
    \A w \in Workers : at[w] = "sleep" => Documented(attempt[w], delay[w])

==============================================================================
