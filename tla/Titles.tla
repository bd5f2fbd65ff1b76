------------------------------- MODULE Titles -------------------------------
(***************************************************************************)
(* The titles of threads: one generation per thread at most                *)
(* (server/title-generation.ts, threads/titles.ts), scheduled by initial   *)
(* submissions and their replays, beside renames, deletions, the shutdown  *)
(* of the server and its crashes.                                          *)
(***************************************************************************)
EXTENDS Naturals, FiniteSets

CONSTANTS Thread, Task,
  MaxConcurrency,   \* model requests at a time
  MaxStops,         \* bound on shutdowns and crashes
  None

TitlesAssumption == {MaxConcurrency, MaxStops} \subseteq Nat

VARIABLES
  row,      \* of each thread: its title, titleGenerationStartedAt, whether it is deleted
  task,     \* a scheduled generation each
  server, stops,
  asked     \* how often the model was asked for a thread

vars == << row, task, server, stops, asked >>

TypeOK ==
  /\ row \in [Thread -> [title : {None, "generated", "user"}, started : BOOLEAN, deleted : BOOLEAN]]
  /\ task \in [Task -> [thread : Thread \cup {None},
                        at : {"new", "claim", "admit", "asking", "write", "done"}]]
  /\ \A k \in Task : task[k].at \in {"admit", "asking", "write"} => row[task[k].thread].started
  /\ server \in {"up", "closing", "closed"} /\ stops \in 0 .. MaxStops
  /\ asked \in [Thread -> 0 .. Cardinality(Task)]

Init ==
  /\ row = [t \in Thread |-> [title |-> None, started |-> FALSE, deleted |-> FALSE]]
  /\ task = [k \in Task |-> [thread |-> None, at |-> "new"]]
  /\ server = "up" /\ stops = 0 /\ asked = [t \in Thread |-> 0]

Step(k, at) == task' = [task EXCEPT ![k].at = at]
Live == {k \in Task : task[k].at \in {"claim", "admit", "asking", "write"}}
Generations == {k \in Task : task[k].at \in {"asking", "write"}}

-----------------------------------------------------------------------------
\* schedule: the response of an initial submission, or of its replay, was sent.
Schedule(k, t) ==
  /\ task[k].at = "new" /\ server = "up"
  /\ task' = [task EXCEPT ![k] = [thread |-> t, at |-> "claim"]]
  /\ UNCHANGED << row, server, stops, asked >>

Claimable(t) == ~row[t].deleted /\ ~row[t].started /\ row[t].title = None

\* claimTitleGeneration, whose commit may not be acknowledged.
Claim(k) ==
  LET t == task[k].thread IN
  /\ task[k].at = "claim"
  /\ IF Claimable(t) THEN /\ row' = [row EXCEPT ![t].started = TRUE]
                          /\ Step(k, "admit") \/ Step(k, "done")
     ELSE Step(k, "done") /\ UNCHANGED row
  /\ UNCHANGED << server, stops, asked >>

\* No key, an empty prompt, a shutdown or two requests under way: the claim stays.
Admit(k) ==
  /\ task[k].at = "admit"
  /\ \/ /\ server = "up" /\ Cardinality(Generations) < MaxConcurrency
        /\ Step(k, "asking")
        /\ asked' = [asked EXCEPT ![task[k].thread] = @ + 1]
     \/ Step(k, "done") /\ UNCHANGED asked
  /\ UNCHANGED << row, server, stops >>

\* The model answers with a usable title.
Answer(k) ==
  /\ task[k].at = "asking" /\ Step(k, "write")
  /\ UNCHANGED << row, server, stops, asked >>

\* An error, a title that is empty, ten seconds, the abort of the shutdown.
Fail(k) ==
  /\ task[k].at = "asking" /\ Step(k, "done")
  /\ UNCHANGED << row, server, stops, asked >>

\* (fault) whatever the title is by now
Overwrite(t) == ~row[t].deleted

StillUntitled(t) == ~row[t].deleted /\ row[t].title = None

\* completeTitleGeneration
Write(k) ==
  LET t == task[k].thread IN
  /\ task[k].at = "write" /\ Step(k, "done")
  /\ row' = IF StillUntitled(t) THEN [row EXCEPT ![t].title = "generated"] ELSE row
  /\ UNCHANGED << server, stops, asked >>

\* renameThread
Rename(t) ==
  /\ ~row[t].deleted
  /\ row' = [row EXCEPT ![t].title = "user"]
  /\ UNCHANGED << task, server, stops, asked >>

Delete(t) ==
  /\ ~row[t].deleted
  /\ row' = [row EXCEPT ![t].deleted = TRUE]
  /\ UNCHANGED << task, server, stops, asked >>

-----------------------------------------------------------------------------
BeginShutdown ==
  /\ server = "up" /\ stops < MaxStops
  /\ server' = "closing" /\ stops' = stops + 1
  /\ UNCHANGED << row, task, asked >>

Drained == Live = {}

EndShutdown ==
  /\ server = "closing" /\ Drained
  /\ server' = "closed"
  /\ UNCHANGED << row, task, stops, asked >>

Restart ==
  /\ server = "closed" /\ server' = "up"
  /\ UNCHANGED << row, task, stops, asked >>

Crash ==
  /\ stops < MaxStops /\ stops' = stops + 1
  /\ server' = "up"
  /\ task' = [k \in Task |-> IF k \in Live THEN [task[k] EXCEPT !.at = "done"] ELSE task[k]]
  /\ UNCHANGED << row, asked >>

Work(k) == Claim(k) \/ Admit(k) \/ Fail(k) \/ Write(k)

Next ==
  \/ \E k \in Task : Work(k) \/ Answer(k) \/ \E t \in Thread : Schedule(k, t)
  \/ \E t \in Thread : Rename(t) \/ Delete(t)
  \/ BeginShutdown \/ EndShutdown \/ Restart \/ Crash

Spec == Init /\ [][Next]_vars

\* The store answers, requests time out, and a shutdown waits for them; the model
\* need not answer.
FairSpec == Spec /\ WF_vars(EndShutdown) /\ \A k \in Task : WF_vars(Work(k))

-----------------------------------------------------------------------------
\* The model is asked once for a thread, whatever is replayed, interrupted or
\* refused: what a crash took is not generated again.
AskedOnce == \A t \in Thread : asked[t] <= 1

\* What the user called the thread is not overwritten by an answer that is late.
UserTitleStays ==
  \A t \in Thread : row[t].title = "user" => row'[t].title = "user"

\* No task is left that would use the database after its pool is closed.
QuietWhenClosed == server = "closed" => Live = {}

\* A shutdown ends, though the model never answers.
ShutdownEnds == server = "closing" ~> server # "closing"
=============================================================================
