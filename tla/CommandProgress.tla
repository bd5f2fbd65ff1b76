--------------------------- MODULE CommandProgress --------------------------
(***************************************************************************)
(* Live output of one running command: watchProgress in apps/runner/src/   *)
(* execution-coordinator.ts, the read of the journal's capture files by    *)
(* guest/command-progress.py, and how the call of execute() that owns the  *)
(* command stops the observation before it reports the outcome.            *)
(*                                                                         *)
(* One loop polls at a time.  A poll may answer late, fail or never        *)
(* answer; the observer that receives the output may throw.                *)
(***************************************************************************)
EXTENDS Naturals, Sequences

CONSTANTS
  Stream,   \* stdout and stderr
  Size,     \* what the command writes on each stream, in units of output
  Limit,    \* how much of a stream is shown
  Chunk,    \* how much one poll asks for
  None      \* what the observer receives when live output is unavailable

ProgressAssumption == {Size, Limit, Chunk} \subseteq Nat /\ Chunk > 0

VARIABLES
  captured,   \* how long each capture file is
  offset,     \* how far each stream was read
  loop,       \* "delay", "asked", "told" or "ended"
  told,       \* the answer of a poll: how much of each stream it has
  emitted,    \* what the observer received, in order
  stopped,    \* nothing may be emitted any more
  exec,       \* "running", "returned" or "lost": the provider's call
  failure,    \* the observer has thrown
  call        \* execute(): "waiting", "stopping", "reconciling", "settled", "raised"

vars == << captured, offset, loop, told, emitted, stopped, exec, failure, call >>

Lesser(m, n) == IF m < n THEN m ELSE n

Update == [stream : Stream, from : 0 .. Limit, to : 0 .. Limit]

TypeOK ==
  /\ captured \in [Stream -> 0 .. Size]
  /\ offset \in [Stream -> 0 .. Limit]
  /\ loop \in {"delay", "asked", "told", "ended"}
  /\ told \in [Stream -> 0 .. Chunk]
  /\ emitted \in Seq(Update \cup {None})
  /\ stopped \in BOOLEAN
  /\ exec \in {"running", "returned", "lost"}
  /\ failure \in BOOLEAN
  /\ call \in {"waiting", "stopping", "reconciling", "settled", "raised"}

Init ==
  /\ captured = [s \in Stream |-> 0]
  /\ offset = [s \in Stream |-> 0]
  /\ loop = "delay"
  /\ told = [s \in Stream |-> 0]
  /\ emitted = << >>
  /\ stopped = FALSE
  /\ exec = "running"
  /\ failure = FALSE
  /\ call = "waiting"

\* The command writes, until it is over.
Write(s) ==
  /\ captured[s] < Size
  /\ captured' = [captured EXCEPT ![s] = @ + 1]
  /\ UNCHANGED << offset, loop, told, emitted, stopped, exec, failure, call >>

\* The delay is over: the loop ends, or asks for the next part of each stream.
Poll ==
  /\ loop = "delay"
  /\ loop' = IF stopped \/ \A s \in Stream : offset[s] >= Limit THEN "ended" ELSE "asked"
  /\ UNCHANGED << captured, offset, told, emitted, stopped, exec, failure, call >>

\* How much of a stream a poll asks for.
Asked(s) == Lesser(Chunk, Limit - offset[s])

\* The guest reads what is there, within the limits asked for; the parser drops
\* what goes beyond the size the guest reported before it read.
Read ==
  /\ loop = "asked"
  /\ told' = [s \in Stream |->
       IF captured[s] <= offset[s] THEN 0
       ELSE Lesser(captured[s] - offset[s], Asked(s))]
  /\ loop' = "told"
  /\ UNCHANGED << captured, offset, emitted, stopped, exec, failure, call >>

\* emit: nothing reaches the observer after stop.
Emit(update) == emitted' = IF stopped THEN emitted ELSE Append(emitted, update)

\* (fault) the cursor moves by what was asked for
AdvanceByChunk(s) == offset' = [offset EXCEPT ![s] = Lesser(Limit, @ + Chunk)]

\* The cursor moves by what was received.
Advance(s) == offset' = [offset EXCEPT ![s] = @ + told[s]]

\* One chunk of the answer.
Show(s) ==
  /\ loop = "told"
  /\ told[s] > 0
  /\ Advance(s)
  /\ Emit([stream |-> s, from |-> offset[s], to |-> offset'[s]])
  /\ told' = [told EXCEPT ![s] = 0]
  /\ UNCHANGED << captured, loop, stopped, exec, failure, call >>

\* The observer throws on it: the loop ends and the command is aborted.
ShowFails(s) ==
  /\ loop = "told"
  /\ told[s] > 0
  /\ ~stopped
  /\ Advance(s)
  /\ failure' = TRUE
  /\ loop' = "ended"
  /\ UNCHANGED << captured, told, emitted, stopped, exec, call >>

\* The answer is used up.
Rest ==
  /\ loop = "told"
  /\ \A s \in Stream : told[s] = 0
  /\ loop' = "delay"
  /\ UNCHANGED << captured, offset, told, emitted, stopped, exec, failure, call >>

\* The poll fails, times out or reports no valid journal: observation ends, and
\* says so unless it was being stopped.
Unavailable ==
  /\ loop = "asked"
  /\ loop' = "ended"
  /\ IF stopped THEN UNCHANGED emitted ELSE Emit(None)
  /\ UNCHANGED << captured, offset, told, stopped, exec, failure, call >>

\* The provider answers for the command, or its call is lost or aborted.
Return ==
  /\ exec = "running"
  /\ exec' \in {"returned", "lost"}
  /\ UNCHANGED << captured, offset, loop, told, emitted, stopped, failure, call >>

\* stop(): in the finally of the call.
Stop ==
  /\ call = "waiting"
  /\ exec # "running"
  /\ stopped' = TRUE
  /\ call' = "stopping"
  /\ UNCHANGED << captured, offset, loop, told, emitted, exec, failure >>

\* stop() waits for the loop or for a grace period, whichever is shorter.
StopReturns == TRUE

Stopped ==
  /\ call = "stopping"
  /\ StopReturns
  /\ call' = "reconciling"
  /\ UNCHANGED << captured, offset, loop, told, emitted, stopped, exec, failure >>

\* An observer's error is reported after the outcome is stored.
Raises == failure /\ call = "settled"

\* The answer, or a reconciliation of the journal, gives the outcome and the
\* row is settled or marked unknown (GuestCommands).
Settle ==
  /\ call = "reconciling"
  /\ call' = "settled"
  /\ UNCHANGED << captured, offset, loop, told, emitted, stopped, exec, failure >>

Raise ==
  /\ Raises
  /\ call' = "raised"
  /\ UNCHANGED << captured, offset, loop, told, emitted, stopped, exec, failure >>

Next ==
  \/ \E s \in Stream : Write(s) \/ Show(s) \/ ShowFails(s)
  \/ Poll \/ Read \/ Rest \/ Unavailable
  \/ Return \/ Stop \/ Stopped \/ Settle \/ Raise

\* The call makes progress and has a deadline; nothing is assumed of the polls.
Fairness == WF_vars(Return) /\ WF_vars(Stop \/ Stopped \/ Settle)

Spec == Init /\ [][Next]_vars /\ Fairness

-----------------------------------------------------------------------------
(* Properties. *)

Shown(s) == SelectSeq(emitted, LAMBDA u : u # None /\ u.stream = s)

\* The preview of a stream is its beginning, without a gap or a repetition, and
\* it ends where the capture ends or before: what a reader concatenates is what
\* the command wrote.
PreviewIsPrefix ==
  \A s \in Stream :
    LET shown == Shown(s) IN
    \A i \in 1 .. Len(shown) :
      /\ shown[i].from = IF i = 1 THEN 0 ELSE shown[i - 1].to
      /\ shown[i].to <= captured[s]

\* Output is never shown after the observation was reported unavailable, and
\* nothing at all once the call has gone on to the outcome, which replaces it.
SilentAfterStop ==
  [][stopped \/ (emitted # << >> /\ emitted[Len(emitted)] = None)
       => emitted' = emitted]_vars

\* Where an observer failed the command is reconciled before the error is
\* reported: the row never stays running because of it.
OutcomeBeforeError == [][call' = "raised" => call \in {"settled", "raised"}]_vars

\* A provider that ignores the abort of a poll cannot hold up the outcome.
OutcomeIsNotHeldUp == <>(call \in {"settled", "raised"})
=============================================================================
