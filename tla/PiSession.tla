------------------------------- MODULE PiSession ----------------------------
(***************************************************************************)
(* One attempt of the Pi executor (apps/runner/src/pi.ts) with its writer  *)
(* (pi-persistence.ts): the SDK session streams messages, calls tools and  *)
(* takes steers; every event and checkpoint passes one bounded queue whose *)
(* only consumer writes to the store; the executor waits for the prompt,   *)
(* drains the queue, saves the session and returns, or cleans up.          *)
(*                                                                         *)
(* The store may reject a write, and may have kept the write it rejected.  *)
(* A command may end without an outcome.  The signal of the activity (its  *)
(* time limit, a cancellation, a lost lock) may come at any point.         *)
(***************************************************************************)
EXTENDS Naturals, Sequences, FiniteSets, SequencesExt

CONSTANTS
  Steer,        \* messages the user sends while the run is active, by sequence
  Faults,       \* which of "store", "command", "overflow", "model" happen
  ItemLimit,    \* items the writer's queue takes
  MaxMessages, MaxText,   \* bounds: assistant messages, pieces of text of one
  None

PiSessionAssumption ==
  /\ ItemLimit \in Nat \ {0} /\ MaxMessages \in Nat /\ MaxText \in Nat
  /\ Faults \subseteq {"store", "command", "overflow", "model"}

VARIABLES
  sdk,      \* the session: what it does, the message, how the last one ended
  entries,  \* its transcript
  buffer,   \* streamed text that is not yet an event
  made,     \* the items the writer accepted
  done,     \* how many of them are committed
  writer,   \* does it accept, and why it failed
  exec,     \* the executor
  steers,   \* steers offered to the session, and those it has not taken
  wait,     \* a proposal or a question is pending
  latched,  \* a command ended without an outcome
  signal    \* the activity's signal

vars == << sdk, entries, buffer, made, done, writer, exec, steers, wait, latched, signal >>

Failure == {"overflow", "producer", "persistence", "cleanup"}

TypeOK ==
  /\ sdk.at \in {"off", "ready", "streaming", "tool", "output", "end", "finish", "poll",
                 "steer", "commit", "settled"}
  /\ sdk.msg \in 0 .. MaxMessages /\ sdk.text \in 0 .. MaxText
  /\ sdk.stop \in {"none", "tool", "text", "error"} /\ sdk.ack \in Nat
  /\ buffer \in 0 .. MaxText /\ (buffer > 0 => exec.subscribed)
  /\ done <= Len(made)
  /\ writer.failure \in Failure \cup {None} /\ (writer.failure # None => ~writer.accepting)
  /\ exec.pc \in {"first", "prompt", "drain", "last", "complete", "cleanup", "returned", "failed"}
  /\ steers.offered \subseteq Steer /\ ToSet(steers.queued) \subseteq steers.offered
  /\ {wait, latched, signal, writer.aborts, writer.interrupted, exec.subscribed} \subseteq BOOLEAN

Init ==
  /\ sdk = [at |-> "off", msg |-> 0, text |-> 0, stop |-> "none", ack |-> 0]
  /\ entries = << >>
  /\ buffer = 0
  /\ made = << >> /\ done = 0
  /\ writer = [accepting |-> TRUE, failure |-> None, aborts |-> FALSE, interrupted |-> FALSE]
  /\ exec = [pc |-> "first", ack |-> 0, subscribed |-> TRUE, error |-> None]
  /\ steers = [offered |-> {}, queued |-> << >>]
  /\ wait = FALSE /\ latched = FALSE /\ signal = FALSE

-----------------------------------------------------------------------------
(* The writer. *)

Item(k, m, n) == [k |-> k, m |-> m, n |-> n, steer |-> None, wait |-> FALSE]

Checkpoint(es, s) == [k |-> "checkpoint", m |-> 0, n |-> Len(es), steer |-> s, wait |-> wait]

\* The text streamed before an event is an event before it.
Text == IF buffer = 0 THEN << >> ELSE << Item("delta", sdk.msg, buffer) >>

Held == Len(made) - done

\* recordFailure: the first one, or the store's after one that only closes.
Recorded(kind) ==
  IF writer.failure = None \/ (writer.failure \in {"overflow", "producer"} /\ kind = "persistence")
  THEN [writer EXCEPT !.accepting = FALSE, !.failure = kind, !.aborts = TRUE]
  ELSE writer

Failed(kind) == writer' = Recorded(kind)

\* admit, for items that are made together: those that fit, and an overflow.
Enqueue(items) ==
  IF ~writer.accepting THEN UNCHANGED << made, writer >>
  ELSE LET room == ItemLimit - Held IN
       IF Len(items) <= room THEN made' = made \o items /\ UNCHANGED writer
       ELSE /\ "overflow" \in Faults
            /\ made' = made \o SubSeq(items, 1, room)
            /\ Failed("overflow")

Discards == writer.interrupted \/ writer.failure \in {"persistence", "cleanup"}

Commit ==
  /\ done < Len(made) /\ ~Discards
  /\ done' = done + 1
  /\ UNCHANGED << sdk, entries, buffer, made, writer, exec, steers, wait, latched, signal >>

\* appendRunEvent or saveCheckpoint fails, with or without having been applied.
CommitFails ==
  /\ "store" \in Faults
  /\ done < Len(made) /\ ~Discards
  /\ done' \in {done, done + 1}
  /\ Failed("persistence")
  /\ UNCHANGED << sdk, entries, buffer, made, exec, steers, wait, latched, signal >>

\* The acknowledgement of the n-th item has come.
Acked(n) == writer.accepting /\ done >= n

-----------------------------------------------------------------------------
(* The session.  Events reach the executor while it is subscribed. *)

Aborted == signal \/ latched \/ writer.aborts \/ exec.pc = "cleanup"

Emit(items) ==
  IF exec.subscribed THEN Enqueue(items) /\ buffer' = 0 ELSE UNCHANGED << made, writer, buffer >>

\* finishTurn.
EndsTurn == wait

\* A request to the model.
Ask ==
  /\ sdk.at = "ready" /\ ~Aborted
  /\ sdk.msg < MaxMessages
  /\ Emit(Text \o << Item("started", sdk.msg + 1, 0) >>)
  /\ sdk' = [sdk EXCEPT !.at = "streaming", !.msg = @ + 1, !.text = 0]
  /\ UNCHANGED << entries, done, exec, steers, wait, latched, signal >>

Stream ==
  /\ sdk.at = "streaming" /\ ~Aborted
  /\ sdk.text < MaxText
  /\ sdk' = [sdk EXCEPT !.text = @ + 1]
  /\ buffer' = IF exec.subscribed THEN buffer + 1 ELSE buffer
  /\ UNCHANGED << entries, made, done, writer, exec, steers, wait, latched, signal >>

\* The timer, or enough text.
Flush ==
  /\ buffer > 0
  /\ Enqueue(Text)
  /\ buffer' = 0
  /\ UNCHANGED << sdk, entries, done, exec, steers, wait, latched, signal >>

MessageEnd(stop) ==
  /\ sdk.at = "streaming"
  /\ stop = "error" => "model" \in Faults
  /\ ~Aborted
  /\ Emit(Text \o << Item("message", sdk.msg, sdk.text) >>)
  /\ entries' = Append(entries, [k |-> "assistant", v |-> sdk.msg])
  /\ sdk' = [sdk EXCEPT !.stop = stop, !.at = IF stop = "tool" THEN "tool" ELSE "end"]
  /\ UNCHANGED << done, exec, steers, wait, latched, signal >>

\* A proposal or a question.
AskPerson ==
  /\ sdk.at = "tool" /\ ~Aborted
  /\ wait' = TRUE
  /\ entries' = Append(entries, [k |-> "asks", v |-> sdk.msg])
  /\ sdk' = [sdk EXCEPT !.at = "end"]
  /\ UNCHANGED << buffer, made, done, writer, exec, steers, latched, signal >>

\* remoteExec: the outcome becomes an event, and a fatal one ends the attempt.
Command(fatal) ==
  /\ sdk.at = "tool" /\ ~Aborted
  /\ fatal => "command" \in Faults
  /\ Enqueue(<< Item("output", sdk.msg, 0) >>)
  /\ latched' = (latched \/ fatal)
  /\ sdk' = [sdk EXCEPT !.at = "output", !.ack = Len(made) + 1]
  /\ UNCHANGED << entries, buffer, done, exec, steers, wait, signal >>

OutputAcked(n) == Acked(n)

\* The tool has its result once the event is committed, else an error.
ToolEnd ==
  /\ sdk.at = "output"
  /\ OutputAcked(sdk.ack) \/ ~writer.accepting
  /\ Emit(Text \o << Item("completed", sdk.msg, 0) >>)
  /\ entries' = Append(entries, [k |-> IF OutputAcked(sdk.ack) THEN "result" ELSE "failure", v |-> sdk.msg])
  /\ sdk' = [sdk EXCEPT !.at = "end"]
  /\ UNCHANGED << done, exec, steers, wait, latched, signal >>

\* turn_end saves the session.
TurnEnd ==
  /\ sdk.at = "end"
  /\ Emit(Text \o << Checkpoint(entries, None) >>)
  /\ sdk' = [sdk EXCEPT !.at = "finish"]
  /\ UNCHANGED << entries, done, exec, steers, wait, latched, signal >>

Finish ==
  /\ sdk.at = "finish"
  /\ sdk' = [sdk EXCEPT !.at = IF EndsTurn \/ Aborted \/ sdk.stop = "error" THEN "settled" ELSE "poll"]
  /\ UNCHANGED << entries, buffer, made, done, writer, exec, steers, wait, latched, signal >>

\* (fault) what was offered is not remembered
NotOffered == Steer \ {entries[i].v : i \in {j \in DOMAIN entries : entries[j].k = "steer" /\ j < Len(entries)}}

\* Pending in the store, and not offered to this session.
NewSteers == Steer \ steers.offered

\* pollSteers, at the end of a turn and before the next request.
Poll(s) ==
  /\ sdk.at = "poll" /\ ~Aborted
  /\ s \in NewSteers /\ \A o \in NewSteers : s <= o
  /\ steers' = [offered |-> steers.offered \cup {s}, queued |-> Append(steers.queued, s)]
  /\ UNCHANGED << sdk, entries, buffer, made, done, writer, exec, wait, latched, signal >>

Polled ==
  /\ sdk.at = "poll"
  /\ sdk' = [sdk EXCEPT !.at = IF steers.queued # << >> THEN "steer"
                               ELSE IF sdk.stop = "tool" THEN "ready" ELSE "settled"]
  /\ UNCHANGED << entries, buffer, made, done, writer, exec, steers, wait, latched, signal >>

\* The user entry of a steer, and the checkpoint that consumes it.
TakeSteer ==
  /\ sdk.at = "steer" /\ ~Aborted
  /\ LET s  == Head(steers.queued)
         es == Append(entries, [k |-> "steer", v |-> s]) IN
     /\ entries' = es
     /\ Emit(Text \o << Checkpoint(es, s) >>)
     /\ sdk' = [sdk EXCEPT !.at = "commit", !.ack = Len(made) + Len(Text) + 1]
  /\ UNCHANGED << done, exec, steers, wait, latched, signal >>

Stored == Acked(sdk.ack)

\* The listener is awaited before the next request; its failure ends the prompt.
SteerStored ==
  /\ sdk.at = "commit"
  /\ Stored
  /\ steers' = [steers EXCEPT !.queued = Tail(@)]
  /\ sdk' = [sdk EXCEPT !.at = IF Len(steers.queued) > 1 THEN "steer" ELSE "ready"]
  /\ UNCHANGED << entries, buffer, made, done, writer, exec, wait, latched, signal >>

\* Automatic compaction between turns.
Compact ==
  /\ sdk.at = "ready" /\ ~Aborted
  /\ \A i \in DOMAIN entries : entries[i].k # "compaction"     \* bound
  /\ entries' = Append(entries, [k |-> "compaction", v |-> sdk.msg])
  /\ Emit(Text \o << Checkpoint(entries', None) >>)
  /\ UNCHANGED << sdk, done, exec, steers, wait, latched, signal >>

CompactionFails ==
  /\ sdk.at = "ready" /\ ~Aborted /\ "model" \in Faults
  /\ Failed("producer")
  /\ UNCHANGED << sdk, entries, buffer, made, done, exec, steers, wait, latched, signal >>

\* An aborted session settles, when the SDK gets to it.
Abort ==
  /\ Aborted /\ sdk.at \notin {"off", "settled"}
  /\ sdk' = [sdk EXCEPT !.at = "settled"]
  /\ UNCHANGED << entries, buffer, made, done, writer, exec, steers, wait, latched, signal >>

-----------------------------------------------------------------------------
(* The executor. *)

\* unsubscribe flushes what is buffered.
Unsubscribed(items) ==
  /\ exec.subscribed
  /\ Enqueue(Text \o items) /\ buffer' = 0

\* persistSession before the prompt; the prompt starts when it is committed.
SaveFirst ==
  /\ exec.pc = "first" /\ exec.ack = 0 /\ writer.accepting
  /\ Enqueue(<< Checkpoint(entries, None) >>)
  /\ exec' = [exec EXCEPT !.ack = Len(made) + 1]
  /\ UNCHANGED << sdk, entries, buffer, done, steers, wait, latched, signal >>

Prompt ==
  /\ exec.pc = "first" /\ exec.ack > 0 /\ ~signal /\ Acked(exec.ack)
  /\ exec' = [exec EXCEPT !.pc = "prompt", !.ack = 0]
  /\ sdk' = [sdk EXCEPT !.at = "ready"]
  /\ UNCHANGED << entries, buffer, made, done, writer, steers, wait, latched, signal >>

\* The prompt resolves; the barrier of drain.
Prompted ==
  /\ exec.pc = "prompt" /\ sdk.at = "settled" /\ ~signal /\ ~latched /\ writer.accepting
  /\ Enqueue(Text) /\ buffer' = 0
  /\ exec' = [exec EXCEPT !.pc = "drain"]
  /\ UNCHANGED << sdk, entries, done, steers, wait, latched, signal >>

\* What must hold of the last message; a pending wait needs none.
Answered == ~latched /\ (wait \/ (sdk.msg > 0 /\ sdk.stop = "text"))

SaveLast ==
  /\ exec.pc = "drain" /\ Acked(Len(made)) /\ Answered
  /\ Unsubscribed(<< Checkpoint(entries, None) >>)
  /\ exec' = [exec EXCEPT !.pc = "last", !.subscribed = FALSE, !.ack = Len(made) + Len(Text) + 1]
  /\ UNCHANGED << sdk, entries, done, steers, wait, latched, signal >>

SavedLast ==
  /\ exec.pc = "last" /\ Acked(exec.ack) /\ ~signal
  /\ exec' = [exec EXCEPT !.pc = "complete"]
  /\ writer' = [writer EXCEPT !.accepting = FALSE]
  /\ UNCHANGED << sdk, entries, buffer, made, done, steers, wait, latched, signal >>

\* awaitConsumer.
Consumed == done = Len(made) \/ Discards

Return ==
  /\ exec.pc = "complete" /\ Consumed /\ writer.failure = None
  /\ exec' = [exec EXCEPT !.pc = "returned"]
  /\ UNCHANGED << sdk, entries, buffer, made, done, writer, steers, wait, latched, signal >>

LeftBuffered == 0

\* Any failure on the way: the subscription ends, admission closes, and
\* throwAfterDrain waits for what was accepted.
Fails ==
  /\ exec.pc \in {"first", "prompt", "drain", "last", "complete"}
  /\ \/ signal /\ exec.pc \in {"first", "prompt", "last"}
     \/ writer.failure # None
     \/ latched /\ sdk.at = "settled"
     \/ exec.pc = "drain" /\ ~Answered
  /\ LET items == IF exec.subscribed /\ writer.accepting /\ Held < ItemLimit THEN Text ELSE << >> IN
     made' = made \o items
  /\ buffer' = LeftBuffered
  /\ writer' = [writer EXCEPT !.accepting = FALSE, !.aborts = TRUE]
  /\ exec' = [exec EXCEPT !.pc = "cleanup", !.subscribed = FALSE]
  /\ UNCHANGED << sdk, entries, done, steers, wait, latched, signal >>

\* The consumer is interrupted, whatever failed first.
Interrupted == [Recorded("cleanup") EXCEPT !.interrupted = TRUE]

\* An acknowledgement, or the consumer, does not come in time.
Timeout ==
  /\ \/ exec.pc \in {"first", "last"} /\ exec.ack > done /\ Failed("producer")
     \/ exec.pc = "drain" /\ done < Len(made) /\ writer' = Interrupted
     \/ exec.pc \in {"complete", "cleanup"} /\ ~Consumed /\ writer' = Interrupted
     \/ sdk.at = "commit" /\ ~Stored /\ Failed("producer")
  /\ UNCHANGED << sdk, entries, buffer, made, done, exec, steers, wait, latched, signal >>

\* The error of the attempt: the writer's, the command's, or the caller's.
Throw ==
  /\ exec.pc = "cleanup" /\ Consumed
  /\ exec' = [exec EXCEPT !.pc = "failed",
       !.error = IF writer.failure # None THEN writer.failure
                 ELSE IF latched THEN "command" ELSE "other"]
  /\ UNCHANGED << sdk, entries, buffer, made, done, writer, steers, wait, latched, signal >>

Signal ==
  /\ ~signal
  /\ signal' = TRUE
  /\ UNCHANGED << sdk, entries, buffer, made, done, writer, exec, steers, wait, latched >>

-----------------------------------------------------------------------------
Session ==
  \/ Ask \/ Stream \/ Flush \/ AskPerson \/ ToolEnd \/ TurnEnd \/ Finish \/ Polled
  \/ TakeSteer \/ SteerStored \/ Compact \/ CompactionFails
  \/ \E stop \in {"tool", "text", "error"} : MessageEnd(stop)
  \/ \E fatal \in BOOLEAN : Command(fatal)
  \/ \E s \in Steer : Poll(s)

Executor ==
  SaveFirst \/ Prompt \/ Prompted \/ SaveLast \/ SavedLast \/ Return \/ Fails \/ Throw

Next == Commit \/ CommitFails \/ Session \/ Abort \/ Executor \/ Timeout \/ Signal

Spec == Init /\ [][Next]_vars

\* The executor's own steps and its timers; the time limit of the run.
FairSpec == Spec /\ WF_vars(Executor) /\ WF_vars(Timeout) /\ WF_vars(Signal)

-----------------------------------------------------------------------------
(* Properties. *)

Committed == SubSeq(made, 1, done)

TextOf(m, items) ==
  FoldSeq(LAMBDA i, n : IF i.k = "delta" /\ i.m = m THEN n + i.n ELSE n, 0, items)

\* A reader that concatenates the pieces of a message has its whole text when
\* the message's end arrives, and nothing of it comes later (pi.ts: "Every other
\* event is ordered after the text streamed before it").
TextIsWhole ==
  \A i \in DOMAIN made : made[i].k = "message" =>
    /\ TextOf(made[i].m, SubSeq(made, 1, i)) = made[i].n
    /\ \A j \in i + 1 .. Len(made) : ~(made[j].k = "delta" /\ made[j].m = made[i].m)

\* An attempt returns only with everything it accepted committed, the last
\* checkpoint holding the whole session and the pending wait.
SuccessIsDurable ==
  exec.pc = "returned" =>
    /\ done = Len(made) /\ made # << >>
    /\ LET last == made[Len(made)] IN
         last.k = "checkpoint" /\ last.n = Len(entries) /\ last.wait = wait

\* The model is asked only with steers whose consumption is committed
\* (docs/backend-contract.md: "Their checkpoint and message.steered event commit
\* together before the next model request").
AskedAfterSteersCommit ==
  sdk.at = "streaming" =>
    \A i \in DOMAIN entries : entries[i].k = "steer" =>
      \E j \in 1 .. done : made[j].k = "checkpoint" /\ made[j].steer = entries[i].v /\ made[j].n >= i

\* A steer enters the session once.
EachSteerOnce ==
  \A i, j \in DOMAIN entries :
    entries[i].k = "steer" /\ entries[j].k = "steer" /\ entries[i].v = entries[j].v => i = j

\* The model sees the result of a command only after the store does.
ResultsAreRecorded ==
  \A i \in DOMAIN entries : entries[i].k = "result" =>
    \E j \in 1 .. done : made[j].k = "output" /\ made[j].m = entries[i].v

\* A command without an outcome is never followed by success, whatever the model
\* wrote after it (pi.ts: "must remain fatal even if Pi swallows the tool
\* exception and writes a final textual answer").
FatalStaysFatal == exec.pc = "returned" => ~latched /\ sdk.stop # "error"

\* While a person is asked, the model is not.
NoRequestWhileWaiting ==
  \A i \in DOMAIN entries : entries[i].k = "asks" =>
    \A j \in i + 1 .. Len(entries) : entries[j].k \notin {"assistant", "steer"}

\* Every attempt returns or fails: its time limit comes, and no cleanup waits
\* without a bound.
AttemptEnds == <>(exec.pc \in {"returned", "failed"})
=============================================================================
