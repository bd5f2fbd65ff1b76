-------------------------- MODULE ThreadTranscript -------------------------
(***************************************************************************)
(* What a page makes of the events of one run (thread-projection.ts) and   *)
(* of the thread's snapshot (thread-transcript.ts).                        *)
(*                                                                         *)
(* The runner commits the events of one attempt after the other: attempts  *)
(* crash anywhere, a new attempt starts over from the last checkpoint, a   *)
(* turn whose message failed is followed by another one, tools run while   *)
(* no message streams, and the run ends with its answer or without.  A     *)
(* page has applied any number of these events, and its snapshot may be    *)
(* at any event: ThreadFeed says in which order they come.                 *)
(***************************************************************************)
EXTENDS Naturals, Sequences, FiniteSets, SequencesExt

CONSTANTS
  Tool,         \* calls of tools; an attempt may use the same ones again
  Steer,        \* messages the user adds while the run is active
  OutputMax,    \* pieces of text the event that ends a message carries
  MaxAttempts, MaxTurns, MaxMessages, MaxText, MaxLog    \* bounds

ThreadTranscriptAssumption ==
  {OutputMax, MaxAttempts, MaxTurns, MaxMessages, MaxText, MaxLog} \subseteq Nat

VARIABLES
  log,    \* the events of the run
  run,    \* where its runner is
  page    \* the projection of a page

vars == << log, run, page >>

Status == {"queued", "running", "completed", "failed", "cancelled"}
Active == {"queued", "running"}

TypeOK ==
  /\ Len(log) <= MaxLog
  /\ run.status \in Status
  /\ run.at \in {"idle", "streaming", "tools", "answered", "erred"}
  /\ run.attempt <= MaxAttempts /\ run.turn <= MaxTurns /\ run.text <= MaxText
  /\ run.calls \subseteq Tool
  /\ page.cursor <= Len(log) /\ page.statusAt <= page.cursor
  /\ page.status \in Status \cup {"unknown"}
  /\ page.attempt \in 0 .. run.attempt
  /\ \A i \in DOMAIN page.parts :
       /\ page.parts[i].kind \in {"text", "tool", "user"}
       /\ page.parts[i].state \in {"streaming", "final", "partial", "running", "ended", "sent"}
  /\ \A i, j \in DOMAIN page.parts :
       page.parts[i].kind = page.parts[j].kind /\ page.parts[i].id = page.parts[j].id => i = j

Init ==
  /\ log = << >>
  /\ run = [status |-> "queued", at |-> "idle", attempt |-> 0, turn |-> 0, msg |-> 0,
            text |-> 0, calls |-> {}, steered |-> {}]
  /\ page = [cursor |-> 0, parts |-> << >>, attempt |-> 0, status |-> "unknown", statusAt |-> 0]

-----------------------------------------------------------------------------
(* The runner. *)

Message == << run.attempt, run.turn, run.msg >>

Commit(k, id, x) ==
  /\ Len(log) < MaxLog
  /\ log' = log \o << [k |-> k, attempt |-> run.attempt, id |-> id, x |-> x] >>
  /\ UNCHANGED page

\* A worker takes the run, or takes it over from one that is gone.
Claim ==
  /\ run.status \in Active /\ run.attempt < MaxAttempts
  /\ run' = [run EXCEPT !.status = "running", !.at = "idle", !.attempt = @ + 1, !.turn = 1,
                        !.msg = 0, !.text = 0, !.calls = {}]
  /\ IF run.status = "queued" THEN Commit("status", << >>, "running") ELSE UNCHANGED << log, page >>

\* agent_start, after a message that failed.
NextTurn ==
  /\ run.status = "running" /\ run.at = "erred" /\ run.turn < MaxTurns
  /\ run' = [run EXCEPT !.at = "idle", !.turn = @ + 1, !.msg = 0]
  /\ UNCHANGED << log, page >>

Started ==
  /\ run.status = "running" /\ run.msg < MaxMessages
  /\ run.at = "idle" \/ (run.at = "tools" /\ run.calls = {})
  /\ run' = [run EXCEPT !.at = "streaming", !.msg = @ + 1, !.text = 0]
  /\ Commit("started", << run.attempt, run.turn, run.msg + 1 >>, 0)

Delta ==
  /\ run.status = "running" /\ run.at = "streaming" /\ run.text < MaxText
  /\ run' = [run EXCEPT !.text = @ + 1]
  /\ Commit("delta", Message, 1)

\* The end of a message: its text, as far as it fits.
Ended(stop) ==
  /\ run.status = "running" /\ run.at = "streaming"
  /\ run' = [run EXCEPT !.at = CASE stop = "toolUse" -> "tools"
                                 [] stop = "stop" -> "answered"
                                 [] stop = "error" -> "erred"]
  /\ Commit("message", Message,
            [stop |-> stop, text |-> IF run.text > OutputMax THEN OutputMax ELSE run.text,
             truncated |-> run.text > OutputMax])

ToolStarted(c) ==
  /\ run.status = "running" /\ run.at = "tools" /\ c \notin run.calls
  /\ ~\E i \in DOMAIN log : log[i].k = "tool" /\ log[i].id = << run.attempt, c >>
  /\ run' = [run EXCEPT !.calls = @ \cup {c}]
  /\ Commit("tool", << run.attempt, c >>, 0)

ToolCompleted(c) ==
  /\ run.status = "running" /\ c \in run.calls
  /\ run' = [run EXCEPT !.calls = @ \ {c}]
  /\ Commit("toolEnd", << run.attempt, c >>, 0)

\* A message of the user is consumed between two messages, and continues an answer.
Steered(s) ==
  /\ run.status = "running" /\ run.at \in {"tools", "answered"} /\ run.calls = {}
  /\ s \notin run.steered
  /\ run' = [run EXCEPT !.at = "idle", !.steered = @ \cup {s}]
  /\ Commit("steered", << s >>, 0)

\* The answer and the event commit together.
Complete ==
  /\ run.status = "running" /\ run.at = "answered"
  /\ run' = [run EXCEPT !.status = "completed"]
  /\ Commit("status", Message, "completed")

End(status) ==
  /\ run.status \in Active
  /\ run' = [run EXCEPT !.status = status]
  /\ Commit("status", << >>, status)

-----------------------------------------------------------------------------
(* The projection. *)

IsFinal(p) == p.kind = "text" /\ p.state = "final"
Unfinished(p) == p.kind = "text" /\ p.state # "final"

Settled(p) == p.kind = "user" \/ IsFinal(p) \/ (p.kind = "tool" /\ p.state # "running")

Found(parts, kind, id) == {i \in DOMAIN parts : parts[i].kind = kind /\ parts[i].id = id}

\* upsertTextPart, upsertToolPart.
Upsert(parts, kind, id, state, Update(_)) ==
  LET new == [kind |-> kind, id |-> id, state |-> state, text |-> 0, stop |-> ""]
      found == Found(parts, kind, id) IN
  IF found = {} THEN parts \o << Update(new) >>
  ELSE [i \in DOMAIN parts |-> IF i \in found THEN Update(parts[i]) ELSE parts[i]]

\* assistant.started: another attempt, or another turn of this one.
Replaces(p, e) ==
  \/ p.attempt # 0 /\ p.attempt # e.attempt
  \/ \E i \in DOMAIN p.parts : Unfinished(p.parts[i]) /\ p.parts[i].id[2] # e.id[2]

Kept(parts) == SelectSeq(parts, Settled)

\* assistant.message: a copy that was cut off does not shorten what was streamed.
FinalText(part, x) == IF x.truncated /\ part.text >= x.text THEN part.text ELSE x.text

\* assistant.started, assistant.delta, assistant.message
TextApplied(p, e) ==
  CASE e.k = "started" ->
         Upsert(IF Replaces(p, e) THEN Kept(p.parts) ELSE p.parts, "text", e.id, "streaming",
                LAMBDA part : [part EXCEPT !.state = "streaming"])
    [] e.k = "delta" ->
         Upsert(p.parts, "text", e.id, "streaming",
                LAMBDA part : [part EXCEPT !.text = @ + e.x, !.state = "streaming"])
    [] e.k = "message" ->
         Upsert(p.parts, "text", e.id, "streaming",
                LAMBDA part : [part EXCEPT !.text = FinalText(part, e.x), !.stop = e.x.stop,
                                           !.state = IF e.x.stop = "error" THEN "partial" ELSE "final"])

\* tool.started, tool.completed
ToolApplied(p, e) ==
  Upsert(p.parts, "tool", e.id, "running",
         LAMBDA part : IF e.k = "tool" THEN part ELSE [part EXCEPT !.state = "ended"])

\* run.failed and run.cancelled end what streams.
StatusApplied(p, e) ==
  [i \in DOMAIN p.parts |->
     IF e.x \in {"failed", "cancelled"} /\ p.parts[i].state = "streaming"
     THEN [p.parts[i] EXCEPT !.state = "partial"] ELSE p.parts[i]]

\* applyThreadEvent
Applied(p, e) ==
  CASE e.k \in {"started", "delta", "message"} -> TextApplied(p, e)
    [] e.k \in {"tool", "toolEnd"} -> ToolApplied(p, e)
    [] e.k = "steered" -> Upsert(p.parts, "user", e.id, "sent", LAMBDA part : part)
    [] e.k = "status" -> StatusApplied(p, e)

Apply ==
  /\ page.cursor < Len(log)
  /\ LET e == log[page.cursor + 1] IN
     page' = [cursor |-> page.cursor + 1,
              parts |-> Applied(page, e),
              attempt |-> IF e.k \in {"steered", "status"} THEN page.attempt ELSE e.attempt,
              status |-> IF e.k = "status" THEN e.x ELSE page.status,
              statusAt |-> IF e.k = "status" THEN page.cursor + 1 ELSE page.statusAt]
  /\ UNCHANGED << log, run >>

-----------------------------------------------------------------------------
(* The transcript, with a snapshot that was read after w events. *)

StatusAt(w) ==
  LET at == {i \in 1 .. w : log[i].k = "status"} IN
  IF at = {} THEN "queued" ELSE log[CHOOSE i \in at : \A j \in at : j <= i].x

\* The answer in the snapshot, named after the message it repeats.
Persisted(w) == {log[i].id : i \in {j \in 1 .. w : log[j].k = "status" /\ log[j].x = "completed"}}

ShownStatus(w) == IF page.statusAt > w THEN page.status ELSE StatusAt(w)

\* runPartEntries; `of` names the message whose text an entry shows.
PartEntries(w) ==
  [i \in DOMAIN page.parts |->
     LET p == page.parts[i] IN
     [kind |-> p.kind, id |-> p.id, text |-> p.text, stop |-> p.stop, of |-> p.id,
      state |-> IF p.state = "streaming" /\ ShownStatus(w) \notin Active
                THEN IF ShownStatus(w) = "completed" THEN "final" ELSE "partial"
                ELSE p.state]]

\* (fault) the last text is the answer
AlwaysLast(w, entry) == TRUE

\* A replay that is behind the snapshot may still be at a text before the answer.
IsAnswer(w, entry) == page.cursor >= w \/ entry.stop = "stop"

LastText(entries) ==
  LET texts == {i \in DOMAIN entries : entries[i].kind = "text"} IN
  IF texts = {} THEN 0 ELSE CHOOSE i \in texts : \A j \in texts : j <= i

\* buildTranscript
Transcript(w) ==
  LET entries == PartEntries(w)
      last == LastText(entries) IN
  IF Persisted(w) = {} THEN entries
  ELSE LET answer == CHOOSE id \in Persisted(w) : TRUE IN
       IF last # 0 /\ IsAnswer(w, entries[last])
       THEN [entries EXCEPT ![last].of = answer, ![last].state = "final"]
       ELSE entries \o << [kind |-> "text", id |-> << >>, text |-> 0, stop |-> "",
                           of |-> answer, state |-> "final"] >>

-----------------------------------------------------------------------------
Next ==
  \/ Claim \/ NextTurn \/ Started \/ Delta \/ Complete \/ Apply
  \/ \E stop \in {"toolUse", "stop", "error"} : Ended(stop)
  \/ \E c \in Tool : ToolStarted(c) \/ ToolCompleted(c)
  \/ \E s \in Steer : Steered(s)
  \/ \E status \in {"failed", "cancelled"} : End(status)

Spec == Init /\ [][Next]_vars

-----------------------------------------------------------------------------
(* Properties. *)

At(k, id, n) == {i \in 1 .. n : log[i].k = k /\ log[i].id = id}

Finished(id, n) == \E i \in At("message", id, n) : log[i].x.stop # "error"

Streamed(id, n) == Cardinality(At("delta", id, n))

\* What stays of the n first events: what finished, what the user said, and what
\* the last attempt has not finished in its last turn.
Stays(i, n) ==
  LET e == log[i] IN
  \/ e.k = "steered"
  \/ /\ e.k = "started"
     /\ Finished(e.id, n)
        \/ ~\E j \in i + 1 .. n :
              log[j].k = "started" /\ << log[j].id[1], log[j].id[2] >> # << e.id[1], e.id[2] >>
  \/ /\ e.k = "tool"
     /\ At("toolEnd", e.id, n) # {}
        \/ ~\E j \in i + 1 .. n : log[j].k = "started" /\ log[j].attempt # e.attempt

History(n) == SelectSeq([i \in 1 .. n |-> i], LAMBDA i : Stays(i, n))

\* The projection shows the history in its order, whatever attempts were lost:
\* nothing that finished is dropped or shortened, and nothing that another
\* attempt or turn replaced is left (thread-projection.test.ts, "opaque attempt
\* arrival replaces only incomplete material").
HistoryShown ==
  LET h == History(page.cursor) IN
  /\ Len(h) = Len(page.parts)
  /\ \A i \in DOMAIN h :
       LET e == log[h[i]]
           p == page.parts[i] IN
       /\ p.id = e.id
       /\ e.k = "started" => /\ p.kind = "text"
                             /\ p.text = Streamed(e.id, page.cursor)
                             /\ IsFinal(p) <=> Finished(e.id, page.cursor)

\* Whatever the snapshot knows already, a text before a tool keeps its words
\* (thread-transcript.ts: "Do not overwrite that commentary with a newer
\* snapshot's final response").
CommentaryStays ==
  \A w \in 0 .. Len(log) : \A i \in DOMAIN Transcript(w) :
    LET t == Transcript(w)[i] IN t.kind = "text" /\ t.stop = "toolUse" => t.of = t.id

\* The answer is there as soon as the snapshot has it, and once the replay has
\* caught up it is there once: the text that was streamed, with the text that
\* was kept.
AnswerOnce ==
  \A w \in 0 .. Len(log) : \A answer \in Persisted(w) :
    LET shown == {i \in DOMAIN Transcript(w) : Transcript(w)[i].kind = "text"
                                               /\ Transcript(w)[i].of = answer} IN
    /\ shown # {}
    /\ page.cursor >= w => /\ Cardinality(shown) = 1
                           /\ \A i \in shown : Transcript(w)[i].id = answer

\* A text seems to be streamed as long as the newer of the snapshot and the
\* replay has the run active, and no longer (thread-projection.test.ts,
\* "failed/cancelled snapshots retain partial text even if terminal event is
\* not replayed yet"); once a completed run was replayed nothing of it seems
\* unfinished.
ShownAsRunning ==
  \A w \in 0 .. Len(log) :
    LET active == StatusAt(IF w > page.cursor THEN w ELSE page.cursor) \in Active IN
    /\ \A i \in DOMAIN page.parts :
         page.parts[i].state = "streaming" /\ Persisted(w) = {}
           => (Transcript(w)[i].state = "streaming" <=> active)
    /\ run.status = "completed" /\ page.cursor = Len(log) =>
         \A i \in DOMAIN Transcript(w) : Transcript(w)[i].state \in {"final", "ended", "sent"}
=============================================================================
