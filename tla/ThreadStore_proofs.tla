------------------------- MODULE ThreadStore_proofs -------------------------
(***************************************************************************)
(* Theorems about the thread store, for every number of threads, messages, *)
(* attempts, questions, Git operations and commands, and every limit.      *)
(***************************************************************************)
EXTENDS ThreadProperties, FiniteSetTheorems, TLAPS

(***************************************************************************)
(* The inductive invariant.                                                *)
(***************************************************************************)
\* A message that was accepted belongs to a thread.
MessagesHaveThread ==
  \A m \in Message :
    message[m].state \notin {"absent", "purged"} => message[m].thread \in Thread

\* A question, a Git operation and a command belong to a run that exists
\* (foreign keys of the three tables).
RowsHaveRun ==
  /\ \A q \in Question : question[q] # NoQuestion =>
       question[q].run \in Message /\ run[question[q].run].status # "absent"
  /\ \A g \in GitOp : gitop[g] # NoGitOp =>
       gitop[g].run \in Message /\ run[gitop[g].run].status # "absent"
  /\ \A c \in Command : command[c] # NoCommand =>
       command[c].run \in Message /\ run[command[c].run].status # "absent"

References == MessagesHaveThread /\ RowsHaveRun /\ StartedHasRun

Typed == TypeOK /\ References

\* An empty database is typed.
LEMMA InitTyped == Init => Typed
  <1> SUFFICES ASSUME Init PROVE Typed
    OBVIOUS
  <1> USE LimitAssumption DEF Init
  <1>1. TypeOK
    BY DEF TypeOK, NoThread, ThreadRow, NoMessage, MessageRow, NoRun, RunRow,
       NoSession, SessionRow, Entry, NoQuestion, QuestionRow, NoGitOp, GitRow,
       NoCommand, CommandRow, NoWorkspace, WorkspaceRow, AttachmentRow
  <1>2. References
    BY DEF References, MessagesHaveThread, RowsHaveRun, StartedHasRun, NoMessage, NoRun
  <1> QED BY <1>1, <1>2 DEF Typed
(***************************************************************************)
(* Submission and the retained queue.                                      *)
(***************************************************************************)
\* A delivery's sequence is a natural number: a thread has finitely many
\* messages.
LEMMA NewMessageRow ==
  ASSUME NEW t \in Thread, NEW mode \in {"none", "steer", "queue"}, NEW model \in Model,
         NEW state \in {"plain", "pending", "started"}, NEW target \in Message \cup {None}
  PROVE  NewMessage(t, mode, model, state, target) \in MessageRow
  <1>1. Cardinality({o \in Message : message[o].thread = t}) \in Nat
    BY FS_Subset, FS_CardinalityType, FiniteAssumption
  <1>2. 0 \in 0 .. MaxEdits
    BY LimitAssumption
  <1> QED BY <1>1, <1>2 DEF NewMessage, MessageRow

\* A message's state is set, its other columns stay.
LEMMA MessageState ==
  ASSUME Typed, NEW m \in Message,
         NEW state \in {"pending", "consumed", "started", "removed"}
  PROVE  /\ message \in [Message -> MessageRow]
         /\ [message[m] EXCEPT !.state = state] \in MessageRow
         /\ [message[m] EXCEPT !.state = state].state = state
         /\ [message[m] EXCEPT !.state = state].thread = message[m].thread
  <1>1. message \in [Message -> MessageRow] /\ message[m] \in MessageRow
    BY DEF Typed, TypeOK
  <1> QED BY <1>1 DEF MessageRow

\* The same, as a step on the messages.
LEMMA OneMessageState ==
  ASSUME Typed, NEW m \in Message,
         NEW state \in {"pending", "consumed", "started", "removed"},
         message' = [message EXCEPT ![m].state = state]
  PROVE  /\ message'[m].state = state
         /\ \A o \in Message : message'[o].thread = message[o].thread
         /\ \A o \in Message \ {m} : message'[o].state = message[o].state
  <1> DEFINE row == [message[m] EXCEPT !.state = state]
  <1>1. row.state = state /\ row.thread = message[m].thread /\ message \in [Message -> MessageRow]
    BY MessageState
  <1>2. message' = [message EXCEPT ![m] = row]
    BY <1>1
  <1> HIDE DEF row
  <1> QED BY <1>1, <1>2

\* A run's status is set, the other runs stay.
LEMMA RunStatus ==
  ASSUME Typed, NEW r \in Message, NEW status \in ActiveStatus \cup TerminalStatus
  PROVE  /\ [run EXCEPT ![r].status = status] \in [Message -> RunRow]
         /\ [run EXCEPT ![r].status = status][r].status = status
         /\ \A s \in Message \ {r} : [run EXCEPT ![r].status = status][s] = run[s]
  <1>1. run \in [Message -> RunRow] /\ run[r] \in RunRow
    BY DEF Typed, TypeOK
  <1>2. [run[r] EXCEPT !.status = status] \in RunRow /\ [run[r] EXCEPT !.status = status].status = status
    BY <1>1 DEF RunRow
  <1>3. [run EXCEPT ![r].status = status] = [run EXCEPT ![r] = [run[r] EXCEPT !.status = status]]
    BY <1>1
  <1> QED BY <1>1, <1>2, <1>3

\* A run starts queued.
LEMMA QueuedRunRow == QueuedRun \in RunRow /\ QueuedRun.status = "queued"
  <1>1. 0 \in 0 .. MaxGeneration
    BY LimitAssumption
  <1> QED BY <1>1 DEF QueuedRun, NoRun, RunRow, ActiveStatus

\* A message that finds its thread idle starts a run.
LEMMA SubmitRunTyped ==
  ASSUME Typed, NEW t \in Thread, NEW m \in Message,
         NEW mode \in {"none", "steer", "queue"}, NEW model \in Model,
         NEW A \in SUBSET Available, SubmitRun(t, m, mode, model, A)
  PROVE  Typed'
  <1> DEFINE row == IF mode = "none" THEN NewMessage(t, mode, model, "plain", None)
                                     ELSE NewMessage(t, mode, model, "started", m)
  <1>1. row \in MessageRow /\ row.thread = t /\ row.state \in {"plain", "started"}
    BY NewMessageRow DEF NewMessage
  <1>2. message' = [message EXCEPT ![m] = row]
    BY DEF SubmitRun
  <1> HIDE DEF row
  <1>3. thread' \in [Thread -> ThreadRow]
    BY DEF Typed, TypeOK, SubmitRun, ThreadRow
  <1>4. message' \in [Message -> MessageRow]
    BY <1>1, <1>2 DEF Typed, TypeOK
  <1>5. run' \in [Message -> RunRow]
    BY QueuedRunRow DEF Typed, TypeOK, SubmitRun
  <1>6. attachment' \in [Attachment -> AttachmentRow]
    BY DEF Typed, TypeOK, SubmitRun, Bind, AttachmentRow
  <1>7. outbox' \in SUBSET OutboxRow
    BY DEF Typed, TypeOK, SubmitRun, OutboxRow, OutboxType
  <1>8. TypeOK'
    BY <1>3, <1>4, <1>5, <1>6, <1>7 DEF Typed, TypeOK, SubmitRun
  <1>9. References'
    BY <1>1, <1>2, <1>4, <1>5 DEF Typed, TypeOK, References, MessagesHaveThread, RowsHaveRun,
       StartedHasRun, SubmitRun, QueuedRun, NoRun
  <1> QED BY <1>8, <1>9 DEF Typed

\* A message that finds its thread busy waits.
LEMMA SubmitPendingTyped ==
  ASSUME Typed, NEW t \in Thread, NEW m \in Message,
         NEW mode \in {"none", "steer", "queue"}, NEW model \in Model,
         NEW A \in SUBSET Available, SubmitPending(t, m, mode, model, A)
  PROVE  Typed'
  <1>1. PICK r \in Message :
          message' = [message EXCEPT ![m] = NewMessage(t, mode, model, "pending", r)]
    BY DEF SubmitPending, ActiveRuns, AllActiveRuns
  <1> DEFINE row == NewMessage(t, mode, model, "pending", r)
  <1>2. row \in MessageRow /\ row.thread = t /\ row.state = "pending"
    BY NewMessageRow DEF NewMessage
  <1> HIDE DEF row
  <1>3. message' \in [Message -> MessageRow]
    BY <1>1, <1>2 DEF Typed, TypeOK, row
  <1>4. attachment' \in [Attachment -> AttachmentRow]
    BY DEF Typed, TypeOK, SubmitPending, Bind, AttachmentRow
  <1>5. TypeOK'
    BY <1>3, <1>4 DEF Typed, TypeOK, SubmitPending
  <1>6. References'
    BY <1>1, <1>2 DEF row, Typed, TypeOK, References, MessagesHaveThread, RowsHaveRun,
       StartedHasRun, SubmitPending, Acceptable
  <1> QED BY <1>5, <1>6 DEF Typed

\* Starting the next message of the queue on rows that are already typed.
LEMMA StartNextTyped ==
  ASSUME Typed, NEW t \in Thread, NEW m \in Message, NEW rn \in [Message -> RunRow],
         \A r \in Message : rn[r].status # "absent" <=> run[r].status # "absent",
         StartNext(t, m, rn)
  PROVE  /\ message' \in [Message -> MessageRow]
         /\ run' \in [Message -> RunRow]
         /\ outbox' \in SUBSET OutboxRow
         /\ MessagesHaveThread'
         /\ StartedHasRun'
         /\ \A r \in Message : run[r].status # "absent" => run'[r].status # "absent"
  <1>1. m \in PendingMessages(t)
    BY DEF StartNext, FirstPending
  <1>2. message' \in [Message -> MessageRow]
    <2>1. [message[m] EXCEPT !.state = "started"] \in MessageRow
      BY MessageState
    <2> QED BY <2>1 DEF Typed, TypeOK, StartNext
  <1>3. run' \in [Message -> RunRow]
    BY QueuedRunRow DEF StartNext
  <1>4. outbox' \in SUBSET OutboxRow
    BY DEF Typed, TypeOK, StartNext, OutboxRow, OutboxType
  <1>5. MessagesHaveThread'
    BY <1>1 DEF Typed, TypeOK, References, MessagesHaveThread, MessageRow, StartNext, PendingMessages
  <1>6. StartedHasRun' /\ \A r \in Message : run[r].status # "absent" => run'[r].status # "absent"
    BY <1>1 DEF Typed, TypeOK, References, StartedHasRun, MessageRow, StartNext, PendingMessages,
       QueuedRun, NoRun
  <1> QED BY <1>2, <1>3, <1>4, <1>5, <1>6

\* The same for the end of a run, whether the queue continues or not.
LEMMA ContinueQueueTyped ==
  ASSUME Typed, NEW t \in Thread, NEW rn \in [Message -> RunRow],
         \A r \in Message : rn[r].status # "absent" <=> run[r].status # "absent",
         ContinueQueue(t, rn)
  PROVE  /\ message' \in [Message -> MessageRow]
         /\ run' \in [Message -> RunRow]
         /\ outbox' \in SUBSET OutboxRow
         /\ MessagesHaveThread'
         /\ StartedHasRun'
         /\ \A r \in Message : run[r].status # "absent" => run'[r].status # "absent"
  <1>1. CASE \E m \in Message : StartNext(t, m, rn)
    BY <1>1, StartNextTyped
  <1>2. CASE run' = rn /\ UNCHANGED << message, outbox >>
    BY <1>2 DEF Typed, TypeOK, References, MessagesHaveThread, StartedHasRun
  <1> QED BY <1>1, <1>2 DEF ContinueQueue

\* Ending a run, with or without the queue going on.
LEMMA EndRunTyped ==
  ASSUME Typed, NEW r \in Message, NEW status \in TerminalStatus, IsActive(r), EndRun(r, status)
  PROVE  /\ message' \in [Message -> MessageRow]
         /\ run' \in [Message -> RunRow]
         /\ outbox' \in SUBSET OutboxRow
         /\ MessagesHaveThread'
         /\ StartedHasRun'
         /\ \A s \in Message : run[s].status # "absent" => run'[s].status # "absent"
  <1> DEFINE Ended(st) == [run EXCEPT ![r].status = st]
  <1>1. ThreadOf(r) \in Thread
    BY DEF Typed, TypeOK, References, MessagesHaveThread, StartedHasRun, IsActive, ActiveStatus, ThreadOf
  <1>2. ASSUME NEW st \in TerminalStatus
        PROVE  /\ Ended(st) \in [Message -> RunRow]
               /\ \A s \in Message : Ended(st)[s].status # "absent" <=> run[s].status # "absent"
    <2>1. /\ Ended(st) \in [Message -> RunRow]
          /\ Ended(st)[r].status = st
          /\ \A s \in Message \ {r} : Ended(st)[s] = run[s]
      BY <1>2, RunStatus
    <2>2. st # "absent" /\ run[r].status # "absent"
      BY <1>2 DEF IsActive, ActiveStatus, TerminalStatus
    <2> HIDE DEF Ended
    <2> QED BY <2>1, <2>2
  <1>3. CASE run' = Ended("cancelled") /\ UNCHANGED << message, outbox >>
    BY <1>2, <1>3 DEF Typed, TypeOK, References, MessagesHaveThread, StartedHasRun, TerminalStatus
  <1>4. CASE ContinueQueue(ThreadOf(r), Ended(status))
    <2> HIDE DEF Ended
    <2> QED BY <1>1, <1>2, <1>4, ContinueQueueTyped
  <1> QED BY <1>3, <1>4 DEF EndRun

\* The user restarts the queue of an idle thread.
LEMMA StartQueuedMessageTyped ==
  ASSUME Typed, NEW t \in Thread, NEW m \in Message, StartQueuedMessage(t, m)
  PROVE  Typed'
  <1>1. StartNext(t, m, run) /\ run \in [Message -> RunRow]
    BY DEF StartQueuedMessage, Typed, TypeOK
  <1>2. /\ message' \in [Message -> MessageRow]
        /\ run' \in [Message -> RunRow]
        /\ outbox' \in SUBSET OutboxRow
        /\ MessagesHaveThread'
        /\ StartedHasRun'
        /\ \A r \in Message : run[r].status # "absent" => run'[r].status # "absent"
    BY <1>1, StartNextTyped
  <1>3. TypeOK'
    BY <1>2 DEF Typed, TypeOK, StartQueuedMessage
  <1>4. RowsHaveRun'
    BY <1>2 DEF Typed, References, RowsHaveRun, StartQueuedMessage
  <1> QED BY <1>2, <1>3, <1>4 DEF Typed, References

\* Editing rebinds attachments and counts the edit.
LEMMA EditPendingTyped ==
  ASSUME Typed, NEW t \in Thread, NEW m \in Message, EditPending(t, m)
  PROVE  Typed'
  <1>1. [message[m] EXCEPT !.version = @ + 1] \in MessageRow
    <2>1. message[m] \in MessageRow /\ message[m].version < MaxEdits
      BY DEF Typed, TypeOK, EditPending
    <2>2. message[m].version \in 0 .. MaxEdits
      BY <2>1 DEF MessageRow
    <2>3. message[m].version + 1 \in 0 .. MaxEdits
      BY <2>1, <2>2, LimitAssumption
    <2> QED BY <2>1, <2>3 DEF MessageRow
  <1>2. TypeOK'
    BY <1>1 DEF Typed, TypeOK, EditPending
  <1>3. References'
    BY DEF Typed, TypeOK, References, MessagesHaveThread, RowsHaveRun, StartedHasRun, EditPending,
       MessageRow
  <1> QED BY <1>2, <1>3 DEF Typed

\* Removing frees the attachments of the message.
LEMMA RemovePendingTyped ==
  ASSUME Typed, NEW t \in Thread, NEW m \in Message, RemovePending(t, m)
  PROVE  Typed'
  <1>1. [message[m] EXCEPT !.state = "removed"] \in MessageRow
    BY MessageState
  <1>2. attachment' \in [Attachment -> AttachmentRow]
    BY DEF Typed, TypeOK, RemovePending, Unbind, AttachmentRow
  <1>3. TypeOK'
    BY <1>1, <1>2 DEF Typed, TypeOK, RemovePending
  <1>4. References'
    BY DEF Typed, TypeOK, References, MessagesHaveThread, RowsHaveRun, StartedHasRun,
       RemovePending, Editable, PendingMessages, MessageRow
  <1> QED BY <1>3, <1>4 DEF Typed

(***************************************************************************)
(* Runs: cancellation, claims and endings.                                 *)
(***************************************************************************)
\* Rows that are only updated keep their run.
LEMMA RowsStay ==
  ASSUME Typed,
         \A r \in Message : run[r].status # "absent" => run'[r].status # "absent",
         \A q \in Question : question'[q] # NoQuestion =>
           question[q] # NoQuestion /\ question'[q].run = question[q].run,
         \A g \in GitOp : gitop'[g] # NoGitOp =>
           gitop[g] # NoGitOp /\ gitop'[g].run = gitop[g].run,
         \A c \in Command : command'[c] # NoCommand =>
           command[c] # NoCommand /\ command'[c].run = command[c].run
  PROVE  RowsHaveRun'
  BY DEF Typed, References, RowsHaveRun

\* Withdrawing approvals changes only columns of Git operations.
LEMMA InvalidateApprovalsRows ==
  ASSUME Typed, NEW R, InvalidateApprovals(R)
  PROVE  /\ gitop' \in [GitOp -> GitRow]
         /\ \A g \in GitOp : gitop'[g] # NoGitOp =>
              gitop[g] # NoGitOp /\ gitop'[g].run = gitop[g].run
         /\ \A g \in GitOp : gitop'[g].execution = gitop[g].execution
  <1>1. \A g \in GitOp : [gitop[g] EXCEPT !.approval = "invalidated"] \in GitRow
    <2>1. \A g \in GitOp : gitop[g] \in GitRow
      BY DEF Typed, TypeOK
    <2> QED BY <2>1 DEF GitRow
  <1>2. gitop' \in [GitOp -> GitRow]
    BY <1>1 DEF Typed, TypeOK, InvalidateApprovals
  <1>3. \A g \in GitOp : gitop[g] \in GitRow
    BY DEF Typed, TypeOK
  <1>4. \A g \in GitOp : gitop'[g] # NoGitOp =>
              gitop[g] # NoGitOp /\ gitop'[g].run = gitop[g].run
    BY <1>3 DEF InvalidateApprovals, GitRow, NoGitOp
  <1>5. \A g \in GitOp : gitop'[g].execution = gitop[g].execution
    BY <1>3 DEF InvalidateApprovals, GitRow
  <1> QED BY <1>2, <1>4, <1>5

\* Withdrawing questions changes only their state and the browser's owner.
LEMMA CancelQuestionsRows ==
  ASSUME Typed, NEW r \in Message, CancelQuestions(r)
  PROVE  /\ question' \in [Question -> QuestionRow]
         /\ \A q \in Question : question'[q] # NoQuestion =>
              question[q] # NoQuestion /\ question'[q].run = question[q].run
         /\ thread' \in [Thread -> ThreadRow]
         /\ \A t \in Thread : thread'[t].state = thread[t].state
  <1>1. \A q \in Question : question[q] \in QuestionRow
    BY DEF Typed, TypeOK
  <1>2. question' \in [Question -> QuestionRow]
    BY <1>1 DEF CancelQuestions, QuestionRow
  <1>3. \A q \in Question : question'[q] # NoQuestion =>
              question[q] # NoQuestion /\ question'[q].run = question[q].run
    BY <1>1 DEF CancelQuestions, PendingQuestions, QuestionRow, NoQuestion
  <1>4. thread' \in [Thread -> ThreadRow] /\ \A t \in Thread : thread'[t].state = thread[t].state
    BY DEF Typed, TypeOK, CancelQuestions, ThreadRow
  <1> QED BY <1>2, <1>3, <1>4

\* Dropping queued commands changes only their state.
LEMMA DropQueuedCommandsRows ==
  ASSUME Typed, NEW r \in Message, DropQueuedCommands(r)
  PROVE  /\ command' \in [Command -> CommandRow]
         /\ \A c \in Command : command'[c] # NoCommand =>
              command[c] # NoCommand /\ command'[c].run = command[c].run
  <1>1. \A c \in Command : command[c] \in CommandRow
    BY DEF Typed, TypeOK
  <1>2. command' \in [Command -> CommandRow]
    BY <1>1 DEF DropQueuedCommands, CommandRow
  <1>3. \A c \in Command : command'[c] # NoCommand =>
              command[c] # NoCommand /\ command'[c].run = command[c].run
    BY <1>1 DEF DropQueuedCommands, CommandRow, NoCommand
  <1> QED BY <1>2, <1>3

\* A run that exists belongs to a thread.
LEMMA RunHasThread ==
  ASSUME Typed, NEW r \in Message, run[r].status # "absent"
  PROVE  ThreadOf(r) \in Thread
  BY DEF Typed, References, MessagesHaveThread, StartedHasRun, ThreadOf

\* A request to cancel withdraws what the run asked.
LEMMA RequestCancelTyped ==
  ASSUME Typed, NEW r \in Message, RequestCancel(r)
  PROVE  Typed'
  <1>1. /\ question' \in [Question -> QuestionRow]
        /\ thread' \in [Thread -> ThreadRow]
        /\ gitop' \in [GitOp -> GitRow]
    BY InvalidateApprovalsRows, CancelQuestionsRows DEF RequestCancel
  <1>2. /\ run' \in [Message -> RunRow]
        /\ \A s \in Message : run'[s].status = run[s].status
    <2>1. run \in [Message -> RunRow] /\ run[r] \in RunRow
      BY DEF Typed, TypeOK
    <2>2. [run[r] EXCEPT !.cancel = TRUE] \in RunRow
          /\ [run[r] EXCEPT !.cancel = TRUE].status = run[r].status
      BY <2>1 DEF RunRow
    <2>3. run' = [run EXCEPT ![r] = [run[r] EXCEPT !.cancel = TRUE]]
      BY <2>1 DEF RequestCancel
    <2> QED BY <2>1, <2>2, <2>3
  <1>3. outbox' \in SUBSET OutboxRow
    <2>1. ThreadOf(r) \in Thread
      BY RunHasThread DEF RequestCancel, IsActive, ActiveStatus
    <2> QED BY <2>1 DEF Typed, TypeOK, RequestCancel, OutboxRow, OutboxType
  <1>4. TypeOK'
    BY <1>1, <1>2, <1>3 DEF Typed, TypeOK, RequestCancel
  <1>5. RowsHaveRun'
    <2>1. \A c \in Command : command'[c] = command[c]
      BY DEF RequestCancel
    <2> QED BY <1>2, <2>1, RowsStay, InvalidateApprovalsRows, CancelQuestionsRows DEF RequestCancel
  <1>6. MessagesHaveThread' /\ StartedHasRun'
    BY <1>2 DEF Typed, References, MessagesHaveThread, StartedHasRun, RequestCancel
  <1> QED BY <1>4, <1>5, <1>6 DEF Typed, References

\* Starting changes only the status.
LEMMA StartRunTyped ==
  ASSUME Typed, NEW r \in Message, StartRun(r)
  PROVE  Typed'
  <1>1. /\ run' \in [Message -> RunRow]
        /\ \A s \in Message : run'[s].status = "absent" <=> run[s].status = "absent"
    BY RunStatus DEF StartRun, ActiveStatus
  <1>2. TypeOK'
    BY <1>1 DEF Typed, TypeOK, StartRun
  <1>3. References'
    BY <1>1 DEF Typed, References, MessagesHaveThread, RowsHaveRun, StartedHasRun, StartRun
  <1> QED BY <1>2, <1>3 DEF Typed

\* A finalizer settles a run and everything it asked.
LEMMA FinishRunTyped ==
  ASSUME Typed, NEW r \in Message, FinishRun(r)
  PROVE  Typed'
  <1>1. /\ question' \in [Question -> QuestionRow]
        /\ thread' \in [Thread -> ThreadRow]
        /\ gitop' \in [GitOp -> GitRow]
        /\ command' \in [Command -> CommandRow]
    BY InvalidateApprovalsRows, CancelQuestionsRows, DropQueuedCommandsRows DEF FinishRun
  <1>2. /\ message' \in [Message -> MessageRow]
        /\ run' \in [Message -> RunRow]
        /\ outbox' \in SUBSET OutboxRow
        /\ MessagesHaveThread'
        /\ StartedHasRun'
        /\ \A s \in Message : run[s].status # "absent" => run'[s].status # "absent"
    BY EndRunTyped DEF FinishRun, TerminalStatus
  <1>3. TypeOK'
    BY <1>1, <1>2 DEF Typed, TypeOK, FinishRun
  <1>4. RowsHaveRun'
    BY <1>2, RowsStay, InvalidateApprovalsRows, CancelQuestionsRows, DropQueuedCommandsRows
       DEF FinishRun
  <1> QED BY <1>2, <1>3, <1>4 DEF Typed, References

(***************************************************************************)
(* Attempts and their sessions.                                            *)
(***************************************************************************)
LEMMA ClaimExecutionTyped ==
  ASSUME Typed, NEW r \in Message, NEW a \in Attempt, ClaimExecution(r, a)
  PROVE  Typed'
  <1>1. claim' \in [Message -> [Attempt -> BOOLEAN]]
    BY DEF Typed, TypeOK, ClaimExecution
  <1>2. /\ run' \in [Message -> RunRow]
        /\ \A s \in Message : run'[s].status = run[s].status
    <2>1. ThreadOf(r) \in Thread
      BY RunHasThread DEF ClaimExecution, MayClaim, IsActive, ActiveStatus
    <2>2. workspace[ThreadOf(r)].generation \in 0 .. MaxGeneration
      BY <2>1 DEF Typed, TypeOK, WorkspaceRow
    <2>3. run[r] \in RunRow
      BY DEF Typed, TypeOK
    <2> DEFINE row == [run[r] EXCEPT !.owner = a, !.generation = workspace[ThreadOf(r)].generation]
    <2>4. row \in RunRow /\ row.status = run[r].status
      BY <2>2, <2>3 DEF RunRow
    <2>5. run' = [run EXCEPT ![r] = row]
      BY DEF ClaimExecution, Typed, TypeOK
    <2> HIDE DEF row
    <2> QED BY <2>4, <2>5 DEF Typed, TypeOK
  <1>3. command' \in [Command -> CommandRow]
    BY DropQueuedCommandsRows DEF ClaimExecution
  <1>4. TypeOK'
    BY <1>1, <1>2, <1>3 DEF Typed, TypeOK, ClaimExecution
  <1>5. RowsHaveRun'
    BY <1>2, RowsStay, DropQueuedCommandsRows DEF ClaimExecution
  <1>6. MessagesHaveThread' /\ StartedHasRun'
    BY <1>2 DEF Typed, References, MessagesHaveThread, StartedHasRun, ClaimExecution
  <1> QED BY <1>4, <1>5, <1>6 DEF Typed, References

\* A step that only moves an attempt's session (and the saved one).
LEMMA SessionTyped ==
  ASSUME Typed, NEW r \in Message, NEW a \in Attempt, NEW row \in SessionRow,
         session' = [session EXCEPT ![r][a] = row],
         checkpoint' \in [Message -> Seq(Entry)],
         UNCHANGED << thread, message, run, claim, question, gitop, command,
                      workspace, attachment, outbox >>
  PROVE  Typed'
  <1>1. session' \in [Message -> [Attempt -> SessionRow]]
    BY DEF Typed, TypeOK
  <1>2. TypeOK'
    BY <1>1 DEF Typed, TypeOK
  <1>3. References'
    BY DEF Typed, References, MessagesHaveThread, RowsHaveRun, StartedHasRun
  <1> QED BY <1>2, <1>3 DEF Typed

\* Looking for what a run waits for changes only the session.
LEMMA CheckWaitsTyped ==
  ASSUME Typed, NEW r \in Message, NEW a \in Attempt, CheckWaits(r, a)
  PROVE  Typed'
  <1> DEFINE row == [session[r][a] EXCEPT !.phase = "checked",
                       !.generation = workspace[ThreadOf(r)].generation]
  <1>1. ThreadOf(r) \in Thread
    BY RunHasThread DEF CheckWaits, IsActive, ActiveStatus
  <1>2. session[r][a] \in SessionRow /\ workspace[ThreadOf(r)].generation \in 0 .. MaxGeneration
    BY <1>1 DEF Typed, TypeOK, WorkspaceRow
  <1>3. row \in SessionRow
    BY <1>2 DEF SessionRow
  <1>4. session' = [session EXCEPT ![r][a] = row]
    BY DEF CheckWaits, Typed, TypeOK
  <1>5. /\ checkpoint' \in [Message -> Seq(Entry)]
        /\ UNCHANGED << thread, message, run, claim, question, gitop, command,
                        workspace, attachment, outbox >>
    BY DEF CheckWaits, Typed, TypeOK
  <1> HIDE DEF row
  <1> QED BY <1>3, <1>4, <1>5, SessionTyped

\* A session restores the checkpoint.
LEMMA OpenSessionTyped ==
  ASSUME Typed, NEW r \in Message, NEW a \in Attempt, OpenSession(r, a)
  PROVE  Typed'
  <1> DEFINE row == [session[r][a] EXCEPT !.phase = "open", !.held = Restored(r)]
  <1>1. session[r][a] \in SessionRow /\ Restored(r) \in Seq(Entry)
    BY DEF Typed, TypeOK, Restored
  <1>2. row \in SessionRow
    BY <1>1 DEF SessionRow
  <1>3. session' = [session EXCEPT ![r][a] = row]
    BY DEF OpenSession, Typed, TypeOK
  <1>4. /\ checkpoint' \in [Message -> Seq(Entry)]
        /\ UNCHANGED << thread, message, run, claim, question, gitop, command,
                        workspace, attachment, outbox >>
    BY DEF OpenSession, Typed, TypeOK
  <1> HIDE DEF row
  <1> QED BY <1>2, <1>3, <1>4, SessionTyped

\* A poll offers waiting steers in their order.
LEMMA PollSteersTyped ==
  ASSUME Typed, NEW r \in Message, NEW a \in Attempt, PollSteers(r, a)
  PROVE  Typed'
  <1>1. PICK s \in InOrder(NewSteers(r, a)) : session' = [session EXCEPT ![r][a].offered = @ \o s]
    BY DEF PollSteers
  <1> DEFINE row == [session[r][a] EXCEPT !.offered = @ \o s]
  <1>2. s \in Seq(Entry)
    <2>1. Cardinality(NewSteers(r, a)) \in Nat
      BY FS_Subset, FS_CardinalityType, FiniteAssumption DEF NewSteers
    <2>2. s \in [1 .. Cardinality(NewSteers(r, a)) -> Entry]
      BY DEF InOrder, NewSteers, Entry
    <2> QED BY <2>1, <2>2
  <1>3. session[r][a] \in SessionRow
    BY DEF Typed, TypeOK
  <1>4. row \in SessionRow
    <2>1. session[r][a].offered \in Seq(Entry)
      BY <1>3 DEF SessionRow
    <2>2. session[r][a].offered \o s \in Seq(Entry)
      BY <1>2, <2>1
    <2> QED BY <1>3, <2>2 DEF SessionRow
  <1>5. session' = [session EXCEPT ![r][a] = row]
    BY <1>1 DEF Typed, TypeOK
  <1>6. /\ checkpoint' \in [Message -> Seq(Entry)]
        /\ UNCHANGED << thread, message, run, claim, question, gitop, command,
                        workspace, attachment, outbox >>
    BY DEF PollSteers, Typed, TypeOK
  <1> HIDE DEF row
  <1> QED BY <1>4, <1>5, <1>6, SessionTyped

\* Rewriting a session keeps its type.
LEMMA RewrittenTyped ==
  ASSUME NEW held \in Seq(Entry), NEW p \in Rewritten(held)
  PROVE  p \in Seq(Entry)
  <1>1. Turn \in Entry
    BY LimitAssumption DEF Turn, Entry
  <1>2. PICK n \in 0 .. Len(held) : p \in [1 .. n -> {held[i] : i \in DOMAIN held} \cup {Turn}]
    BY DEF Rewritten
  <1>3. {held[i] : i \in DOMAIN held} \cup {Turn} \subseteq Entry
    BY <1>1
  <1>4. n \in Nat /\ p \in [1 .. n -> Entry]
    BY <1>2, <1>3
  <1> QED BY <1>4

\* A save writes a rewritten session and one entry more.
LEMMA SaveTurnTyped ==
  ASSUME Typed, NEW r \in Message, NEW a \in Attempt, SaveTurn(r, a)
  PROVE  Typed'
  <1>0. PICK p \in Rewritten(session[r][a].held) :
          /\ session' = [session EXCEPT ![r][a].held = Append(p, Turn)]
          /\ checkpoint' = [checkpoint EXCEPT ![r] = Append(p, Turn)]
    BY Zenon DEF SaveTurn
  <1> DEFINE entries == Append(p, Turn)
             row == [session[r][a] EXCEPT !.held = entries]
  <1>1. session[r][a] \in SessionRow
    BY DEF Typed, TypeOK
  <1>2. entries \in Seq(Entry)
    <2>1. Turn \in Entry
      BY LimitAssumption DEF Turn, Entry
    <2>2. p \in Seq(Entry)
      BY <1>1, RewrittenTyped DEF SessionRow
    <2> QED BY <2>1, <2>2
  <1>3. session' = [session EXCEPT ![r][a].held = entries] /\ checkpoint' = [checkpoint EXCEPT ![r] = entries]
    BY <1>0
  <1> HIDE DEF entries
  <1>4. row \in SessionRow
    BY <1>1, <1>2 DEF SessionRow
  <1>5. session' = [session EXCEPT ![r][a] = row]
    BY <1>3 DEF Typed, TypeOK
  <1>6. checkpoint' \in [Message -> Seq(Entry)]
    BY <1>2, <1>3 DEF Typed, TypeOK
  <1> HIDE DEF row
  <1> QED BY <1>4, <1>5, <1>6, SessionTyped DEF SaveTurn

\* Consuming a steer is a save of its own.
LEMMA ConsumeSteerTyped ==
  ASSUME Typed, NEW r \in Message, NEW a \in Attempt, ConsumeSteer(r, a)
  PROVE  Typed'
  <1> DEFINE s       == Head(session[r][a].offered)
             entries == Append(session[r][a].held, s)
             row     == [session[r][a] EXCEPT !.held = entries,
                                              !.offered = Tail(session[r][a].offered)]
  <1>1. session[r][a] \in SessionRow
    BY DEF Typed, TypeOK
  <1>2. s \in Entry /\ entries \in Seq(Entry) /\ Tail(session[r][a].offered) \in Seq(Entry)
    <2>1. /\ session[r][a].held \in Seq(Entry)
          /\ session[r][a].offered \in Seq(Entry)
          /\ session[r][a].offered # << >>
      BY <1>1 DEF SessionRow, ConsumeSteer
    <2> QED BY <2>1
  <1>3. /\ session' = [session EXCEPT ![r][a].held = entries,
                                      ![r][a].offered = Tail(@)]
        /\ checkpoint' = [checkpoint EXCEPT ![r] = entries]
        /\ message[s.message].state = "pending"
        /\ message' = [message EXCEPT ![s.message].state = "consumed"]
        /\ UNCHANGED << thread, run, claim, question, gitop, command, workspace,
                        attachment, outbox >>
    BY DEF ConsumeSteer
  <1>4. session' = [session EXCEPT ![r][a] = row]
    BY <1>3 DEF Typed, TypeOK
  <1> HIDE DEF entries, s
  <1>5. row \in SessionRow
    BY <1>1, <1>2 DEF SessionRow
  <1> HIDE DEF row
  <1>6. session' \in [Message -> [Attempt -> SessionRow]]
    BY <1>4, <1>5 DEF Typed, TypeOK
  <1>7. checkpoint' \in [Message -> Seq(Entry)]
    BY <1>2, <1>3 DEF Typed, TypeOK
  <1>8. message' \in [Message -> MessageRow]
    <2>1. s.message \in Message => [message[s.message] EXCEPT !.state = "consumed"] \in MessageRow
      <3>1. s.message \in Message => message[s.message] \in MessageRow
        BY DEF Typed, TypeOK
      <3> QED BY <3>1 DEF MessageRow
    <2> QED BY <1>3, <2>1 DEF Typed, TypeOK
  <1>9. TypeOK'
    BY <1>3, <1>6, <1>7, <1>8 DEF Typed, TypeOK
  <1>10. References'
    BY <1>3 DEF Typed, TypeOK, References, MessagesHaveThread, RowsHaveRun, StartedHasRun, MessageRow
  <1> QED BY <1>9, <1>10 DEF Typed

\* Completing ends the run and the session.
LEMMA CompleteRunTyped ==
  ASSUME Typed, NEW r \in Message, NEW a \in Attempt, CompleteRun(r, a)
  PROVE  Typed'
  <1>1. /\ message' \in [Message -> MessageRow]
        /\ run' \in [Message -> RunRow]
        /\ outbox' \in SUBSET OutboxRow
        /\ MessagesHaveThread'
        /\ StartedHasRun'
        /\ \A s \in Message : run[s].status # "absent" => run'[s].status # "absent"
    BY EndRunTyped DEF CompleteRun, MayComplete, TerminalStatus
  <1>2. session' \in [Message -> [Attempt -> SessionRow]]
    <2> DEFINE row == [session[r][a] EXCEPT !.phase = "closed"]
    <2>1. row \in SessionRow
      <3>1. session[r][a] \in SessionRow
        BY DEF Typed, TypeOK
      <3> QED BY <3>1 DEF SessionRow
    <2>2. session' = [session EXCEPT ![r][a] = row]
      BY DEF CompleteRun, Typed, TypeOK
    <2> HIDE DEF row
    <2> QED BY <2>1, <2>2 DEF Typed, TypeOK
  <1>3. TypeOK'
    BY <1>1, <1>2 DEF Typed, TypeOK, CompleteRun
  <1>4. RowsHaveRun'
    BY <1>1 DEF Typed, References, RowsHaveRun, CompleteRun
  <1> QED BY <1>1, <1>3, <1>4 DEF Typed, References

(***************************************************************************)
(* Questions and the browser.                                              *)
(***************************************************************************)
\* The checkpoint that publishes closes the session.
LEMMA SaveAndCloseTyped ==
  ASSUME Typed, NEW r \in Message, NEW a \in Attempt, SaveAndClose(r, a)
  PROVE  /\ session' \in [Message -> [Attempt -> SessionRow]]
         /\ checkpoint' \in [Message -> Seq(Entry)]
  <1> DEFINE row == [session[r][a] EXCEPT !.phase = "closed"]
  <1>1. session[r][a] \in SessionRow
    BY DEF Typed, TypeOK
  <1>2. row \in SessionRow /\ session[r][a].held \in Seq(Entry)
    BY <1>1 DEF SessionRow
  <1>3. session' = [session EXCEPT ![r][a] = row]
    BY DEF SaveAndClose, Typed, TypeOK
  <1>4. checkpoint' \in [Message -> Seq(Entry)]
    BY <1>2 DEF SaveAndClose, Typed, TypeOK
  <1> HIDE DEF row
  <1>5. session' \in [Message -> [Attempt -> SessionRow]]
    BY <1>2, <1>3 DEF Typed, TypeOK
  <1> QED BY <1>4, <1>5

\* A step that leaves messages and the existence of runs alone, and whose rows
\* are typed and refer to runs.
LEMMA RowsTyped ==
  ASSUME Typed, TypeOK',
         message' = message,
         \A r \in Message : run'[r].status = "absent" <=> run[r].status = "absent",
         RowsHaveRun'
  PROVE  Typed'
  BY DEF Typed, References, MessagesHaveThread, StartedHasRun

\* The wait of a run is one of its columns.
LEMMA WaitColumns ==
  ASSUME Typed, NEW r \in Message, NEW w \in BOOLEAN
  PROVE  /\ [run EXCEPT ![r].questionWait = w] \in [Message -> RunRow]
         /\ [run EXCEPT ![r].approvalWait = w] \in [Message -> RunRow]
         /\ \A s \in Message : /\ [run EXCEPT ![r].questionWait = w][s].status = run[s].status
                               /\ [run EXCEPT ![r].approvalWait = w][s].status = run[s].status
  <1>1. run \in [Message -> RunRow] /\ run[r] \in RunRow
    BY DEF Typed, TypeOK
  <1>2. /\ [run[r] EXCEPT !.questionWait = w] \in RunRow
        /\ [run[r] EXCEPT !.approvalWait = w] \in RunRow
    BY <1>1 DEF RunRow
  <1>3. /\ [run[r] EXCEPT !.questionWait = w].status = run[r].status
        /\ [run[r] EXCEPT !.approvalWait = w].status = run[r].status
    BY <1>1 DEF RunRow
  <1> QED BY <1>1, <1>2, <1>3

\* Handing the browser over changes only its owner.
LEMMA BrowserRows ==
  ASSUME Typed, NEW t, NEW owner \in {"agent", "user"}, BrowserTo(t, owner)
  PROVE  thread' \in [Thread -> ThreadRow] /\ \A s \in Thread : thread'[s].state = thread[s].state
  BY DEF Typed, TypeOK, BrowserTo, ThreadRow

\* A question belongs to the run that asks it.
LEMMA PublishQuestionTyped ==
  ASSUME Typed, NEW r \in Message, NEW a \in Attempt, NEW q \in Question,
         NEW handoff \in BOOLEAN, PublishQuestion(r, a, q, handoff)
  PROVE  Typed'
  <1>1. /\ session' \in [Message -> [Attempt -> SessionRow]]
        /\ checkpoint' \in [Message -> Seq(Entry)]
    BY SaveAndCloseTyped DEF PublishQuestion
  <1>2. question' \in [Question -> QuestionRow]
    BY DEF Typed, TypeOK, PublishQuestion, QuestionRow
  <1>3. /\ run' \in [Message -> RunRow]
        /\ \A s \in Message : run'[s].status = run[s].status
    BY WaitColumns DEF PublishQuestion
  <1>4. thread' \in [Thread -> ThreadRow]
    BY BrowserRows DEF PublishQuestion, Typed, TypeOK
  <1>5. TypeOK'
    BY <1>1, <1>2, <1>3, <1>4 DEF Typed, TypeOK, PublishQuestion
  <1>6. RowsHaveRun'
    BY <1>3 DEF Typed, TypeOK, References, RowsHaveRun, PublishQuestion, MayPublish, IsActive,
       ActiveStatus
  <1> QED BY <1>3, <1>5, <1>6, RowsTyped DEF PublishQuestion

\* A question row that is open belongs to a run of a thread.
LEMMA QuestionHasThread ==
  ASSUME Typed, NEW q \in Question, question[q].state = "pending"
  PROVE  question[q].run \in Message /\ ThreadOf(question[q].run) \in Thread
  <1>1. question[q].run \in Message /\ run[question[q].run].status # "absent"
    BY DEF Typed, References, RowsHaveRun, NoQuestion
  <1> QED BY <1>1, RunHasThread

\* An answer changes only the state of a question.
LEMMA AnswerRows ==
  ASSUME Typed, NEW q \in Question, Answerable(q), AnswerRow(q), AnswerOutbox(q)
  PROVE  /\ question' \in [Question -> QuestionRow]
         /\ outbox' \in SUBSET OutboxRow
         /\ \A p \in Question : question'[p] # NoQuestion =>
              question[p] # NoQuestion /\ question'[p].run = question[p].run
  <1>1. \A p \in Question : question[p] \in QuestionRow
    BY DEF Typed, TypeOK
  <1>2. question' \in [Question -> QuestionRow]
    BY <1>1 DEF Typed, TypeOK, AnswerRow, QuestionRow
  <1>3. \A p \in Question : question'[p] # NoQuestion =>
              question[p] # NoQuestion /\ question'[p].run = question[p].run
    <2>1. question[q] # NoQuestion
      BY DEF Answerable, NoQuestion
    <2> QED BY <1>1, <2>1 DEF Typed, TypeOK, AnswerRow, QuestionRow
  <1>4. outbox' \in SUBSET OutboxRow
    BY QuestionHasThread DEF Typed, TypeOK, Answerable, AnswerOutbox, OutboxRow, OutboxType
  <1> QED BY <1>2, <1>3, <1>4

\* Answering may hand the browser back.
LEMMA AnswerTyped ==
  ASSUME Typed, NEW q \in Question, Answer(q)
  PROVE  Typed'
  <1>1. /\ question' \in [Question -> QuestionRow]
        /\ outbox' \in SUBSET OutboxRow
    BY AnswerRows DEF Answer
  <1>2. thread' \in [Thread -> ThreadRow]
    BY BrowserRows DEF Answer, Typed, TypeOK
  <1>3. TypeOK'
    BY <1>1, <1>2 DEF Typed, TypeOK, Answer
  <1>4. RowsHaveRun'
    BY AnswerRows, RowsStay DEF Answer
  <1> QED BY <1>3, <1>4, RowsTyped DEF Answer

\* Resuming forgets the wait.
LEMMA ResumeQuestionsTyped ==
  ASSUME Typed, NEW r \in Message, ResumeQuestions(r)
  PROVE  Typed'
  <1>1. /\ run' \in [Message -> RunRow]
        /\ \A s \in Message : run'[s].status = run[s].status
    BY WaitColumns DEF ResumeQuestions
  <1>2. TypeOK'
    BY <1>1 DEF Typed, TypeOK, ResumeQuestions
  <1>3. RowsHaveRun'
    BY <1>1 DEF Typed, References, RowsHaveRun, ResumeQuestions
  <1> QED BY <1>1, <1>2, <1>3, RowsTyped DEF ResumeQuestions

\* The user takes the browser.
LEMMA TakeBrowserTyped ==
  ASSUME Typed, NEW t \in Thread, TakeBrowser(t)
  PROVE  Typed'
  <1>1. thread' \in [Thread -> ThreadRow]
    BY BrowserRows DEF TakeBrowser
  <1>2. TypeOK'
    BY <1>1 DEF Typed, TypeOK, TakeBrowser
  <1>3. RowsHaveRun'
    BY DEF Typed, References, RowsHaveRun, TakeBrowser
  <1> QED BY <1>2, <1>3, RowsTyped DEF TakeBrowser

\* The user hands the browser back and answers the handoffs.
LEMMA HandBackTyped ==
  ASSUME Typed, NEW t \in Thread, HandBack(t)
  PROVE  Typed'
  <1>1. thread' \in [Thread -> ThreadRow]
    BY BrowserRows DEF HandBack
  <1>2. /\ question' \in [Question -> QuestionRow]
        /\ outbox' \in SUBSET OutboxRow
        /\ \A p \in Question : question'[p] # NoQuestion =>
             question[p] # NoQuestion /\ question'[p].run = question[p].run
    <2>1. CASE UNCHANGED << question, outbox >>
      BY <2>1 DEF Typed, TypeOK
    <2>2. CASE \E q \in Handoffs(t) : Answerable(q) /\ AnswerRow(q) /\ AnswerOutbox(q)
      BY <2>2, AnswerRows DEF Handoffs
    <2> QED BY <2>1, <2>2 DEF HandBack
  <1>3. TypeOK'
    BY <1>1, <1>2 DEF Typed, TypeOK, HandBack
  <1>4. RowsHaveRun'
    BY <1>2, RowsStay DEF HandBack
  <1> QED BY <1>3, <1>4, RowsTyped DEF HandBack

(***************************************************************************)
(* Git proposals and writes.                                               *)
(***************************************************************************)
\* A step that only updates Git rows, and perhaps adds to the outbox.
LEMMA GitRowsTyped ==
  ASSUME Typed, gitop' \in [GitOp -> GitRow], outbox' \in SUBSET OutboxRow,
         \A g \in GitOp : gitop'[g] # NoGitOp =>
           gitop[g] # NoGitOp /\ gitop'[g].run = gitop[g].run,
         UNCHANGED << thread, message, run, claim, session, checkpoint, question,
                      command, workspace, attachment >>
  PROVE  Typed'
  <1>1. TypeOK'
    BY DEF Typed, TypeOK
  <1>2. RowsHaveRun'
    BY RowsStay
  <1> QED BY <1>1, <1>2, RowsTyped

\* One Git row gets a new value that keeps its run.
LEMMA GitRowTyped ==
  ASSUME Typed, NEW g \in GitOp, gitop[g] # NoGitOp, NEW row \in GitRow,
         row.run = gitop[g].run, gitop' = [gitop EXCEPT ![g] = row],
         outbox' \in SUBSET OutboxRow,
         UNCHANGED << thread, message, run, claim, session, checkpoint, question,
                      command, workspace, attachment >>
  PROVE  Typed'
  <1>1. gitop' \in [GitOp -> GitRow]
    BY DEF Typed, TypeOK
  <1>2. \A h \in GitOp : gitop'[h] # NoGitOp =>
          gitop[h] # NoGitOp /\ gitop'[h].run = gitop[h].run
    BY DEF Typed, TypeOK
  <1> QED BY <1>1, <1>2, GitRowsTyped

\* A proposal belongs to the run that makes it.
LEMMA PublishProposalTyped ==
  ASSUME Typed, NEW r \in Message, NEW a \in Attempt, NEW g \in GitOp, PublishProposal(r, a, g)
  PROVE  Typed'
  <1> DEFINE row == [NoGitOp EXCEPT !.approval = "pending", !.run = r,
                                    !.generation = workspace[ThreadOf(r)].generation]
  <1>1. run[r].status # "absent"
    BY DEF PublishProposal, MayPublish, IsActive, ActiveStatus
  <1>2. row \in GitRow /\ row.run = r
    <2>1. workspace[ThreadOf(r)].generation \in 0 .. MaxGeneration
      BY <1>1, RunHasThread DEF Typed, TypeOK, WorkspaceRow
    <2> QED BY <2>1 DEF NoGitOp, GitRow
  <1>3. gitop' = [gitop EXCEPT ![g] = row]
    BY DEF PublishProposal
  <1> HIDE DEF row
  <1>4. gitop' \in [GitOp -> GitRow]
    BY <1>2, <1>3 DEF Typed, TypeOK
  <1>5. /\ session' \in [Message -> [Attempt -> SessionRow]]
        /\ checkpoint' \in [Message -> Seq(Entry)]
    BY SaveAndCloseTyped DEF PublishProposal
  <1>6. /\ run' \in [Message -> RunRow]
        /\ \A s \in Message : run'[s].status = run[s].status
    BY WaitColumns DEF PublishProposal
  <1>7. TypeOK'
    BY <1>4, <1>5, <1>6 DEF Typed, TypeOK, PublishProposal
  <1>8. RowsHaveRun'
    BY <1>1, <1>2, <1>3, <1>6 DEF Typed, TypeOK, References, RowsHaveRun, PublishProposal
  <1> QED BY <1>6, <1>7, <1>8, RowsTyped DEF PublishProposal

\* Time passes for an approval.
LEMMA LapseTyped ==
  ASSUME Typed, NEW g \in GitOp, Lapse(g)
  PROVE  Typed'
  <1> DEFINE row == [gitop[g] EXCEPT !.lapsed = TRUE]
  <1>1. gitop[g] \in GitRow /\ gitop[g] # NoGitOp
    BY DEF Typed, TypeOK, Lapse, NoGitOp
  <1>2. row \in GitRow /\ row.run = gitop[g].run
    BY <1>1 DEF GitRow
  <1>3. outbox' \in SUBSET OutboxRow /\ gitop' = [gitop EXCEPT ![g] = row]
    BY DEF Typed, TypeOK, Lapse
  <1> HIDE DEF row
  <1> QED BY <1>1, <1>2, <1>3, GitRowTyped DEF Lapse

\* The broker rejects a write it finds impossible.
LEMMA RejectWriteTyped ==
  ASSUME Typed, NEW g \in GitOp, RejectWrite(g)
  PROVE  Typed'
  <1> DEFINE row == [gitop[g] EXCEPT !.execution = "failed"]
  <1>1. gitop[g] \in GitRow /\ gitop[g] # NoGitOp
    BY DEF Typed, TypeOK, RejectWrite, NoGitOp
  <1>2. row \in GitRow /\ row.run = gitop[g].run
    BY <1>1 DEF GitRow
  <1>3. outbox' \in SUBSET OutboxRow /\ gitop' = [gitop EXCEPT ![g] = row]
    BY DEF Typed, TypeOK, RejectWrite
  <1> HIDE DEF row
  <1> QED BY <1>1, <1>2, <1>3, GitRowTyped DEF RejectWrite

\* The user decides.
LEMMA DecideTyped ==
  ASSUME Typed, NEW g \in GitOp, NEW d \in {"approved", "rejected"}, Decide(g, d)
  PROVE  Typed'
  <1> DEFINE row == [gitop[g] EXCEPT !.approval = d]
  <1>1. gitop[g] \in GitRow /\ gitop[g] # NoGitOp
    BY DEF Typed, TypeOK, Decide, NoGitOp
  <1>2. row \in GitRow /\ row.run = gitop[g].run
    BY <1>1 DEF GitRow
  <1>3. gitop' = [gitop EXCEPT ![g] = row]
    BY DEF Decide
  <1>4. outbox' \in SUBSET OutboxRow
    <2>1. gitop[g].run \in Message /\ run[gitop[g].run].status # "absent"
      BY <1>1 DEF Typed, References, RowsHaveRun
    <2>2. ThreadOf(gitop[g].run) \in Thread
      BY <2>1, RunHasThread
    <2> QED BY <2>1, <2>2 DEF Typed, TypeOK, Decide, DecisionOutbox, OutboxRow, OutboxType
  <1> HIDE DEF row
  <1> QED BY <1>1, <1>2, <1>3, <1>4, GitRowTyped DEF Decide

\* An approved write is dispatched.
LEMMA ClaimWriteTyped ==
  ASSUME Typed, NEW g \in GitOp, NEW a \in Attempt, ClaimWrite(g, a)
  PROVE  Typed'
  <1> DEFINE row == [gitop[g] EXCEPT !.execution = "executing"]
  <1>1. gitop[g] \in GitRow /\ gitop[g] # NoGitOp
    BY DEF Typed, TypeOK, ClaimWrite, NoGitOp
  <1>2. row \in GitRow /\ row.run = gitop[g].run
    BY <1>1 DEF GitRow
  <1>3. outbox' \in SUBSET OutboxRow /\ gitop' = [gitop EXCEPT ![g] = row]
    BY DEF Typed, TypeOK, ClaimWrite
  <1> HIDE DEF row
  <1> QED BY <1>1, <1>2, <1>3, GitRowTyped DEF ClaimWrite

\* A dispatched write has an outcome.
LEMMA FinishWriteTyped ==
  ASSUME Typed, NEW g \in GitOp, NEW x \in {"succeeded", "failed", "unknown"}, FinishWrite(g, x)
  PROVE  Typed'
  <1> DEFINE row == [gitop[g] EXCEPT !.execution = x]
  <1>1. gitop[g] \in GitRow /\ gitop[g] # NoGitOp
    BY DEF Typed, TypeOK, FinishWrite, NoGitOp
  <1>2. row \in GitRow /\ row.run = gitop[g].run
    BY <1>1 DEF GitRow
  <1>3. outbox' \in SUBSET OutboxRow /\ gitop' = [gitop EXCEPT ![g] = row]
    BY DEF Typed, TypeOK, FinishWrite
  <1> HIDE DEF row
  <1> QED BY <1>1, <1>2, <1>3, GitRowTyped DEF FinishWrite

\* Lapsed approvals expire.
LEMMA ExpireApprovalsTyped ==
  ASSUME Typed, NEW r \in Message, ExpireApprovals(r)
  PROVE  Typed'
  <1>1. \A g \in GitOp : gitop[g] \in GitRow
    BY DEF Typed, TypeOK
  <1>2. gitop' \in [GitOp -> GitRow]
    BY <1>1 DEF ExpireApprovals, GitRow
  <1>3. \A g \in Due(r) : gitop[g] # NoGitOp /\ gitop[g].run = r
    BY DEF Due, OpsOf, Undispatched, NoGitOp
  <1>4. \A g \in GitOp : gitop'[g] # NoGitOp =>
          gitop[g] # NoGitOp /\ gitop'[g].run = gitop[g].run
    BY <1>1, <1>3 DEF ExpireApprovals, GitRow
  <1>5. outbox' \in SUBSET OutboxRow
    <2>1. run[r].status # "absent"
      BY <1>3 DEF ExpireApprovals, Due, OpsOf, Typed, References, RowsHaveRun
    <2>2. ThreadOf(r) \in Thread
      BY <2>1, RunHasThread
    <2> QED BY <2>2 DEF Typed, TypeOK, ExpireApprovals, DecisionOutbox, OutboxRow, OutboxType
  <1> QED BY <1>2, <1>4, <1>5, GitRowsTyped DEF ExpireApprovals

\* Resuming forgets the wait.
LEMMA ResumeApprovalTyped ==
  ASSUME Typed, NEW r \in Message, ResumeApproval(r)
  PROVE  Typed'
  <1>1. /\ run' \in [Message -> RunRow]
        /\ \A s \in Message : run'[s].status = run[s].status
    BY WaitColumns DEF ResumeApproval
  <1>2. TypeOK'
    BY <1>1 DEF Typed, TypeOK, ResumeApproval
  <1>3. RowsHaveRun'
    BY <1>1 DEF Typed, References, RowsHaveRun, ResumeApproval
  <1> QED BY <1>1, <1>2, <1>3, RowsTyped DEF ResumeApproval

(***************************************************************************)
(* Commands.                                                               *)
(***************************************************************************)
\* One command row gets a new value that belongs to a run.
LEMMA CommandRowTyped ==
  ASSUME Typed, NEW c \in Command, NEW row \in CommandRow,
         row.run \in Message /\ run[row.run].status # "absent",
         command' = [command EXCEPT ![c] = row],
         UNCHANGED << thread, message, run, claim, session, checkpoint, question,
                      gitop, workspace, attachment, outbox >>
  PROVE  Typed'
  <1>1. TypeOK'
    BY DEF Typed, TypeOK
  <1>2. RowsHaveRun'
    BY DEF Typed, TypeOK, References, RowsHaveRun
  <1> QED BY <1>1, <1>2, RowsTyped

\* A command belongs to the run that issues it.
LEMMA BeginCommandTyped ==
  ASSUME Typed, NEW c \in Command, NEW r \in Message, NEW a \in Attempt,
         NEW access \in {"exclusive", "read"}, BeginCommand(c, r, a, access)
  PROVE  Typed'
  <1> DEFINE row == [state |-> "queued", run |-> r, attempt |-> a, access |-> access,
                     generation |-> workspace[ThreadOf(r)].generation, slot |-> 0,
                     order |-> Cardinality(CommandsOf(ThreadOf(r)))]
  <1>1. run[r].status # "absent"
    BY DEF BeginCommand, IsActive, ActiveStatus
  <1>2. workspace[ThreadOf(r)].generation \in 0 .. MaxGeneration
    BY <1>1, RunHasThread DEF Typed, TypeOK, WorkspaceRow
  <1>3. Cardinality(CommandsOf(ThreadOf(r))) \in Nat
    BY FS_Subset, FS_CardinalityType, FiniteAssumption DEF CommandsOf
  <1>4. row \in CommandRow /\ row.run = r
    BY <1>2, <1>3, LimitAssumption DEF CommandRow
  <1>5. command' = [command EXCEPT ![c] = row]
    BY DEF BeginCommand
  <1> HIDE DEF row
  <1> QED BY <1>1, <1>4, <1>5, CommandRowTyped DEF BeginCommand

\* A command row that is in use belongs to a run.
LEMMA CommandHasRun ==
  ASSUME Typed, NEW c \in Command, command[c].state # "absent"
  PROVE  command[c] \in CommandRow /\ command[c].run \in Message /\ run[command[c].run].status # "absent"
  BY DEF Typed, TypeOK, References, RowsHaveRun, NoCommand

\* Admission gives a command its slot.
LEMMA AdmitCommandTyped ==
  ASSUME Typed, NEW c \in Command, AdmitCommand(c)
  PROVE  Typed'
  <1>1. PICK s \in 0 .. MaxReads : command' = [command EXCEPT ![c].state = "pending", ![c].slot = s]
    BY DEF AdmitCommand
  <1> DEFINE row == [command[c] EXCEPT !.state = "pending", !.slot = s]
  <1>2. command[c] \in CommandRow /\ command[c].run \in Message /\ run[command[c].run].status # "absent"
    BY CommandHasRun DEF AdmitCommand
  <1>3. row \in CommandRow /\ row.run = command[c].run
    BY <1>2 DEF CommandRow
  <1>4. command' = [command EXCEPT ![c] = row]
    BY <1>1 DEF Typed, TypeOK
  <1> HIDE DEF row
  <1> QED BY <1>2, <1>3, <1>4, CommandRowTyped DEF AdmitCommand

\* Later transactions on a command change its state.
LEMMA UpdateCommandTyped ==
  ASSUME Typed, NEW c \in Command, NEW from \in SUBSET UnsettledState,
         NEW to \in {"running", "completed", "failed", "unknown"}, UpdateCommand(c, from, to)
  PROVE  Typed'
  <1> DEFINE row == [command[c] EXCEPT !.state = to]
  <1>1. command[c] \in CommandRow /\ command[c].run \in Message /\ run[command[c].run].status # "absent"
    BY CommandHasRun DEF UpdateCommand, UnsettledState
  <1>2. row \in CommandRow /\ row.run = command[c].run
    BY <1>1 DEF CommandRow
  <1>3. command' = [command EXCEPT ![c] = row]
    BY DEF UpdateCommand
  <1> HIDE DEF row
  <1> QED BY <1>1, <1>2, <1>3, CommandRowTyped DEF UpdateCommand

\* What the guest reports of a command.
LEMMA CommandReportTyped ==
  ASSUME Typed, NEW c \in Command, MarkRunning(c) \/ SettleCommand(c) \/ MarkUnknown(c)
  PROVE  Typed'
  BY UpdateCommandTyped DEF MarkRunning, SettleCommand, MarkUnknown, UnsettledState, DispatchedState

(***************************************************************************)
(* Workspaces, deletion and the outbox.                                    *)
(***************************************************************************)
\* A step that only updates a workspace row.
LEMMA WorkspaceRowTyped ==
  ASSUME Typed, NEW t \in Thread, NEW row \in WorkspaceRow,
         workspace' = [workspace EXCEPT ![t] = row],
         UNCHANGED << thread, message, run, claim, session, checkpoint, question,
                      gitop, command, attachment, outbox >>
  PROVE  Typed'
  <1>1. TypeOK'
    BY DEF Typed, TypeOK
  <1>2. RowsHaveRun'
    BY DEF Typed, References, RowsHaveRun
  <1> QED BY <1>1, <1>2, RowsTyped

\* A workspace is created with its thread's first preparation.
LEMMA CreateWorkspaceTyped ==
  ASSUME Typed, NEW t \in Thread, CreateWorkspace(t)
  PROVE  Typed'
  <1>1. [workspace[t] EXCEPT !.state = "provisioning"] \in WorkspaceRow
    BY DEF Typed, TypeOK, WorkspaceRow
  <1> QED BY <1>1, WorkspaceRowTyped DEF CreateWorkspace

\* An activity reports the state of the sandbox.
LEMMA UpdateWorkspaceTyped ==
  ASSUME Typed, NEW t \in Thread, NEW state, UpdateWorkspace(t, state)
  PROVE  Typed'
  <1>1. [workspace[t] EXCEPT !.state = state] \in WorkspaceRow
    BY DEF Typed, TypeOK, WorkspaceRow, UpdateWorkspace
  <1> QED BY <1>1, WorkspaceRowTyped DEF UpdateWorkspace

\* A lifecycle transition records its target.
LEMMA BeginTransitionTyped ==
  ASSUME Typed, NEW t \in Thread, NEW target \in {"paused", "deleted"}, BeginTransition(t, target)
  PROVE  Typed'
  <1>1. [workspace[t] EXCEPT !.target = target] \in WorkspaceRow
    BY DEF Typed, TypeOK, WorkspaceRow
  <1> QED BY <1>1, WorkspaceRowTyped DEF BeginTransition

\* A preparation withdraws a pending pause.
LEMMA CancelTransitionTyped ==
  ASSUME Typed, NEW t \in Thread, CancelTransition(t)
  PROVE  Typed'
  <1>1. [workspace[t] EXCEPT !.target = None] \in WorkspaceRow
    BY DEF Typed, TypeOK, WorkspaceRow
  <1> QED BY <1>1, WorkspaceRowTyped DEF CancelTransition

\* The guarded cleanup pauses or deletes.
LEMMA CleanupTyped ==
  ASSUME Typed, NEW t \in Thread, NEW waiting, NEW missing \in BOOLEAN,
         Cleanup(t, waiting, missing)
  PROVE  Typed'
  <1> DEFINE row == [workspace[t] EXCEPT
                       !.state = IF missing THEN "deleted" ELSE workspace[t].target,
                       !.target = None]
  <1>1. workspace[t] \in WorkspaceRow /\ workspace[t].target # None
    BY DEF Typed, TypeOK, Cleanup
  <1>2. row \in WorkspaceRow
    BY <1>1 DEF WorkspaceRow
  <1>3. workspace' = [workspace EXCEPT ![t] = row]
    BY DEF Cleanup, Typed, TypeOK
  <1> HIDE DEF row
  <1> QED BY <1>2, <1>3, WorkspaceRowTyped DEF Cleanup

\* Replacement settles the commands and approvals of the generation before.
LEMMA ResetWorkspaceTyped ==
  ASSUME Typed, NEW t \in Thread, ResetWorkspace(t)
  PROVE  Typed'
  <1> DEFINE row == [state |-> "provisioning", generation |-> workspace[t].generation + 1,
                     target |-> None]
  <1>1. workspace' \in [Thread -> WorkspaceRow]
    <2>1. workspace[t].generation \in 1 .. MaxGeneration /\ workspace[t].generation < MaxGeneration
      BY DEF Typed, TypeOK, WorkspaceRow, ResetWorkspace
    <2>2. row \in WorkspaceRow
      BY <2>1, LimitAssumption DEF WorkspaceRow
    <2>3. workspace' = [workspace EXCEPT ![t] = row]
      BY DEF ResetWorkspace
    <2> HIDE DEF row
    <2> QED BY <2>2, <2>3 DEF Typed, TypeOK
  <1>2. /\ gitop' \in [GitOp -> GitRow]
        /\ \A g \in GitOp : gitop'[g] # NoGitOp =>
             gitop[g] # NoGitOp /\ gitop'[g].run = gitop[g].run
    BY InvalidateApprovalsRows DEF ResetWorkspace
  <1>3. \A c \in Command : command[c] \in CommandRow
    BY DEF Typed, TypeOK
  <1>4. command' \in [Command -> CommandRow]
    BY <1>3 DEF ResetWorkspace, CommandRow
  <1>5. \A c \in Command : command'[c] # NoCommand =>
          command[c] # NoCommand /\ command'[c].run = command[c].run
    BY <1>3 DEF ResetWorkspace, LostCommands, CommandsOf, CommandRow, NoCommand
  <1>6. outbox' \in SUBSET OutboxRow
    BY DEF Typed, TypeOK, ResetWorkspace, RunsOf, OutboxRow, OutboxType
  <1>7. TypeOK'
    BY <1>1, <1>2, <1>4, <1>6 DEF Typed, TypeOK, ResetWorkspace
  <1>8. RowsHaveRun'
    BY <1>2, <1>5, RowsStay DEF ResetWorkspace
  <1> QED BY <1>7, <1>8, RowsTyped DEF ResetWorkspace

\* A step that only changes the outbox.
LEMMA OutboxTyped ==
  ASSUME Typed, outbox' \in SUBSET OutboxRow,
         UNCHANGED << thread, message, run, claim, session, checkpoint, question,
                      gitop, command, workspace, attachment >>
  PROVE  Typed'
  <1>1. TypeOK'
    BY DEF Typed, TypeOK
  <1>2. RowsHaveRun'
    BY DEF Typed, References, RowsHaveRun
  <1> QED BY <1>1, <1>2, RowsTyped

\* A wake request only leaves an outbox row.
LEMMA RequestWakeTyped ==
  ASSUME Typed, NEW t \in Thread, RequestWake(t)
  PROVE  Typed'
  <1>1. outbox' \in SUBSET OutboxRow
    BY DEF Typed, TypeOK, RequestWake, OutboxRow, OutboxType
  <1> QED BY <1>1, OutboxTyped DEF RequestWake

\* The dispatcher takes a row from the outbox.
LEMMA MarkDeliveredTyped ==
  ASSUME Typed, NEW o \in outbox, MarkDelivered(o)
  PROVE  Typed'
  <1>1. outbox' \in SUBSET OutboxRow
    BY DEF Typed, TypeOK, MarkDelivered
  <1> QED BY <1>1, OutboxTyped DEF MarkDelivered

\* Deleting marks the thread.
LEMMA DeleteThreadTyped ==
  ASSUME Typed, NEW t \in Thread, DeleteThread(t)
  PROVE  Typed'
  <1>1. thread' \in [Thread -> ThreadRow]
    BY DEF Typed, TypeOK, DeleteThread, ThreadRow
  <1>2. outbox' \in SUBSET OutboxRow
    BY DEF Typed, TypeOK, DeleteThread, OutboxRow, OutboxType
  <1>3. TypeOK'
    BY <1>1, <1>2 DEF Typed, TypeOK, DeleteThread
  <1>4. RowsHaveRun'
    BY DEF Typed, References, RowsHaveRun, DeleteThread
  <1> QED BY <1>3, <1>4, RowsTyped DEF DeleteThread

\* The rows that refer to the thread go with it.
LEMMA PurgeThreadTyped ==
  ASSUME Typed, NEW t \in Thread, PurgeThread(t)
  PROVE  Typed'
  <1> DEFINE M == {m \in Message : message[m].thread = t}
             Purged == [NoMessage EXCEPT !.state = "purged"]
  <1>0. 0 \in 0 .. MaxGeneration /\ 0 \in 0 .. MaxEdits /\ 0 \in 0 .. MaxReads /\ 1 \in 1 .. MaxGeneration
    BY LimitAssumption
  <1>1. message' \in [Message -> MessageRow]
    <2>1. Purged \in MessageRow
      BY <1>0 DEF NoMessage, MessageRow
    <2> QED BY <2>1 DEF Typed, TypeOK, PurgeThread
  <1>2. run' \in [Message -> RunRow]
    <2>1. NoRun \in RunRow
      BY <1>0 DEF NoRun, RunRow
    <2> QED BY <2>1 DEF Typed, TypeOK, PurgeThread
  <1>3. claim' \in [Message -> [Attempt -> BOOLEAN]]
    BY DEF Typed, TypeOK, PurgeThread
  <1>4. session' \in [Message -> [Attempt -> SessionRow]] /\ checkpoint' \in [Message -> Seq(Entry)]
    <2>1. NoSession \in SessionRow
      BY <1>0 DEF NoSession, SessionRow
    <2>2. session' \in [Message -> [Attempt -> SessionRow]]
      BY <2>1 DEF Typed, TypeOK, PurgeThread
    <2>3. checkpoint' \in [Message -> Seq(Entry)]
      BY DEF Typed, TypeOK, PurgeThread
    <2> QED BY <2>2, <2>3
  <1>5. question' \in [Question -> QuestionRow]
    <2>1. NoQuestion \in QuestionRow
      BY DEF NoQuestion, QuestionRow
    <2> QED BY <2>1 DEF Typed, TypeOK, PurgeThread
  <1>6. gitop' \in [GitOp -> GitRow]
    <2>1. NoGitOp \in GitRow
      BY <1>0 DEF NoGitOp, GitRow
    <2> QED BY <2>1 DEF Typed, TypeOK, PurgeThread
  <1>7. command' \in [Command -> CommandRow]
    <2>1. NoCommand \in CommandRow
      BY <1>0 DEF NoCommand, CommandRow
    <2> QED BY <2>1 DEF Typed, TypeOK, PurgeThread
  <1>8. attachment' \in [Attachment -> AttachmentRow]
    BY DEF Typed, TypeOK, PurgeThread, AttachmentRow
  <1>9. thread' \in [Thread -> ThreadRow]
    BY DEF Typed, TypeOK, PurgeThread, ThreadRow
  <1>10. workspace' \in [Thread -> WorkspaceRow]
    <2>1. NoWorkspace \in WorkspaceRow
      BY <1>0 DEF NoWorkspace, WorkspaceRow
    <2> QED BY <2>1 DEF Typed, TypeOK, PurgeThread
  <1>11. outbox' \in SUBSET OutboxRow
    BY DEF Typed, TypeOK, PurgeThread
  <1>12. TypeOK'
    BY <1>1, <1>2, <1>3, <1>4, <1>5, <1>6, <1>7, <1>8, <1>9, <1>10, <1>11 DEF TypeOK
  <1>13. MessagesHaveThread' /\ StartedHasRun'
    BY DEF PurgeThread, NoMessage, NoRun, Typed, References, MessagesHaveThread, StartedHasRun
  <1>14. RowsHaveRun'
    BY DEF PurgeThread, Typed, References, RowsHaveRun
  <1> QED BY <1>12, <1>13, <1>14 DEF Typed, References

(***************************************************************************)
(* Every step keeps the types.                                             *)
(***************************************************************************)
LEMMA NextTyped == Typed /\ [Next]_vars => Typed'
  <1> SUFFICES ASSUME Typed, [Next]_vars PROVE Typed'
    OBVIOUS
  <1>1. CASE SubmitNext
    BY <1>1, SubmitRunTyped, SubmitPendingTyped DEF SubmitNext
  <1>2. CASE QueueNext
    BY <1>2, StartQueuedMessageTyped, EditPendingTyped, RemovePendingTyped DEF QueueNext
  <1>3. CASE RunNext
    BY <1>3, RequestCancelTyped, StartRunTyped, FinishRunTyped DEF RunNext
  <1>4. CASE SessionNext
    BY <1>4, CheckWaitsTyped, ClaimExecutionTyped, OpenSessionTyped, PollSteersTyped,
       SaveTurnTyped, ConsumeSteerTyped, CompleteRunTyped DEF SessionNext
  <1>5. CASE QuestionNext
    BY <1>5, PublishQuestionTyped, AnswerTyped, ResumeQuestionsTyped, TakeBrowserTyped,
       HandBackTyped DEF QuestionNext
  <1>6. CASE GitNext
    BY <1>6, PublishProposalTyped, LapseTyped, RejectWriteTyped, DecideTyped, ClaimWriteTyped,
       FinishWriteTyped, ExpireApprovalsTyped, ResumeApprovalTyped DEF GitNext
  <1>7. CASE CommandNext
    BY <1>7, BeginCommandTyped, AdmitCommandTyped, CommandReportTyped DEF CommandNext
  <1>8. CASE WorkspaceNext
    BY <1>8, CreateWorkspaceTyped, UpdateWorkspaceTyped, BeginTransitionTyped,
       CancelTransitionTyped, CleanupTyped, ResetWorkspaceTyped, RequestWakeTyped DEF WorkspaceNext
  <1>9. CASE DeletionNext
    BY <1>9, DeleteThreadTyped, PurgeThreadTyped DEF DeletionNext
  <1>10. CASE DispatchNext
    BY <1>10, MarkDeliveredTyped DEF DispatchNext
  <1>11. CASE UNCHANGED vars
    BY <1>11 DEF vars, Typed, TypeOK, References, MessagesHaveThread, RowsHaveRun, StartedHasRun
  <1> QED BY <1>1, <1>2, <1>3, <1>4, <1>5, <1>6, <1>7, <1>8, <1>9, <1>10, <1>11 DEF Next

\* The inductive invariant holds.
LEMMA AlwaysTyped == Spec => []Typed
  BY InitTyped, NextTyped, PTL DEF Spec

\* Whatever the order of requests, workers and workflow steps, every row keeps
\* values its columns allow: no transaction writes through a reference to a row
\* that does not exist (threads/*.ts, question-store.ts, git-store.ts).
THEOREM TypeCorrect == Spec => []TypeOK
  <1>1. Typed => TypeOK
    BY DEF Typed
  <1> QED BY <1>1, AlwaysTyped, PTL

\* Accepted work is neither lost nor started twice: a run exists exactly for the
\* messages that started one (submission.ts, submit and startNextQueuedMessage).
THEOREM AcceptedWorkIsKept == Spec => []StartedHasRun
  <1>1. Typed => StartedHasRun
    BY DEF Typed, References
  <1> QED BY <1>1, AlwaysTyped, PTL
=============================================================================
