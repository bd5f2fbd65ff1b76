----------------------------- MODULE ThreadRuns -----------------------------
(***************************************************************************)
(* Messages, runs and the life of a thread: threads/submission.ts,         *)
(* threads/runs.ts, threads/deletion.ts and threads/outbox.ts.             *)
(*                                                                         *)
(* A run is created by a message that finds its thread idle, or from the   *)
(* retained queue when the run before it succeeds or fails.                *)
(***************************************************************************)
EXTENDS ThreadStoreState

\* (fault) the run takes the state of its message
PendingRun == [NoRun EXCEPT !.status = "pending"]

QueuedRun == [NoRun EXCEPT !.status = "queued"]

PendingMessages(t) ==
  {m \in Message : message[m].state = "pending" /\ message[m].thread = t}

\* (fault) an edit moves a message back in the queue
LeastEdited(t, m) ==
  /\ m \in PendingMessages(t)
  /\ \A o \in PendingMessages(t) :
       \/ message[m].version < message[o].version
       \/ message[m].version = message[o].version /\ message[m].sequence <= message[o].sequence

\* m is the pending message of t that was accepted first.
FirstPending(t, m) ==
  /\ m \in PendingMessages(t)
  /\ \A o \in PendingMessages(t) : message[m].sequence <= message[o].sequence

\* (fault) one run too many
AdmitsOneMore(rn) == Cardinality({r \in Message : rn[r].status \in ActiveStatus}) <= MaxActiveRuns

\* The admission count is taken on the rows rn, after the ending run's update.
Admits(rn) == Cardinality({r \in Message : rn[r].status \in ActiveStatus}) < MaxActiveRuns

\* (fault) the ending run still counts
QueueStartsBefore(t, rn) == PendingMessages(t) # {} /\ Admits(run)

QueueStarts(t, rn) == PendingMessages(t) # {} /\ Admits(rn)

\* startNextQueuedMessage on the rows rn, when m is the next of t.
StartNext(t, m, rn) ==
  /\ QueueStarts(t, rn)
  /\ FirstPending(t, m)
  /\ message' = [message EXCEPT ![m].state = "started"]
  /\ run' = [rn EXCEPT ![m] = QueuedRun]
  /\ outbox' = outbox \cup {[type |-> "run.requested", thread |-> t, run |-> m]}

\* The queue continues, or stays as it is when it is empty or not admitted.
ContinueQueue(t, rn) ==
  \/ \E m \in Message : StartNext(t, m, rn)
  \/ /\ ~QueueStarts(t, rn)
     /\ run' = rn
     /\ UNCHANGED << message, outbox >>

\* The attachments a submission may bind: ready and not bound yet.
Available == {x \in Attachment : attachment[x].state = "ready" /\ attachment[x].message = None}

Bind(A, m) ==
  attachment' = [x \in Attachment |->
                   IF x \in A THEN [attachment[x] EXCEPT !.message = m] ELSE attachment[x]]

\* (fault) the attachments stay bound
KeepBound(m, state) == UNCHANGED attachment

Unbind(m, state) ==
  attachment' = [x \in Attachment |->
                   IF attachment[x].message = m
                   THEN [state |-> state, message |-> None] ELSE attachment[x]]

(***************************************************************************)
(* submit.  A repeated client message id returns the recorded result and   *)
(* changes nothing, so a message is submitted once.                        *)
(***************************************************************************)
Acceptable(t, m, mode) ==
  /\ message[m].state = "absent"
  /\ thread[t].state \in {"absent", "live"}
  /\ thread[t].state = "absent" => mode = "none"

Idle(t) == ActiveRuns(t) = {}

\* A steer must use the model of the run it joins.
Joins(mode, model, r) == mode = "steer" => message[r].model = model

\* The delivery's sequence is that of its message.pending event; its rank among
\* the thread's messages orders deliveries the same way.
NewMessage(t, mode, model, state, target) ==
  [state |-> state, thread |-> t, mode |-> mode, model |-> model,
   target |-> target, version |-> 0,
   sequence |-> Cardinality({o \in Message : message[o].thread = t})]

\* The thread is new or has no active run: the message starts a run at once,
\* and does not join the retained queue.
SubmitRun(t, m, mode, model, A) ==
  /\ Acceptable(t, m, mode)
  /\ Idle(t)
  /\ Admits(run)
  /\ thread' = [thread EXCEPT ![t].state = "live"]
  /\ run' = [run EXCEPT ![m] = QueuedRun]
  /\ message' = [message EXCEPT ![m] =
       IF mode = "none" THEN NewMessage(t, mode, model, "plain", None)
                        ELSE NewMessage(t, mode, model, "started", m)]
  /\ outbox' = outbox \cup {[type |-> "run.requested", thread |-> t, run |-> m]}
  /\ Bind(A, m)
  /\ UNCHANGED << claim, session, checkpoint, question, gitop, command, workspace >>

\* The thread has an active run: the message waits for it.
SubmitPending(t, m, mode, model, A) ==
  /\ Acceptable(t, m, mode)
  /\ thread[t].state = "live"
  /\ mode # "none"
  /\ \E r \in ActiveRuns(t) :
       /\ Joins(mode, model, r)
       /\ message' = [message EXCEPT ![m] = NewMessage(t, mode, model, "pending", r)]
  /\ Bind(A, m)
  /\ UNCHANGED << thread, run, claim, session, checkpoint, question, gitop,
                  command, workspace, outbox >>

\* startQueuedMessage: a user restarts the retained queue of an idle thread.
StartQueuedMessage(t, m) ==
  /\ thread[t].state = "live"
  /\ Idle(t)
  /\ StartNext(t, m, run)
  /\ UNCHANGED << thread, claim, session, checkpoint, question, gitop, command,
                  workspace, attachment >>

\* (fault) a message that has just been started can still be changed
EditableOnceStarted(t, m) ==
  thread[t].state = "live" /\ message[m].thread = t /\ message[m].state \in {"pending", "started"}

\* updatePendingMessage: a steer of an active run may already be in Pi's queue.
Editable(t, m) ==
  /\ thread[t].state = "live"
  /\ m \in PendingMessages(t)
  /\ message[m].mode = "steer" => ~IsActive(message[m].target)

EditPending(t, m) ==
  /\ Editable(t, m)
  /\ message[m].version < MaxEdits
  /\ message' = [message EXCEPT ![m].version = @ + 1]
  /\ UNCHANGED << thread, run, claim, session, checkpoint, question, gitop,
                  command, workspace, attachment, outbox >>

RemovePending(t, m) ==
  /\ Editable(t, m)
  /\ message' = [message EXCEPT ![m].state = "removed"]
  /\ Unbind(m, "ready")
  /\ UNCHANGED << thread, run, claim, session, checkpoint, question, gitop,
                  command, workspace, outbox >>

(***************************************************************************)
(* runs.ts                                                                 *)
(***************************************************************************)
\* (fault) an approval that was given is kept
InvalidatePending(R) ==
  gitop' = [g \in GitOp |->
              IF gitop[g].run \in R /\ gitop[g].approval = "pending"
              THEN [gitop[g] EXCEPT !.approval = "invalidated"] ELSE gitop[g]]

\* invalidateGitApprovals of the runs in R.
InvalidateApprovals(R) ==
  gitop' = [g \in GitOp |->
              IF /\ gitop[g].run \in R
                 /\ gitop[g].approval \in {"pending", "approved"}
                 /\ gitop[g].execution = "not_started"
              THEN [gitop[g] EXCEPT !.approval = "invalidated"] ELSE gitop[g]]

PendingQuestions(r) == {q \in Question : question[q].run = r /\ question[q].state = "pending"}

\* cancelPendingQuestions
CancelQuestions(r) ==
  /\ question' = [q \in Question |->
                    IF q \in PendingQuestions(r)
                    THEN [question[q] EXCEPT !.state = "cancelled"] ELSE question[q]]
  /\ thread' = IF \E q \in PendingQuestions(r) : question[q].handoff
               THEN [thread EXCEPT ![ThreadOf(r)].browser = "agent"] ELSE thread

\* The queued commands of r never reach the sandbox.
DropQueuedCommands(r) ==
  command' = [c \in Command |->
                IF command[c].run = r /\ command[c].state = "queued"
                THEN [command[c] EXCEPT !.state = "failed"] ELSE command[c]]

RequestCancel(r) ==
  /\ IsActive(r)
  /\ ~run[r].cancel
  /\ thread[ThreadOf(r)].state = "live"
  /\ run' = [run EXCEPT ![r].cancel = TRUE]
  /\ InvalidateApprovals({r})
  /\ CancelQuestions(r)
  /\ outbox' = outbox \cup {[type |-> "run.cancel", thread |-> ThreadOf(r), run |-> r]}
  /\ UNCHANGED << message, claim, session, checkpoint, command, workspace, attachment >>

StartRun(r) ==
  /\ run[r].status = "queued"
  /\ run' = [run EXCEPT ![r].status = "running"]
  /\ UNCHANGED << thread, message, claim, session, checkpoint, question, gitop,
                  command, workspace, attachment, outbox >>

\* (fault) a replaced attempt gets its token back
MayReclaim(r, a) ==
  /\ IsActive(r)
  /\ \A c \in Command : command[c].run = r
       /\ command[c].generation = workspace[ThreadOf(r)].generation
       => command[c].state \notin DispatchedState

\* Commands of the attempt before must have been reconciled.
MayClaim(r, a) ==
  /\ IsActive(r)
  /\ ~claim[r][a]
  /\ \A c \in Command : command[c].run = r
       /\ command[c].generation = workspace[ThreadOf(r)].generation
       => command[c].state \notin DispatchedState

\* claimExecutionOwnership.  An attempt that claimed before gets its token back
\* while it is still the owner, which changes nothing, and is refused after.
\* An attempt that is to run Pi claims the generation it read before.
ClaimExecution(r, a) ==
  /\ MayClaim(r, a)
  /\ workspace[ThreadOf(r)].state # "absent"
  /\ session[r][a].phase = "checked"
       => session[r][a].generation = workspace[ThreadOf(r)].generation
  /\ claim' = [claim EXCEPT ![r][a] = TRUE]
  /\ run' = [run EXCEPT ![r].owner = a,
                        ![r].generation = workspace[ThreadOf(r)].generation]
  /\ DropQueuedCommands(r)
  /\ UNCHANGED << thread, message, session, checkpoint, question, gitop,
                  workspace, attachment, outbox >>

\* (fault) the queue continues after a cancelled run too
EndAndContinue(r, status) ==
  ContinueQueue(ThreadOf(r),
    [run EXCEPT ![r].status = IF run[r].cancel THEN "cancelled" ELSE status])

\* r ends with this status, and the queue continues, or r was to be cancelled
\* and the queue stays.
EndRun(r, status) ==
  \/ /\ run[r].cancel
     /\ run' = [run EXCEPT ![r].status = "cancelled"]
     /\ UNCHANGED << message, outbox >>
  \/ /\ ~run[r].cancel
     /\ ContinueQueue(ThreadOf(r), [run EXCEPT ![r].status = status])

\* (fault) the token is checked, the status is not
MayCompleteAgain(r, a) == session[r][a].phase = "open" /\ Owns(r, a)

MayComplete(r, a) == session[r][a].phase = "open" /\ Owns(r, a) /\ IsActive(r)

\* completeRun, by an attempt whose session came to its end.
CompleteRun(r, a) ==
  /\ MayComplete(r, a)
  /\ EndRun(r, "completed")
  /\ session' = [session EXCEPT ![r][a].phase = "closed"]
  /\ UNCHANGED << thread, claim, checkpoint, question, gitop, command, workspace,
                  attachment >>

\* (fault) a run that has ended is finished again
FinishAgain(r) ==
  /\ run[r].status # "absent"
  /\ InvalidateApprovals({r})
  /\ CancelQuestions(r)
  /\ DropQueuedCommands(r)
  /\ EndRun(r, "failed")
  /\ UNCHANGED << claim, session, checkpoint, workspace, attachment >>

\* finish, by the workflow's finalizer or by preparation.
FinishRun(r) ==
  /\ IsActive(r)
  /\ InvalidateApprovals({r})
  /\ CancelQuestions(r)
  /\ DropQueuedCommands(r)
  /\ EndRun(r, "failed")
  /\ UNCHANGED << claim, session, checkpoint, workspace, attachment >>

\* markDelivered: the dispatcher has signalled the thread's workflow.
MarkDelivered(o) ==
  /\ o \in outbox
  /\ outbox' = outbox \ {o}
  /\ UNCHANGED << thread, message, run, claim, session, checkpoint, question,
                  gitop, command, workspace, attachment >>

(***************************************************************************)
(* deletion.ts                                                             *)
(***************************************************************************)
\* (fault) active runs are not looked at
WritesSettled(t) ==
  \A g \in GitOp : gitop[g].run \in RunsOf(t) =>
                       gitop[g].execution \notin {"executing", "unknown"}

\* assertSettled: active runs and unsettled Git writes keep the thread.
Settled(t) ==
  /\ ActiveRuns(t) = {}
  /\ \A g \in GitOp : gitop[g].run \in RunsOf(t) =>
                        gitop[g].execution \notin {"executing", "unknown"}

DeleteThread(t) ==
  /\ thread[t].state = "live"
  /\ Settled(t)
  /\ thread' = [thread EXCEPT ![t].state = "deleted"]
  /\ outbox' = outbox \cup {[type |-> "thread.delete", thread |-> t, run |-> None]}
  /\ UNCHANGED << message, run, claim, session, checkpoint, question, gitop,
                  command, workspace, attachment >>

\* purgeThread, called once the workspace is gone.  The rows that refer to the
\* thread go with it; uploads are left to the hourly attachment cleanup.
PurgeThread(t) ==
  /\ thread[t].state = "deleted"
  /\ workspace[t].state \in {"absent", "deleted"}
  /\ Settled(t)
  /\ LET M == {m \in Message : message[m].thread = t}
     IN  /\ message' = [m \in Message |->
                IF m \in M THEN [NoMessage EXCEPT !.state = "purged"] ELSE message[m]]
         /\ run' = [r \in Message |-> IF r \in M THEN NoRun ELSE run[r]]
         /\ claim' = [r \in Message |->
                IF r \in M THEN [a \in Attempt |-> FALSE] ELSE claim[r]]
         /\ session' = [r \in Message |->
                IF r \in M THEN [a \in Attempt |-> NoSession] ELSE session[r]]
         /\ checkpoint' = [r \in Message |-> IF r \in M THEN << >> ELSE checkpoint[r]]
         /\ question' = [q \in Question |->
                IF question[q].run \in M THEN NoQuestion ELSE question[q]]
         /\ gitop' = [g \in GitOp |-> IF gitop[g].run \in M THEN NoGitOp ELSE gitop[g]]
         /\ command' = [c \in Command |->
                IF command[c].run \in M THEN NoCommand ELSE command[c]]
         /\ attachment' = [x \in Attachment |->
                IF attachment[x].message \in M
                THEN [state |-> "deleting", message |-> None] ELSE attachment[x]]
  /\ thread' = [thread EXCEPT ![t] = [state |-> "purged", browser |-> "agent"]]
  /\ workspace' = [workspace EXCEPT ![t] = NoWorkspace]
  /\ outbox' = {o \in outbox : o.thread # t}
=============================================================================
