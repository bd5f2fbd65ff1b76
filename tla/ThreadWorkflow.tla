---------------------------- MODULE ThreadWorkflow --------------------------
(***************************************************************************)
(* The Temporal workflow of each thread (apps/runner/src/workflows.ts), the *)
(* activities it calls (activities.ts) and the dispatcher that signals it   *)
(* from the outbox (dispatcher.ts), on top of the thread store.            *)
(*                                                                         *)
(* A workflow is sequential: `pc` says which activity is outstanding, and  *)
(* every store transaction of that activity is a step.  An activity may    *)
(* fail after any of its transactions and is retried from its start.       *)
(* Workers keep their lock here: one attempt works at a time.              *)
(***************************************************************************)
EXTENDS ThreadStore

CONSTANT MaxTries   (* activityRetryMaxAttempts                            *)

ASSUME MaxTriesAssumption == MaxTries \in Nat \ {0}

VARIABLE wf         (* the workflow of each thread                         *)

allvars == << vars, wf >>

Pc == {"gone", "idle", "prepare", "workspace", "ensure", "claim", "ready",
       "execute", "replace", "observe", "status", "told", "wait", "resume",
       "pause", "cleanup", "finalize", "wake", "rest", "delete", "deleting", "purge"}

WorkflowState ==
  [pc         : Pc,
   pending    : Seq(Message),                     \* run ids signalled
   active     : Message \cup {None},              \* activeRunId
   attempt    : Attempt \cup {None},              \* the working execution attempt
   kind       : {"approval", "question"},         \* what the run waits for
   next       : {"execute", "resume", "observe"}, \* what a preparation is for
   tries      : 0 .. MaxTries,                    \* failed tries of the activity
   recovering : BOOLEAN,                          \* inside recoverOrFinalize
   cancelling : BOOLEAN,                          \* the run's scope is cancelled
   changed    : BOOLEAN,                          \* a version moved since it was observed
   wake       : BOOLEAN,                          \* wakeRequested
   delete     : BOOLEAN]                          \* deleteRequested

Fresh == [pc |-> "idle", pending |-> << >>, active |-> None, attempt |-> None,
          kind |-> "question", next |-> "execute", tries |-> 0,
          recovering |-> FALSE, cancelling |-> FALSE, changed |-> FALSE,
          wake |-> FALSE, delete |-> FALSE]

WorkflowInit == Init /\ wf = [t \in Thread |-> [Fresh EXCEPT !.pc = "gone"]]

WorkflowTypeOK == TypeOK /\ wf \in [Thread -> WorkflowState]

At(t, pc) == wf[t].pc = pc

Becomes(t, w) == wf' = [wf EXCEPT ![t] = w]

Goto(t, pc) == Becomes(t, [wf[t] EXCEPT !.pc = pc])

\* The next activity starts, with all its tries.
Begin(t, pc) == Becomes(t, [wf[t] EXCEPT !.pc = pc, !.tries = 0, !.attempt = None])

\* The run is left to itself: activeRunId is reset and the loop goes on.
Leave(t) ==
  Becomes(t, [wf[t] EXCEPT !.pc = "idle", !.active = None,
                                    !.attempt = None, !.tries = 0])

(***************************************************************************)
(* Signals.  The dispatcher signals the workflow of the row's thread,      *)
(* starting one if there is none, and then marks the row delivered; if it  *)
(* dies in between the row is signalled again.                             *)
(***************************************************************************)
\* The signal handlers.
Signalled(w, o) ==
  CASE o.type = "run.requested" ->
         IF o.run = w.active \/ \E i \in DOMAIN w.pending : w.pending[i] = o.run
         THEN w ELSE [w EXCEPT !.pending = Append(@, o.run)]
    [] o.type = "run.cancel" -> [w EXCEPT !.cancelling = @ \/ o.run = w.active]
    [] o.type \in {"git.decision", "questions.answer"} -> [w EXCEPT !.changed = TRUE]
    [] o.type = "workspace.wake" -> [w EXCEPT !.wake = TRUE]
    [] o.type = "thread.delete" -> [w EXCEPT !.delete = TRUE]

Signal(o) ==
  wf' = [wf EXCEPT ![o.thread] = Signalled(IF @.pc = "gone" THEN Fresh ELSE @, o)]

Deliver(o)      == Signal(o) /\ MarkDelivered(o)
SignalTwice(o)  == o \in outbox /\ Signal(o) /\ UNCHANGED vars

(***************************************************************************)
(* The main loop.                                                          *)
(***************************************************************************)
\* (fault) a resting workflow does not look at its runs
HasSignals(t) == wf[t].wake \/ wf[t].delete

HasWork(t) == wf[t].pending # << >> \/ wf[t].wake \/ wf[t].delete

TakeDeletion(t) ==
  /\ At(t, "idle")
  /\ wf[t].delete
  /\ Begin(t, "delete")
  /\ UNCHANGED vars

TakeRun(t) ==
  /\ At(t, "idle")
  /\ ~wf[t].delete
  /\ wf[t].pending # << >>
  /\ Becomes(t, [wf[t] EXCEPT
       !.pc = "prepare", !.next = "execute", !.active = Head(wf[t].pending),
       !.pending = Tail(@), !.attempt = None, !.tries = 0,
       !.recovering = FALSE, !.cancelling = FALSE])
  /\ UNCHANGED vars

TakeWake(t) ==
  /\ At(t, "idle")
  /\ ~wf[t].delete
  /\ wf[t].pending = << >>
  /\ wf[t].wake
  /\ Becomes(t, [wf[t] EXCEPT !.pc = "wake", !.wake = FALSE])
  /\ UNCHANGED vars

\* An idle period has passed.
TakePause(t) ==
  /\ At(t, "idle")
  /\ ~HasWork(t)
  /\ Begin(t, "pause")
  /\ UNCHANGED vars

\* After a pause the workflow rests until there is work; after a deferred one
\* it also tries again when an idle period has passed.
EndRest(t) ==
  /\ At(t, "rest")
  /\ HasWork(t)
  /\ Goto(t, "idle")
  /\ UNCHANGED vars

PauseAgain(t) ==
  /\ At(t, "rest")
  /\ workspace[t].target # None
  /\ Goto(t, "idle")
  /\ UNCHANGED vars

\* wakeWorkspace: only an idle-paused workspace wakes, and a failure is dropped.
WakeWorkspace(t) ==
  /\ At(t, "wake")
  /\ Goto(t, "idle")
  /\ \/ /\ workspace[t].state = "paused" /\ workspace[t].target = None
        /\ UpdateWorkspace(t, "running") \/ ResetWorkspace(t)
     \/ UNCHANGED vars

(***************************************************************************)
(* prepareWorkspace of the active run.                                     *)
(***************************************************************************)
\* The preparation is done: its caller goes on, or leaves a run that ended.
Prepared(t) ==
  CASE wf[t].next = "execute" -> Begin(t, "execute")
    [] wf[t].next = "resume"  -> Begin(t, "resume")
    [] wf[t].next = "observe" -> Begin(t, "observe")

NotPrepared(t) == IF wf[t].next = "observe" THEN Begin(t, "observe") ELSE Leave(t)

PrepareEnded(t) ==
  /\ At(t, "prepare")
  /\ ~IsActive(wf[t].active)
  /\ NotPrepared(t)
  /\ UNCHANGED vars

PrepareCancelled(t) ==
  /\ At(t, "prepare")
  /\ run[wf[t].active].cancel
  /\ FinishRun(wf[t].active)
  /\ NotPrepared(t)

PrepareStart(t) ==
  /\ At(t, "prepare")
  /\ IsActive(wf[t].active)
  /\ ~run[wf[t].active].cancel
  /\ StartRun(wf[t].active) \/ (run[wf[t].active].status = "running" /\ UNCHANGED vars)
  /\ Goto(t, "workspace")

\* A pending transition is tried once more.  The active run defers it, and an
\* accepted run supersedes a deferred transition.
PrepareSupersede(t) ==
  /\ At(t, "workspace")
  /\ CancelTransition(t)
  /\ UNCHANGED wf

PrepareWorkspace(t) ==
  /\ At(t, "workspace")
  /\ workspace[t].target = None
  /\ \/ CreateWorkspace(t)
     \/ workspace[t].state # "absent" /\ UpdateWorkspace(t, "provisioning")
     \/ workspace[t].state = "provisioning" /\ UNCHANGED vars
  /\ Goto(t, "ensure")

\* The provider finds the filesystem, or has to replace it.
PrepareEnsure(t) ==
  /\ At(t, "ensure")
  /\ ResetWorkspace(t) \/ UNCHANGED vars
  /\ Goto(t, "claim")

\* Every attempt of an activity has an id of its own.
Unused(r) == {a \in Attempt : ~claim[r][a] /\ session[r][a] = NoSession}
NextAttempt(r) == CHOOSE a \in Unused(r) : TRUE

PrepareClaim(t) ==
  /\ At(t, "claim")
  /\ Unused(wf[t].active) # {}
  /\ ClaimExecution(wf[t].active, NextAttempt(wf[t].active))
  /\ Goto(t, "ready")

PrepareReady(t) ==
  /\ At(t, "ready")
  /\ UpdateWorkspace(t, "running")
  /\ Prepared(t)

(***************************************************************************)
(* runExecution of the active run.                                         *)
(***************************************************************************)
\* What the run waits for, as an attempt that starts or ends reports it.
WaitKind(r) == IF run[r].approvalWait /\ OpsOf(r) # {} THEN "approval" ELSE "question"

MustWait(r) == \/ run[r].approvalWait /\ OpsOf(r) # {}
               \/ run[r].questionWait /\ OpenQuestions(r) # {}

Await(t) ==
  Becomes(t, [wf[t] EXCEPT !.pc = "observe", !.kind = WaitKind(wf[t].active),
                                    !.attempt = None, !.tries = 0])

ExecuteEnded(t) ==
  /\ At(t, "execute")
  /\ wf[t].attempt = None
  /\ ~IsActive(wf[t].active)
  /\ Leave(t)
  /\ UNCHANGED vars

ExecuteAwaits(t) ==
  /\ At(t, "execute")
  /\ wf[t].attempt = None
  /\ IsActive(wf[t].active)
  /\ MustWait(wf[t].active)
  /\ Await(t)
  /\ UNCHANGED vars

ExecuteBegin(t) ==
  /\ At(t, "execute")
  /\ wf[t].attempt = None
  /\ Unused(wf[t].active) # {}
  /\ CheckWaits(wf[t].active, NextAttempt(wf[t].active))
  /\ wf' = [wf EXCEPT ![t].attempt = NextAttempt(wf[t].active)]

ExecuteStep(t) ==
  /\ At(t, "execute")
  /\ LET r == wf[t].active  a == wf[t].attempt
     IN  /\ a # None
         /\ \/ ClaimExecution(r, a) \/ OpenSession(r, a)
            \/ PollSteers(r, a) \/ SaveTurn(r, a) \/ ConsumeSteer(r, a)
            \/ CompleteRun(r, a)
            \/ \E g \in GitOp : PublishProposal(r, a, g)
            \/ \E q \in Question, handoff \in BOOLEAN : PublishQuestion(r, a, q, handoff)
  /\ UNCHANGED wf

\* The session is over: the activity returns what its last transaction left.
ExecuteReturns(t) ==
  /\ At(t, "execute")
  /\ wf[t].attempt # None
  /\ session[wf[t].active][wf[t].attempt].phase = "closed"
  /\ IF IsActive(wf[t].active) THEN Await(t) ELSE Leave(t)
  /\ UNCHANGED vars

(***************************************************************************)
(* A workspace that cannot be worked in.                                   *)
(***************************************************************************)
\* WORKSPACE_REPREPARE: the run is prepared and executed again, once.
Reprepare(t) ==
  IF wf[t].recovering THEN Begin(t, "finalize")
  ELSE Becomes(t, [wf[t] EXCEPT !.pc = "prepare", !.next = "execute", !.tries = 0,
                                !.attempt = None, !.recovering = TRUE])

\* An attempt finds the workspace deleted, quarantined or in transition, or the
\* provider answers that its sandbox is missing or was replaced.
ExecuteReprepare(t) ==
  /\ At(t, "execute")
  /\ wf[t].attempt = None
  /\ IsActive(wf[t].active)
  /\ ~MustWait(wf[t].active)
  /\ Reprepare(t)
  /\ UNCHANGED vars

\* The outcome of a command cannot be learned (quarantineAndReplaceHeld): its
\* filesystem is given up.
Quarantine(t) ==
  /\ wf[t].pc \in {"workspace", "ready"} \/ (At(t, "execute") /\ wf[t].attempt # None)
  /\ IsActive(wf[t].active)
  /\ UpdateWorkspace(t, "quarantined") \/ (workspace[t].state = "quarantined" /\ UNCHANGED vars)
  /\ Goto(t, "replace")

\* A wake that was preparing is simply tried again.
Replace(t) ==
  /\ At(t, "replace")
  /\ ResetWorkspace(t)
  /\ IF wf[t].next = "observe" THEN Begin(t, "prepare") ELSE Reprepare(t)

(***************************************************************************)
(* waitForPerson: the run waits for an answer or a decision.               *)
(***************************************************************************)
\* The signals seen so far are noted before the database is read.
Observe(t) ==
  /\ At(t, "observe")
  /\ Becomes(t, [wf[t] EXCEPT !.pc = "status", !.changed = FALSE])
  /\ UNCHANGED vars

\* approvalStatus settles what is due first.
StatusExpire(t) ==
  /\ At(t, "status")
  /\ wf[t].kind = "approval"
  /\ ExpireApprovals(wf[t].active)
  /\ UNCHANGED wf

Read(t) == At(t, "status") /\ (wf[t].kind = "approval" => Due(wf[t].active) = {})

StillPending(t) ==
  IF wf[t].kind = "approval"
  THEN \E g \in OpsOf(wf[t].active) : gitop[g].approval = "pending"
  ELSE OpenQuestions(wf[t].active) # {}

\* (fault) what was signalled since the last look is forgotten
LookAndForget(t) ==
  Becomes(t, [wf[t] EXCEPT !.pc = "wait", !.changed = FALSE])

KeepWaiting(t) == Goto(t, "wait")

\* It is pending when the activity reads it; the workflow learns so later.
StatusPending(t) ==
  /\ Read(t)
  /\ StillPending(t)
  /\ Goto(t, "told")
  /\ UNCHANGED vars

ToldPending(t) ==
  /\ At(t, "told")
  /\ KeepWaiting(t)
  /\ UNCHANGED vars

\* (fault) the run is resumed in the workspace as it is
SettledAndResumed(t) ==
  /\ Read(t)
  /\ ~StillPending(t)
  /\ Begin(t, "resume")
  /\ UNCHANGED vars

\* It is decided: the workspace is prepared and the run resumed.
StatusSettled(t) ==
  /\ Read(t)
  /\ ~StillPending(t)
  /\ Becomes(t, [wf[t] EXCEPT !.pc = "prepare", !.next = "resume", !.tries = 0])
  /\ UNCHANGED vars

\* A signal moved a version, or the approval's expiry has come.
WaitIsOver(t) ==
  \/ wf[t].changed
  \/ wf[t].kind = "approval" /\ \E g \in OpsOf(wf[t].active) : Undispatched(g) /\ gitop[g].lapsed

EndWait(t) ==
  /\ At(t, "wait")
  /\ WaitIsOver(t)
  /\ Goto(t, "observe")
  /\ UNCHANGED vars

\* The user opened the browser panel of a handoff on a paused workspace.
HandoffWake(t) ==
  /\ At(t, "wait")
  /\ wf[t].kind = "question"
  /\ wf[t].wake
  /\ Becomes(t, [wf[t] EXCEPT !.pc = "prepare", !.next = "observe",
                                        !.tries = 0, !.wake = FALSE])
  /\ UNCHANGED vars

\* One idle period without an answer.  (A second pause of a paused workspace,
\* which the workflow does not ask for, would change nothing.)
WaitPause(t) ==
  /\ At(t, "wait")
  /\ ~wf[t].changed
  /\ wf[t].kind = "question" => ~wf[t].wake
  /\ Begin(t, "pause")
  /\ UNCHANGED vars

Resume(t) ==
  /\ At(t, "resume")
  /\ IF wf[t].kind = "approval"
     THEN ResumeApproval(wf[t].active) \/ (~run[wf[t].active].approvalWait /\ UNCHANGED vars)
     ELSE ResumeQuestions(wf[t].active) \/ (~run[wf[t].active].questionWait /\ UNCHANGED vars)
  /\ Begin(t, "execute")

(***************************************************************************)
(* lifecycleTransition: pauses (idle, or of a waiting run) and deletion.   *)
(***************************************************************************)
AfterPause(t) == IF wf[t].active = None THEN Begin(t, "rest") ELSE Begin(t, "observe")

\* There is nothing to pause, or a waiting run went on meanwhile.
PauseNothing(t) ==
  /\ At(t, "pause")
  /\ \/ workspace[t].state \in {"absent", "deleted"}
     \/ wf[t].active # None /\ ~Waiting(wf[t].active)
  /\ AfterPause(t)
  /\ UNCHANGED vars

PauseBegin(t) ==
  /\ At(t, "pause")
  /\ wf[t].active # None => Waiting(wf[t].active)
  /\ \/ BeginTransition(t, "paused")
     \/ /\ workspace[t].state \notin {"absent", "deleted"}
        /\ workspace[t].target = "paused"
        /\ UNCHANGED vars
  /\ Goto(t, "cleanup")

PauseDone(t) ==
  /\ At(t, "cleanup")
  /\ \E missing \in BOOLEAN : Cleanup(t, wf[t].active, missing)
  /\ AfterPause(t)

PauseDeferred(t) ==
  /\ At(t, "cleanup")
  /\ CleanupBlocked(t, wf[t].active)
  /\ AfterPause(t)
  /\ UNCHANGED vars

DeleteBegin(t) ==
  /\ At(t, "delete")
  /\ \/ /\ workspace[t].state \in {"absent", "deleted"}
        /\ Goto(t, "purge")
        /\ UNCHANGED vars
     \/ /\ BeginTransition(t, "deleted")
        /\ Goto(t, "deleting")
     \/ /\ workspace[t].state \notin {"absent", "deleted"}
        /\ workspace[t].target = "deleted"
        /\ Goto(t, "deleting")
        /\ UNCHANGED vars

DeleteWorkspace(t) ==
  /\ At(t, "deleting")
  /\ \E missing \in BOOLEAN : Cleanup(t, None, missing)
  /\ Goto(t, "purge")

\* The thread's rows are gone and the workflow returns.
Purge(t) ==
  /\ At(t, "purge")
  /\ PurgeThread(t)
  /\ wf' = [wf EXCEPT ![t] = [Fresh EXCEPT !.pc = "gone"]]
(***************************************************************************)
(* Failure, cancellation and the finalizer.                                *)
(***************************************************************************)
Preparing == {"prepare", "workspace", "ensure", "claim", "ready"}
OfRun     == Preparing \cup {"execute", "replace", "observe", "status", "told", "wait",
                             "resume", "pause", "cleanup"}
Activities == OfRun \ {"observe", "told", "wait"}

\* (fault) off by two
MayRetryMore(t) == wf[t].tries <= MaxTries

MayRetry(t) == wf[t].tries < MaxTries - 1

\* The activity of the run is tried again from its start.
Retry(t) ==
  /\ wf[t].active # None
  /\ wf[t].pc \in Activities
  /\ MayRetry(t)
  /\ Becomes(t, [wf[t] EXCEPT
       !.pc = CASE @ \in Preparing -> "prepare"
                [] @ = "cleanup" -> "pause"
                [] @ = "replace" -> IF wf[t].attempt = None THEN "prepare" ELSE "execute"
                [] OTHER -> @,
       !.tries = @ + 1, !.attempt = None])
  /\ UNCHANGED vars

\* (fault) the run is left to itself
FailAndLeave(t) == Leave(t)

\* The activity has failed for good: the run is finalized.  A wake for a
\* handoff is tried until the question is answered.
Fail(t) ==
  IF wf[t].pc \in Preparing \cup {"replace"} /\ wf[t].next = "observe"
  THEN Begin(t, IF wf[t].changed THEN "observe" ELSE "prepare")
  ELSE Begin(t, "finalize")

GiveUp(t) ==
  /\ wf[t].active # None
  /\ wf[t].pc \in Activities
  /\ Fail(t)
  /\ UNCHANGED vars

\* Bounds: an activity that finds no unused attempt or generation fails.
Exhausted(t) ==
  /\ \/ /\ At(t, "claim") \/ (At(t, "execute") /\ wf[t].attempt = None)
        /\ Unused(wf[t].active) = {}
     \/ At(t, "replace") /\ workspace[t].generation = MaxGeneration
  /\ Fail(t)
  /\ UNCHANGED vars

\* An idle pause that keeps failing gives way to a new run only.
IdlePauseFails(t) ==
  /\ wf[t].pc \in {"pause", "cleanup"}
  /\ wf[t].active = None
  /\ wf[t].pending # << >>
  /\ Begin(t, "rest")
  /\ UNCHANGED vars

\* The scope of the run is cancelled: what it awaits ends.
Abort(t) ==
  /\ wf[t].active # None
  /\ wf[t].pc \in OfRun
  /\ wf[t].cancelling
  /\ Begin(t, "finalize")
  /\ UNCHANGED vars

\* finalizeRunDurably, retried until it succeeds.
Finalize(t) ==
  /\ At(t, "finalize")
  /\ FinishRun(wf[t].active) \/ (~IsActive(wf[t].active) /\ UNCHANGED vars)
  /\ Leave(t)

(***************************************************************************)
(* The whole system.                                                       *)
(***************************************************************************)
\* What users do through the API.
UserNext ==
  /\ \/ SubmitNext
     \/ QueueNext
     \/ \E r \in Message : RequestCancel(r)
     \/ \E q \in Question : Answer(q)
     \/ \E g \in GitOp, d \in {"approved", "rejected"} : Decide(g, d)
     \/ \E t \in Thread : DeleteThread(t) \/ RequestWake(t)
  /\ UNCHANGED wf

Expiry(g) == Lapse(g) /\ UNCHANGED wf

\* Steps a running worker takes sooner or later.
Progress(t) ==
  \/ TakeDeletion(t) \/ TakeRun(t) \/ TakeWake(t) \/ EndRest(t) \/ WakeWorkspace(t)
  \/ PrepareEnded(t) \/ PrepareCancelled(t) \/ PrepareStart(t) \/ PrepareSupersede(t)
  \/ PrepareWorkspace(t) \/ PrepareEnsure(t) \/ PrepareClaim(t) \/ PrepareReady(t)
  \/ ExecuteEnded(t) \/ ExecuteAwaits(t) \/ ExecuteBegin(t) \/ ExecuteStep(t)
  \/ ExecuteReturns(t) \/ ExecuteReprepare(t) \/ Replace(t)
  \/ Exhausted(t)
  \/ Observe(t) \/ StatusExpire(t) \/ StatusPending(t) \/ StatusSettled(t)
  \/ ToldPending(t) \/ EndWait(t) \/ HandoffWake(t) \/ Resume(t)
  \/ PauseNothing(t) \/ PauseBegin(t) \/ PauseDone(t) \/ PauseDeferred(t)
  \/ DeleteBegin(t) \/ DeleteWorkspace(t) \/ Purge(t) \/ Finalize(t)

\* Timers nobody waits for, and failures.
Chance(t) ==
  \/ TakePause(t) \/ PauseAgain(t) \/ WaitPause(t) \/ Quarantine(t)
  \/ Retry(t) \/ GiveUp(t) \/ IdlePauseFails(t)

WorkflowNext ==
  \/ UserNext
  \/ \E g \in GitOp : Expiry(g)
  \/ \E o \in outbox : Deliver(o) \/ SignalTwice(o)
  \/ \E t \in Thread : Progress(t) \/ Chance(t) \/ Abort(t)

\* The dispatcher reads the outbox in order and retries every row with backoff
\* (stated by type: rows of other types do not keep one waiting), Temporal keeps scheduling a
\* workflow's activities, a cancelled scope ends what it awaits, time passes.
Fairness ==
  /\ \A type \in OutboxType : WF_allvars(\E o \in outbox : o.type = type /\ Deliver(o))
  /\ \A t \in Thread : WF_allvars(Progress(t)) /\ WF_allvars(Abort(t))
  /\ \A g \in GitOp : WF_allvars(Expiry(g))

WorkflowSpec == WorkflowInit /\ [][WorkflowNext]_allvars /\ Fairness

(***************************************************************************)
(* Properties.                                                             *)
(***************************************************************************)
\* Accepted work is never orphaned: an active run is still to be signalled, is
\* waiting in its workflow, or is the run the workflow works on.
ActiveRunIsDriven ==
  \A r \in AllActiveRuns :
    \/ [type |-> "run.requested", thread |-> ThreadOf(r), run |-> r] \in outbox
    \/ \E i \in DOMAIN wf[ThreadOf(r)].pending : wf[ThreadOf(r)].pending[i] = r
    \/ wf[ThreadOf(r)].active = r

\* A session works in a workspace that is there: no pause, wake or deletion of
\* the workflow gets between a preparation and the end of the session.
SessionHasWorkspace ==
  \A t \in Thread :
    (/\ At(t, "execute") /\ wf[t].attempt # None
     /\ session[wf[t].active][wf[t].attempt].phase = "open")
      => workspace[t].state = "running" /\ workspace[t].target = None

\* A run does not stay active for ever, unless it asks the user something and
\* gets no answer: crashes, retries, pauses and lost races on the way to an
\* answer or an expiry all end in a terminal status.
RunsEnd ==
  \A r \in Message : []<>(~IsActive(r) \/ PendingQuestions(r) # {})

\* A cancelled run ends, whatever it was doing or waiting for.
CancelledRunsEnd ==
  \A r \in Message : (IsActive(r) /\ run[r].cancel) ~> ~IsActive(r)

\* Both, of runs that wait for a person on the way.
WaitingRunsEnd == RunsEnd /\ CancelledRunsEnd

\* backend-contract.md:55 on a deleted thread: "The thread workflow deletes the
\* workspace through the guarded cleanup path, then purges the rows and exits".
DeletedIsPurged ==
  \A t \in Thread : thread[t].state = "deleted" ~> thread[t].state = "purged"
=============================================================================
