----------------------- MODULE ThreadWorkflow_proofs ------------------------
(***************************************************************************)
(* Theorems about the workflow on top of the store: its steps are          *)
(* transactions of the store, no accepted run is ever without a workflow   *)
(* that is to drive it, and sessions work in a workspace that is there.    *)
(***************************************************************************)
EXTENDS ThreadWorkflow, ThreadLifecycle_proofs

(***************************************************************************)
(* What the transactions do to runs and to the outbox.                     *)
(***************************************************************************)
\* The transactions of users and workflows, but for the purge of a thread.
StoreNext ==
  \/ SubmitNext \/ QueueNext \/ RunNext \/ SessionNext \/ QuestionNext \/ GitNext
  \/ WorkspaceNext \/ UNCHANGED vars
  \/ \E t \in Thread : DeleteThread(t)

\* The row that asks the workflow of r's thread to drive r.
Request(r) == [type |-> "run.requested", thread |-> ThreadOf(r), run |-> r]

\* Runs stay, what becomes active is requested, and only runs are requested.
Advances ==
  /\ outbox \subseteq outbox'
  /\ \A r \in Message : Exists(r) => Exists(r)' /\ ThreadOf(r)' = ThreadOf(r)
  /\ \A r \in Message : IsActive(r)' => IsActive(r) \/ Request(r)' \in outbox'
  /\ \A o \in outbox' : o.type = "run.requested" =>
       o \in outbox \/ (Exists(o.run)' /\ ThreadOf(o.run)' = o.thread)

\* A step that starts no run and adds no request of one.
LEMMA NothingStarts ==
  ASSUME \A r \in Message : Exists(r) => Exists(r)' /\ ThreadOf(r)' = ThreadOf(r),
         \A r \in Message : IsActive(r)' => IsActive(r),
         outbox \subseteq outbox', \A o \in outbox' \ outbox : o.type # "run.requested"
  PROVE  Advances
  BY DEF Advances

\* A step that starts m and requests it.
LEMMA OneStarts ==
  ASSUME \A r \in Message : Exists(r) => Exists(r)' /\ ThreadOf(r)' = ThreadOf(r),
         NEW t \in Thread, NEW m \in Message, Exists(m)', ThreadOf(m)' = t,
         \A r \in Message \ {m} : IsActive(r)' => IsActive(r),
         outbox' = outbox \cup {[type |-> "run.requested", thread |-> t, run |-> m]}
  PROVE  Advances
  BY DEF Advances, Request

\* Runs that exist go on to exist on their thread.
LEMMA RunsStay ==
  ASSUME Typed, Typed', Lifecycle!Safe, StoreNext, NEW r \in Message, Exists(r)
  PROVE  Exists(r)' /\ ThreadOf(r)' = ThreadOf(r)
  <1>1. CASE \E t \in Thread : DeleteThread(t)
    BY <1>1 DEF DeleteThread, Exists, ThreadOf
  <1>2. CASE \/ SubmitNext \/ QueueNext \/ RunNext \/ SessionNext \/ QuestionNext
             \/ GitNext \/ WorkspaceNext \/ UNCHANGED vars
    <2>1. ThreadOf(r)' = ThreadOf(r)
      BY <1>2, RunsKeepThread DEF ThreadOf
    <2>2. [Lifecycle!WorkNext]_(Lifecycle!lifecycle)
      BY <1>2, ThreadStaysSteps
    <2>3. Phase[r] \in Lifecycle!Working \cup Lifecycle!Ended
      BY DEF Exists, Phase, Typed, TypeOK, RunRow, ActiveStatus, TerminalStatus,
         Lifecycle!Working, Lifecycle!Ended
    <2>4. Phase'[r] \in Lifecycle!Working \cup Lifecycle!Ended
      <3> DEFINE Known == Lifecycle!Working \cup Lifecycle!Ended
      <3>1. Phase \in [Message -> Lifecycle!Phases]
        BY DEF Lifecycle!Safe, Lifecycle!Types
      <3>2. ASSUME NEW m \in Message, NEW v, Phase' = [Phase EXCEPT ![m] = v],
                   v \in Known \/ Phase[m] \notin Known
            PROVE  Phase'[r] \in Known
        BY <2>3, <3>1, <3>2
      <3>3. ASSUME NEW t \in Thread, NEW m \in Message,
                   Lifecycle!Accept(t, m) \/ Lifecycle!Restart(t, m)
            PROVE  Phase'[r] \in Known
        BY <3>2, <3>3 DEF Lifecycle!Accept, Lifecycle!Restart, Lifecycle!Working, Lifecycle!Ended
      <3>4. ASSUME NEW m \in Message,
                   Lifecycle!Withdraw(m) \/ Lifecycle!Begin(m) \/ Lifecycle!Cancelled(m)
            PROVE  Phase'[r] \in Known
        BY <3>2, <3>4 DEF Lifecycle!Withdraw, Lifecycle!Begin, Lifecycle!Cancelled,
           Lifecycle!Working, Lifecycle!Ended
      <3>5. ASSUME NEW m \in Message, NEW result \in {"completed", "failed"},
                   Lifecycle!HandOver(m, result)
            PROVE  Phase'[r] \in Known
        <4>1. \/ Phase' = [Phase EXCEPT ![m] = result]
              \/ \E n \in Message : Phase' = [[Phase EXCEPT ![m] = result] EXCEPT ![n] = "queued"]
          BY <3>5 DEF Lifecycle!HandOver, Lifecycle!EndAs, Lifecycle!WaitingOf
        <4> QED BY <2>3, <3>1, <4>1 DEF Lifecycle!Working, Lifecycle!Ended
      <3> QED BY <2>2, <2>3, <3>3, <3>4, <3>5 DEF Lifecycle!WorkNext, Lifecycle!lifecycle
    <2>5. message'[r].state \in {"absent", "plain", "pending", "consumed", "started", "removed", "purged"}
      BY DEF Typed, TypeOK, MessageRow
    <2>6. Exists(r)'
      BY <2>4, <2>5 DEF Phase, Exists, Lifecycle!Working, Lifecycle!Ended
    <2> QED BY <2>1, <2>6
  <1> QED BY <1>1, <1>2 DEF StoreNext

\* The end of a run starts the next of its thread and requests it, or nothing.
LEMMA EndAdvances ==
  ASSUME Typed, Typed', Lifecycle!Safe, StoreNext, NEW r \in Message, IsActive(r),
         NEW status \in {"completed", "failed"}, EndRun(r, status)
  PROVE  Advances
  <1>1. \A s \in Message : Exists(s) => Exists(s)' /\ ThreadOf(s)' = ThreadOf(s)
    BY RunsStay
  <1>2. /\ \A s \in Message \ {r} : Exists(s) => run'[s] = run[s]
        /\ run'[r].status \in TerminalStatus
    <2>1. PICK x \in TerminalStatus : run'[r] = [run[r] EXCEPT !.status = x]
      BY EndRunKeepsRuns
    <2> QED BY <2>1, EndRunKeepsRuns DEF Typed, TypeOK, RunRow
  <1>3. ThreadOf(r) \in Thread /\ run \in [Message -> RunRow]
    BY RunHasThread DEF IsActive, ActiveStatus, Typed, TypeOK
  <1>4. ASSUME UNCHANGED outbox, \A s \in Message \ {r} : run'[s] = run[s]
        PROVE  Advances
    <2>1. \A s \in Message : IsActive(s)' => IsActive(s)
      BY <1>2, <1>4 DEF IsActive, ActiveStatus, TerminalStatus
    <2> QED BY <1>1, <1>4, <2>1, NothingStarts
  <1>5. CASE run' = [run EXCEPT ![r].status = "cancelled"] /\ UNCHANGED outbox
    BY <1>3, <1>4, <1>5
  <1>6. CASE ContinueQueue(ThreadOf(r), [run EXCEPT ![r].status = status])
    <2>1. CASE run' = [run EXCEPT ![r].status = status] /\ UNCHANGED outbox
      BY <1>3, <1>4, <2>1
    <2>2. ASSUME NEW m \in Message, StartNext(ThreadOf(r), m, [run EXCEPT ![r].status = status])
          PROVE  Advances
      <3>1. /\ message[m].state = "pending" /\ message[m].thread = ThreadOf(r)
            /\ message' = [message EXCEPT ![m].state = "started"]
            /\ run' = [[run EXCEPT ![r].status = status] EXCEPT ![m] = QueuedRun]
            /\ outbox' = outbox \cup {[type |-> "run.requested", thread |-> ThreadOf(r), run |-> m]}
        BY <2>2 DEF StartNext, FirstPending, PendingMessages
      <3>2. Exists(m)' /\ run[m].status = "absent"
        BY <1>3, <3>1, QueuedRunRow DEF Exists, Typed, References, StartedHasRun
      <3>3. ThreadOf(m)' = ThreadOf(r)
        BY <3>1, OneMessageState DEF ThreadOf
      <3>4. \A s \in Message \ {m} : IsActive(s)' => IsActive(s)
        BY <1>2, <1>3, <3>1 DEF IsActive, ActiveStatus, TerminalStatus
      <3> QED BY <1>1, <1>3, <3>1, <3>2, <3>3, <3>4, OneStarts
    <2> QED BY <1>6, <2>1, <2>2 DEF ContinueQueue
  <1> QED BY <1>5, <1>6 DEF EndRun

\* A step that leaves the status of every run.
LEMMA StatusKept ==
  ASSUME Typed, Typed', Lifecycle!Safe, StoreNext,
         \A r \in Message : run'[r].status = run[r].status,
         outbox \subseteq outbox', \A o \in outbox' \ outbox : o.type # "run.requested"
  PROVE  Advances
  <1>1. \A r \in Message : IsActive(r)' => IsActive(r)
    BY DEF IsActive
  <1> QED BY <1>1, RunsStay, NothingStarts

\* The same for a step that leaves the outbox, too.
LEMMA NothingRequested ==
  ASSUME Typed, Typed', Lifecycle!Safe, StoreNext,
         \A r \in Message : run'[r].status = run[r].status, UNCHANGED outbox
  PROVE  Advances
  BY StatusKept

\* Every transaction does.
LEMMA StoreAdvances ==
  ASSUME Typed, Typed', Lifecycle!Safe, StoreNext
  PROVE  Advances
  <1> USE DEF Typed, TypeOK
  <1>1. CASE SubmitNext
    <2> PICK t \in Thread, m \in Message, mode \in {"none", "steer", "queue"}, model \in Model,
             A \in SUBSET Available :
          SubmitRun(t, m, mode, model, A) \/ SubmitPending(t, m, mode, model, A)
      BY <1>1 DEF SubmitNext
    <2>1. CASE SubmitRun(t, m, mode, model, A)
      <3>1. Exists(m)'
        BY <2>1, QueuedRunRow DEF SubmitRun, Exists
      <3>2. ThreadOf(m)' = t
        BY <2>1 DEF SubmitRun, ThreadOf, NewMessage
      <3>3. \A r \in Message \ {m} : IsActive(r)' => IsActive(r)
        BY <2>1 DEF SubmitRun, IsActive
      <3> QED BY <2>1, <3>1, <3>2, <3>3, RunsStay, OneStarts DEF SubmitRun
    <2>2. CASE SubmitPending(t, m, mode, model, A)
      BY <2>2, NothingRequested DEF SubmitPending
    <2> QED BY <2>1, <2>2
  <1>2. CASE QueueNext
    <2> PICK t \in Thread, m \in Message :
          StartQueuedMessage(t, m) \/ EditPending(t, m) \/ RemovePending(t, m)
      BY <1>2 DEF QueueNext
    <2>1. CASE StartQueuedMessage(t, m)
      <3>1. /\ message[m].thread = t
            /\ message' = [message EXCEPT ![m].state = "started"]
            /\ run' = [run EXCEPT ![m] = QueuedRun]
            /\ outbox' = outbox \cup {[type |-> "run.requested", thread |-> t, run |-> m]}
        BY <2>1 DEF StartQueuedMessage, StartNext, FirstPending, PendingMessages
      <3>2. Exists(m)' /\ ThreadOf(m)' = t
        BY <3>1, QueuedRunRow, OneMessageState DEF Exists, ThreadOf
      <3>3. \A r \in Message \ {m} : IsActive(r)' => IsActive(r)
        BY <3>1 DEF IsActive
      <3> QED BY <3>1, <3>2, <3>3, RunsStay, OneStarts
    <2>2. CASE EditPending(t, m) \/ RemovePending(t, m)
      BY <2>2, NothingRequested DEF EditPending, RemovePending
    <2> QED BY <2>1, <2>2
  <1>3. CASE RunNext
    <2> PICK r \in Message : RequestCancel(r) \/ StartRun(r) \/ FinishRun(r)
      BY <1>3 DEF RunNext
    <2>1. CASE RequestCancel(r)
      <3>1. \A s \in Message : run'[s].status = run[s].status
        BY <2>1 DEF RequestCancel, RunRow
      <3> QED BY <2>1, <3>1, StatusKept DEF RequestCancel
    <2>2. CASE StartRun(r)
      <3>1. \A s \in Message : IsActive(s)' => IsActive(s)
        BY <2>2 DEF StartRun, IsActive, ActiveStatus
      <3> QED BY <2>2, <3>1, RunsStay, NothingStarts DEF StartRun
    <2>3. CASE FinishRun(r)
      BY <2>3, EndAdvances DEF FinishRun
    <2> QED BY <2>1, <2>2, <2>3
  <1>4. CASE SessionNext
    <2> PICK r \in Message, a \in Attempt :
          \/ CheckWaits(r, a) \/ ClaimExecution(r, a) \/ OpenSession(r, a)
          \/ PollSteers(r, a) \/ SaveTurn(r, a) \/ ConsumeSteer(r, a) \/ CompleteRun(r, a)
      BY <1>4 DEF SessionNext
    <2>1. CASE CheckWaits(r, a) \/ OpenSession(r, a) \/ PollSteers(r, a)
      BY <2>1, NothingRequested DEF CheckWaits, OpenSession, PollSteers
    <2>2. CASE SaveTurn(r, a) \/ ConsumeSteer(r, a)
      BY <2>2, NothingRequested DEF SaveTurn, ConsumeSteer
    <2>3. CASE ClaimExecution(r, a)
      <3>1. run' = [run EXCEPT ![r] = [run[r] EXCEPT !.owner = a,
                                         !.generation = workspace[ThreadOf(r)].generation]]
        BY <2>3 DEF ClaimExecution
      <3>2. \A s \in Message : run'[s].status = run[s].status
        BY <3>1 DEF RunRow
      <3> QED BY <2>3, <3>2, NothingRequested DEF ClaimExecution
    <2>4. CASE CompleteRun(r, a)
      BY <2>4, EndAdvances DEF CompleteRun, MayComplete
    <2> QED BY <2>1, <2>2, <2>3, <2>4
  <1>5. CASE QuestionNext
    <2>1. ASSUME NEW r \in Message, NEW a \in Attempt, NEW q \in Question, NEW handoff \in BOOLEAN,
                 PublishQuestion(r, a, q, handoff)
          PROVE  Advances
      BY <2>1, WaitColumns, NothingRequested DEF PublishQuestion
    <2>2. ASSUME NEW q \in Question, Answer(q)
          PROVE  Advances
      BY <2>2, StatusKept DEF Answer, AnswerOutbox
    <2>3. ASSUME NEW r \in Message, ResumeQuestions(r)
          PROVE  Advances
      BY <2>3, WaitColumns, NothingRequested DEF ResumeQuestions
    <2>4. ASSUME NEW t \in Thread, TakeBrowser(t) \/ HandBack(t)
          PROVE  Advances
      <3>1. CASE TakeBrowser(t)
        BY <3>1, NothingRequested DEF TakeBrowser
      <3>2. CASE HandBack(t)
        BY <3>2, StatusKept, NothingRequested DEF HandBack, AnswerOutbox
      <3> QED BY <2>4, <3>1, <3>2
    <2> QED BY <1>5, <2>1, <2>2, <2>3, <2>4 DEF QuestionNext
  <1>6. CASE GitNext
    <2>1. ASSUME NEW r \in Message, NEW a \in Attempt, NEW g \in GitOp, PublishProposal(r, a, g)
          PROVE  Advances
      BY <2>1, WaitColumns, NothingRequested DEF PublishProposal
    <2>2. ASSUME NEW g \in GitOp, Lapse(g) \/ RejectWrite(g)
          PROVE  Advances
      BY <2>2, NothingRequested DEF Lapse, RejectWrite
    <2>3. ASSUME NEW g \in GitOp, NEW d, Decide(g, d)
          PROVE  Advances
      BY <2>3, StatusKept DEF Decide, DecisionOutbox
    <2>4. ASSUME NEW g \in GitOp, NEW x, ClaimWrite(g, x) \/ FinishWrite(g, x)
          PROVE  Advances
      BY <2>4, NothingRequested DEF ClaimWrite, FinishWrite
    <2>5. ASSUME NEW r \in Message, ExpireApprovals(r)
          PROVE  Advances
      <3>1. UNCHANGED run /\ outbox' = outbox \cup {DecisionOutbox(r)}
        BY <2>5 DEF ExpireApprovals
      <3> QED BY <3>1, StatusKept DEF DecisionOutbox
    <2>6. ASSUME NEW r \in Message, ResumeApproval(r)
          PROVE  Advances
      BY <2>6, WaitColumns, NothingRequested DEF ResumeApproval
    <2> QED BY <1>6, <2>1, <2>2, <2>3, <2>4, <2>5, <2>6 DEF GitNext
  <1>7. CASE WorkspaceNext
    <2>1. ASSUME NEW t \in Thread, CreateWorkspace(t) \/ CancelTransition(t)
          PROVE  Advances
      BY <2>1, NothingRequested DEF CreateWorkspace, CancelTransition
    <2>2. ASSUME NEW t \in Thread, NEW x, UpdateWorkspace(t, x) \/ BeginTransition(t, x)
          PROVE  Advances
      BY <2>2, NothingRequested DEF UpdateWorkspace, BeginTransition
    <2>3. ASSUME NEW t \in Thread, NEW waiting, NEW missing, Cleanup(t, waiting, missing)
          PROVE  Advances
      BY <2>3, NothingRequested DEF Cleanup
    <2>4. ASSUME NEW t \in Thread, ResetWorkspace(t)
          PROVE  Advances
      <3>1. UNCHANGED run /\ outbox \subseteq outbox' /\ \A o \in outbox' \ outbox : o.type = "git.decision"
        BY <2>4 DEF ResetWorkspace
      <3> QED BY <3>1, StatusKept
    <2>5. ASSUME NEW t \in Thread, RequestWake(t)
          PROVE  Advances
      BY <2>5, StatusKept DEF RequestWake
    <2> QED BY <1>7, <2>1, <2>2, <2>3, <2>4, <2>5 DEF WorkspaceNext
  <1>8. CASE UNCHANGED vars
    BY <1>8, NothingRequested DEF vars
  <1>9. CASE \E t \in Thread : DeleteThread(t)
    BY <1>9, StatusKept DEF DeleteThread
  <1> QED BY <1>1, <1>2, <1>3, <1>4, <1>5, <1>6, <1>7, <1>8, <1>9 DEF StoreNext

(***************************************************************************)
(* The inductive invariant of the workflow.                                *)
(***************************************************************************)
AtRest == {"gone", "idle", "wake", "rest", "delete", "deleting", "purge"}
AtRun  == Pc \ (AtRest \cup {"pause", "cleanup"})

\* A workflow has an active run exactly while it works on one.
ActivePc(w) ==
  /\ w.pc \in AtRest => w.active = None
  /\ w.pc \in AtRun => w.active # None
  /\ w.pc = "gone" => w.pending = << >>

\* The runs a workflow will work on: its active run and those signalled.
Carries(w, r) == r = w.active \/ \E i \in DOMAIN w.pending : w.pending[i] = r

\* They exist and are of the workflow's thread.
OwnRuns(t, w) ==
  \A r \in Message : Carries(w, r) => Exists(r) /\ ThreadOf(r) = t

\* While a session may be opened the workspace runs and no transition is due;
\* an attempt outlives its workspace only to have it replaced.
Place(w, row) ==
  /\ w.attempt # None => w.pc \in {"execute", "replace"}
  /\ w.pc = "resume" => row.state = "running" /\ row.target = None
  /\ w.pc = "execute" =>
       /\ row.target = None
       /\ row.state = "running" \/ (row.state = "quarantined" /\ w.attempt = None)
  /\ w.pc = "replace" /\ w.attempt # None => row.state = "quarantined" /\ row.target = None

Workflows ==
  /\ wf \in [Thread -> WorkflowState]
  /\ \A t \in Thread : ActivePc(wf[t]) /\ OwnRuns(t, wf[t]) /\ Place(wf[t], workspace[t])

\* Only runs are requested, of the workflow of their thread.
Requested ==
  \A o \in outbox : o.type = "run.requested" => Exists(o.run) /\ ThreadOf(o.run) = o.thread

(***************************************************************************)
(* The shapes of a workflow's steps.                                       *)
(***************************************************************************)
\* t goes on as w.  It works on no run it did not carry, and drops none that is
\* still active.
GoesOn(t, w) ==
  /\ w \in WorkflowState /\ ActivePc(w) /\ Becomes(t, w)
  /\ \A r \in Message : Carries(w, r) => Carries(wf[t], r)
  /\ \A r \in Message : Carries(wf[t], r) => Carries(w, r) \/ ~IsActive(r)'

Up(t) == workspace[t].state = "running" /\ workspace[t].target = None

\* Other workspaces stay as they are.
Others(t) == \A s \in Thread \ {t} : workspace'[s] = workspace[s]

\* A step of t's workflow.
StepOf(t) ==
  /\ StoreNext /\ Others(t)
  /\ \E w : GoesOn(t, w) /\ Place(w, workspace'[t])

\* It goes on with the same runs.
LEMMA SameRuns ==
  ASSUME Workflows, NEW t \in Thread, NEW w \in WorkflowState, Becomes(t, w),
         w.active = wf[t].active, w.pending = wf[t].pending, w.pc # "gone",
         w.pc \in AtRest => w.active = None, w.pc \in AtRun => w.active # None,
         Place(w, workspace'[t]), StoreNext, Others(t)
  PROVE  StepOf(t)
  <1>1. ActivePc(w)
    BY DEF ActivePc
  <1>2. \A r \in Message : Carries(w, r) <=> Carries(wf[t], r)
    BY DEF Carries
  <1> QED BY <1>1, <1>2 DEF StepOf, GoesOn

\* The next activity starts.
LEMMA BeginStep ==
  ASSUME Workflows, NEW t \in Thread, NEW pc \in Pc \ {"gone"}, Begin(t, pc),
         pc \in AtRest => wf[t].active = None, pc \in AtRun => wf[t].active # None,
         pc \in {"resume", "execute"} => Up(t)', StoreNext, Others(t)
  PROVE  StepOf(t)
  <1> DEFINE w == [wf[t] EXCEPT !.pc = pc, !.tries = 0, !.attempt = None]
  <1>0. wf[t] \in WorkflowState /\ 0 \in 0 .. MaxTries
    BY MaxTriesAssumption DEF Workflows
  <1>1. w \in WorkflowState
    BY <1>0 DEF WorkflowState
  <1>2. w.active = wf[t].active /\ w.pending = wf[t].pending /\ w.pc = pc /\ w.attempt = None
    BY <1>0 DEF WorkflowState
  <1>3. Becomes(t, w)
    BY DEF Begin
  <1> HIDE DEF w
  <1>4. Place(w, workspace'[t])
    BY <1>2 DEF Place, Up
  <1> QED BY <1>1, <1>2, <1>3, <1>4, SameRuns

\* The same activity goes on.
LEMMA GotoStep ==
  ASSUME Workflows, NEW t \in Thread, NEW pc \in Pc \ {"gone", "resume", "execute", "replace"},
         Goto(t, pc), wf[t].pc \notin {"execute", "replace"},
         pc \in AtRest => wf[t].active = None, pc \in AtRun => wf[t].active # None,
         StoreNext, Others(t)
  PROVE  StepOf(t)
  <1> DEFINE w == [wf[t] EXCEPT !.pc = pc]
  <1>0. wf[t] \in WorkflowState
    BY DEF Workflows
  <1>1. w \in WorkflowState
    BY <1>0 DEF WorkflowState
  <1>2. w.active = wf[t].active /\ w.pending = wf[t].pending /\ w.pc = pc /\ w.attempt = None
    BY DEF Workflows, WorkflowState, Place
  <1>3. Becomes(t, w)
    BY DEF Goto
  <1> HIDE DEF w
  <1>4. Place(w, workspace'[t])
    BY <1>2 DEF Place
  <1> QED BY <1>1, <1>2, <1>3, <1>4, SameRuns

\* The run has ended and is left.
LEMMA LeaveStep ==
  ASSUME Workflows, NEW t \in Thread, Leave(t),
         \A r \in Message : r = wf[t].active => ~IsActive(r)',
         StoreNext, Others(t)
  PROVE  StepOf(t)
  <1> DEFINE w == [wf[t] EXCEPT !.pc = "idle", !.active = None, !.attempt = None, !.tries = 0]
  <1>0. wf[t] \in WorkflowState /\ 0 \in 0 .. MaxTries
    BY MaxTriesAssumption DEF Workflows
  <1>1. w \in WorkflowState
    BY <1>0 DEF WorkflowState, Pc
  <1>2. w.active = None /\ w.pending = wf[t].pending /\ w.pc = "idle" /\ w.attempt = None
    BY DEF Workflows, WorkflowState
  <1>3. Becomes(t, w)
    BY DEF Leave
  <1> HIDE DEF w
  <1>4. ActivePc(w) /\ Place(w, workspace'[t])
    BY <1>2 DEF ActivePc, Place, AtRest, AtRun
  <1>5. \A r \in Message : Carries(w, r) => Carries(wf[t], r)
    BY <1>2, NoneAssumption DEF Carries
  <1>6. \A r \in Message : Carries(wf[t], r) => Carries(w, r) \/ ~IsActive(r)'
    BY <1>2, NoneAssumption DEF Carries
  <1> QED BY <1>1, <1>3, <1>4, <1>5, <1>6 DEF StepOf, GoesOn

\* The active run is a row of the store.
LEMMA ActiveRun ==
  ASSUME Workflows, NEW t \in Thread, wf[t].pc \in AtRun \/ wf[t].active # None
  PROVE  /\ wf[t].active \in Message /\ wf[t].active # None
         /\ Exists(wf[t].active) /\ ThreadOf(wf[t].active) = t
  <1>1. wf[t].active # None
    BY DEF Workflows, ActivePc
  <1>2. wf[t].active \in Message
    BY <1>1 DEF Workflows, WorkflowState
  <1> QED BY <1>1, <1>2 DEF Workflows, OwnRuns, Carries

\* Most transactions leave the workspaces.
LEMMA NothingMoves ==
  ASSUME NEW t \in Thread, UNCHANGED vars PROVE StoreNext /\ Others(t) /\ UNCHANGED workspace
  BY DEF StoreNext, Others, vars

(***************************************************************************)
(* The transactions of a workflow are the store's.                         *)
(***************************************************************************)
\* Those on its active run leave the workspaces.
LEMMA RunTransactions ==
  ASSUME NEW r \in Message,
         \/ StartRun(r) \/ FinishRun(r) \/ ExpireApprovals(r) \/ ResumeApproval(r) \/ ResumeQuestions(r)
         \/ \E a \in Attempt :
              \/ CheckWaits(r, a) \/ ClaimExecution(r, a) \/ OpenSession(r, a) \/ PollSteers(r, a)
              \/ SaveTurn(r, a) \/ ConsumeSteer(r, a) \/ CompleteRun(r, a)
              \/ \E g \in GitOp : PublishProposal(r, a, g)
              \/ \E q \in Question, handoff \in BOOLEAN : PublishQuestion(r, a, q, handoff)
  PROVE  StoreNext /\ UNCHANGED workspace
  <1>1. CASE StartRun(r) \/ FinishRun(r)
    BY <1>1 DEF StoreNext, RunNext, StartRun, FinishRun
  <1>2. CASE ExpireApprovals(r) \/ ResumeApproval(r)
    BY <1>2 DEF StoreNext, GitNext, ExpireApprovals, ResumeApproval
  <1>3. CASE ResumeQuestions(r)
    BY <1>3 DEF StoreNext, QuestionNext, ResumeQuestions
  <1>4. ASSUME NEW a \in Attempt, CheckWaits(r, a) \/ ClaimExecution(r, a) \/ OpenSession(r, a)
        PROVE  StoreNext /\ UNCHANGED workspace
    BY <1>4 DEF StoreNext, SessionNext, CheckWaits, ClaimExecution, OpenSession
  <1>5. ASSUME NEW a \in Attempt, PollSteers(r, a) \/ SaveTurn(r, a)
        PROVE  StoreNext /\ UNCHANGED workspace
    <2>1. UNCHANGED workspace
      BY <1>5, Zenon DEF PollSteers, SaveTurn
    <2> QED BY <1>5, <2>1 DEF StoreNext, SessionNext
  <1>6. ASSUME NEW a \in Attempt, ConsumeSteer(r, a) \/ CompleteRun(r, a)
        PROVE  StoreNext /\ UNCHANGED workspace
    <2>1. UNCHANGED workspace
      BY <1>6, Zenon DEF ConsumeSteer, CompleteRun
    <2> QED BY <1>6, <2>1 DEF StoreNext, SessionNext
  <1>7. ASSUME NEW a \in Attempt, NEW g \in GitOp, PublishProposal(r, a, g)
        PROVE  StoreNext /\ UNCHANGED workspace
    BY <1>7 DEF StoreNext, GitNext, PublishProposal
  <1>8. ASSUME NEW a \in Attempt, NEW q \in Question, NEW handoff \in BOOLEAN,
               PublishQuestion(r, a, q, handoff)
        PROVE  StoreNext /\ UNCHANGED workspace
    BY <1>8 DEF StoreNext, QuestionNext, PublishQuestion
  <1> QED BY <1>1, <1>2, <1>3, <1>4, <1>5, <1>6, <1>7, <1>8

\* Those on its workspace leave the others.
LEMMA WorkspaceTransactions ==
  ASSUME Typed, NEW t \in Thread,
         \/ CreateWorkspace(t) \/ CancelTransition(t) \/ ResetWorkspace(t)
         \/ \E state \in {"provisioning", "running", "quarantined"} : UpdateWorkspace(t, state)
         \/ \E target \in {"paused", "deleted"} : BeginTransition(t, target)
         \/ \E waiting \in Message \cup {None}, missing \in BOOLEAN : Cleanup(t, waiting, missing)
  PROVE  StoreNext /\ Others(t)
  <1>1. StoreNext
    BY DEF StoreNext, WorkspaceNext
  <1>2. Others(t)
    <2>1. workspace \in [Thread -> WorkspaceRow]
      BY DEF Typed, TypeOK
    <2>2. CASE CreateWorkspace(t) \/ CancelTransition(t) \/ ResetWorkspace(t)
      BY <2>1, <2>2 DEF CreateWorkspace, CancelTransition, ResetWorkspace, Others
    <2>3. ASSUME NEW x, UpdateWorkspace(t, x) \/ BeginTransition(t, x)
          PROVE  Others(t)
      BY <2>1, <2>3 DEF UpdateWorkspace, BeginTransition, Others
    <2>4. ASSUME NEW waiting, NEW missing, Cleanup(t, waiting, missing)
          PROVE  Others(t)
      BY <2>1, <2>4 DEF Cleanup, Others
    <2> QED BY <2>2, <2>3, <2>4
  <1> QED BY <1>1, <1>2

\* A run that is finished is active no more.
LEMMA FinishEnds ==
  ASSUME Typed, NEW r \in Message, FinishRun(r)
  PROVE  ~IsActive(r)'
  <1>1. PICK x \in TerminalStatus : run'[r] = [run[r] EXCEPT !.status = x]
    BY EndRunKeepsRuns DEF FinishRun
  <1> QED BY <1>1 DEF Typed, TypeOK, RunRow, IsActive, ActiveStatus, TerminalStatus

\* The run is prepared and executed once more.
LEMMA PreparedAgain ==
  ASSUME Workflows, NEW t \in Thread, wf[t].pc \in AtRun, StoreNext, Others(t),
         Reprepare(t), ~wf[t].recovering
  PROVE  StepOf(t)
  <1> DEFINE w == [wf[t] EXCEPT !.pc = "prepare", !.next = "execute", !.tries = 0,
                                !.attempt = None, !.recovering = TRUE]
  <1>0. wf[t] \in WorkflowState /\ 0 \in 0 .. MaxTries
    BY MaxTriesAssumption DEF Workflows
  <1>1. w \in WorkflowState
    BY <1>0 DEF WorkflowState, Pc
  <1>2. w.active = wf[t].active /\ w.pending = wf[t].pending /\ w.pc = "prepare" /\ w.attempt = None
    BY <1>0 DEF WorkflowState
  <1>3. Becomes(t, w)
    BY DEF Reprepare
  <1> HIDE DEF w
  <1>4. Place(w, workspace'[t])
    BY <1>2 DEF Place
  <1> QED BY <1>1, <1>2, <1>3, <1>4, SameRuns, ActiveRun DEF AtRest

(***************************************************************************)
(* The steps of the workflow, by what it is at.                            *)
(***************************************************************************)
\* The main loop takes a run from the signalled ones when it works on none.
LEMMA TakeRunStep ==
  ASSUME Workflows, NEW t \in Thread, TakeRun(t)
  PROVE  StepOf(t)
  <1> DEFINE w == [wf[t] EXCEPT
       !.pc = "prepare", !.next = "execute", !.active = Head(wf[t].pending),
       !.pending = Tail(@), !.attempt = None, !.tries = 0,
       !.recovering = FALSE, !.cancelling = FALSE]
             q == wf[t].pending
  <1>1. wf[t] \in WorkflowState /\ 0 \in 0 .. MaxTries
    BY MaxTriesAssumption DEF Workflows
  <1>2. wf[t].pc = "idle" /\ wf[t].active = None /\ q # << >> /\ q \in Seq(Message)
    BY <1>1 DEF TakeRun, At, Workflows, ActivePc, AtRest, WorkflowState
  <1>3. Head(q) \in Message /\ Tail(q) \in Seq(Message)
    BY <1>2
  <1>4. w \in WorkflowState
    BY <1>1, <1>3 DEF WorkflowState, Pc
  <1>5. /\ w.pc = "prepare" /\ w.active = Head(q) /\ w.pending = Tail(q) /\ w.attempt = None
        /\ Becomes(t, w) /\ UNCHANGED vars
    BY <1>1 DEF WorkflowState, TakeRun
  <1> HIDE DEF w
  <1>6. ActivePc(w) /\ Place(w, workspace'[t])
    BY <1>3, <1>5, NoneAssumption DEF ActivePc, Place, AtRest, AtRun, Pc
  <1>7. \A r \in Message : Carries(w, r) <=> Carries(wf[t], r)
    <2> SUFFICES ASSUME NEW r \in Message PROVE Carries(w, r) <=> Carries(wf[t], r)
      OBVIOUS
    <2>1. r = Head(q) <=> r = q[1]
      BY <1>2
    <2>2. DOMAIN q = 1 .. Len(q) /\ DOMAIN Tail(q) = 1 .. Len(q) - 1 /\ Len(q) \in Nat \ {0}
      BY <1>2
    <2>3. \A i \in DOMAIN Tail(q) : Tail(q)[i] = q[i + 1]
      BY <1>2
    <2>4. (\E i \in DOMAIN q : q[i] = r) <=> r = q[1] \/ \E i \in DOMAIN Tail(q) : Tail(q)[i] = r
      <3>1. ASSUME NEW i \in DOMAIN q, q[i] = r, i # 1
            PROVE  \E j \in DOMAIN Tail(q) : Tail(q)[j] = r
        <4>1. i - 1 \in DOMAIN Tail(q) /\ Tail(q)[i - 1] = q[i]
          BY <2>2, <2>3, <3>1
        <4> QED BY <3>1, <4>1
      <3>2. ASSUME NEW i \in DOMAIN Tail(q), Tail(q)[i] = r
            PROVE  \E j \in DOMAIN q : q[j] = r
        BY <2>2, <2>3, <3>2
      <3>3. 1 \in DOMAIN q
        BY <2>2
      <3> QED BY <3>1, <3>2, <3>3
    <2>5. r # None
      BY NoneAssumption
    <2> QED BY <1>2, <1>5, <2>1, <2>4, <2>5 DEF Carries
  <1> QED BY <1>4, <1>5, <1>6, <1>7, NothingMoves DEF StepOf, GoesOn

\* The rest of the main loop.
LEMMA LoopStep ==
  ASSUME Typed, Workflows, NEW t \in Thread,
         \/ TakeDeletion(t) \/ TakeWake(t) \/ TakePause(t) \/ EndRest(t) \/ PauseAgain(t)
         \/ WakeWorkspace(t)
  PROVE  StepOf(t)
  <1>1. ASSUME wf[t].pc \in AtRest PROVE wf[t].active = None
    BY <1>1 DEF Workflows, ActivePc
  <1>2. CASE TakeDeletion(t) \/ TakePause(t)
    <2>1. PICK pc \in {"delete", "pause"} : Begin(t, pc)
      BY <1>2 DEF TakeDeletion, TakePause
    <2> QED BY <1>1, <1>2, <2>1, BeginStep, NothingMoves
            DEF TakeDeletion, TakePause, At, Pc, AtRest, AtRun
  <1>3. CASE TakeWake(t)
    <2> DEFINE w == [wf[t] EXCEPT !.pc = "wake", !.wake = FALSE]
    <2>1. wf[t] \in WorkflowState
      BY DEF Workflows
    <2>2. w \in WorkflowState
      BY <2>1 DEF WorkflowState, Pc
    <2>3. w.active = wf[t].active /\ w.pending = wf[t].pending /\ w.pc = "wake" /\ w.attempt = None
      BY <1>3, <2>1 DEF WorkflowState, TakeWake, At, Workflows, Place
    <2>4. Becomes(t, w)
      BY <1>3 DEF TakeWake
    <2> HIDE DEF w
    <2>5. Place(w, workspace'[t])
      BY <2>3 DEF Place
    <2> QED BY <1>1, <1>3, <2>2, <2>3, <2>4, <2>5, SameRuns, NothingMoves
            DEF TakeWake, At, AtRest, AtRun
  <1>4. CASE EndRest(t) \/ PauseAgain(t)
    BY <1>1, <1>4, GotoStep, NothingMoves DEF EndRest, PauseAgain, At, Pc, AtRest, AtRun
  <1>5. CASE WakeWorkspace(t)
    <2>1. StoreNext /\ Others(t)
      BY <1>5, WorkspaceTransactions, NothingMoves DEF WakeWorkspace
    <2> QED BY <1>1, <1>5, <2>1, GotoStep DEF WakeWorkspace, At, Pc, AtRest, AtRun
  <1> QED BY <1>2, <1>3, <1>4, <1>5

\* The preparation of a workspace.
LEMMA PrepareStep ==
  ASSUME Typed, Workflows, NEW t \in Thread,
         \/ PrepareEnded(t) \/ PrepareCancelled(t) \/ PrepareStart(t) \/ PrepareSupersede(t)
         \/ PrepareWorkspace(t) \/ PrepareEnsure(t) \/ PrepareClaim(t) \/ PrepareReady(t)
  PROVE  StepOf(t)
  <1> DEFINE r == wf[t].active
  <1>0. wf[t] \in WorkflowState
    BY DEF Workflows
  <1>1. wf[t].pc \in {"prepare", "workspace", "ensure", "claim", "ready"}
    BY DEF PrepareEnded, PrepareCancelled, PrepareStart, PrepareSupersede, PrepareWorkspace,
       PrepareEnsure, PrepareClaim, PrepareReady, At
  <1>2. wf[t].pc \in AtRun
    BY <1>1 DEF AtRun, AtRest, Pc
  <1>3. r \in Message /\ r # None
    BY <1>2, ActiveRun
  <1> HIDE DEF r
  <1>4. ASSUME NotPrepared(t), StoreNext, Others(t), \A x \in Message : x = r => ~IsActive(x)'
        PROVE  StepOf(t)
    <2>1. CASE Begin(t, "observe")
      BY <1>3, <1>4, <2>1, BeginStep DEF r, Pc, AtRest
    <2>2. CASE Leave(t)
      BY <1>4, <2>2, LeaveStep DEF r
    <2> QED BY <1>4, <2>1, <2>2 DEF NotPrepared
  <1>5. CASE PrepareEnded(t)
    <2>1. \A x \in Message : x = r => ~IsActive(x)'
      BY <1>5 DEF PrepareEnded, r, IsActive, vars
    <2> QED BY <1>4, <1>5, <2>1, NothingMoves DEF PrepareEnded
  <1>6. CASE PrepareCancelled(t)
    <2>1. FinishRun(r) /\ NotPrepared(t)
      BY <1>6 DEF PrepareCancelled, r
    <2> QED BY <1>3, <1>4, <2>1, FinishEnds, RunTransactions DEF Others
  <1>7. CASE PrepareStart(t)
    <2>1. StoreNext /\ Others(t)
      BY <1>3, <1>7, RunTransactions, NothingMoves DEF PrepareStart, Others, r
    <2> QED BY <1>1, <1>3, <1>7, <2>1, GotoStep DEF PrepareStart, Pc, AtRest, r
  <1>8. CASE PrepareSupersede(t)
    <2>1. StoreNext /\ Others(t)
      BY <1>8, WorkspaceTransactions DEF PrepareSupersede
    <2>2. Becomes(t, wf[t])
      BY <1>0, <1>8 DEF PrepareSupersede, Becomes, Workflows
    <2>3. Place(wf[t], workspace'[t])
      BY <1>8 DEF PrepareSupersede, At, Workflows, Place
    <2> QED BY <1>0, <1>1, <1>2, <1>3, <2>1, <2>2, <2>3, SameRuns DEF AtRun, r
  <1>9. CASE PrepareWorkspace(t)
    <2>1. StoreNext /\ Others(t)
      BY <1>9, WorkspaceTransactions, NothingMoves DEF PrepareWorkspace
    <2> QED BY <1>1, <1>3, <1>9, <2>1, GotoStep DEF PrepareWorkspace, Pc, AtRest, r
  <1>10. CASE PrepareEnsure(t)
    <2>1. StoreNext /\ Others(t)
      BY <1>10, WorkspaceTransactions, NothingMoves DEF PrepareEnsure
    <2> QED BY <1>1, <1>3, <1>10, <2>1, GotoStep DEF PrepareEnsure, Pc, AtRest, r
  <1>11. CASE PrepareClaim(t)
    <2>1. ClaimExecution(r, NextAttempt(r)) /\ NextAttempt(r) \in Attempt /\ Goto(t, "ready")
      BY <1>11 DEF PrepareClaim, r, NextAttempt, Unused
    <2>2. StoreNext /\ Others(t)
      BY <1>3, <2>1, RunTransactions DEF Others
    <2> QED BY <1>1, <1>3, <2>1, <2>2, GotoStep DEF Pc, AtRest, r
  <1>12. CASE PrepareReady(t)
    <2>1. StoreNext /\ Others(t)
      BY <1>12, WorkspaceTransactions DEF PrepareReady
    <2>2. workspace'[t].state = "running" /\ workspace'[t].target = None
      BY <1>12 DEF PrepareReady, UpdateWorkspace, Typed, TypeOK, WorkspaceRow
    <2>3. wf[t].next \in {"execute", "resume", "observe"}
      BY <1>0 DEF WorkflowState
    <2>4. PICK pc \in {"execute", "resume", "observe"} : Begin(t, pc)
      BY <1>12, <2>3 DEF PrepareReady, Prepared
    <2> QED BY <1>3, <2>1, <2>2, <2>4, BeginStep DEF Pc, AtRest, Up, r
  <1> QED BY <1>5, <1>6, <1>7, <1>8, <1>9, <1>10, <1>11, <1>12

\* The run is executed.
LEMMA ExecutionStep ==
  ASSUME Typed, Workflows, NEW t \in Thread,
         \/ ExecuteEnded(t) \/ ExecuteAwaits(t) \/ ExecuteBegin(t) \/ ExecuteStep(t)
         \/ ExecuteReturns(t) \/ ExecuteReprepare(t)
  PROVE  StepOf(t)
  <1> DEFINE r == wf[t].active
  <1>0. wf[t] \in WorkflowState /\ 0 \in 0 .. MaxTries
    BY MaxTriesAssumption DEF Workflows
  <1>1. wf[t].pc = "execute"
    BY DEF ExecuteEnded, ExecuteAwaits, ExecuteBegin, ExecuteStep, ExecuteReturns,
       ExecuteReprepare, At
  <1>2. wf[t].pc \in AtRun
    BY <1>1 DEF AtRun, AtRest, Pc
  <1>3. r \in Message /\ r # None
    BY <1>2, ActiveRun
  <1>4. Place(wf[t], workspace[t])
    BY DEF Workflows
  <1> HIDE DEF r
  <1>5. ASSUME Leave(t), UNCHANGED vars, ~IsActive(r)
        PROVE  StepOf(t)
    <2>1. \A x \in Message : x = r => ~IsActive(x)'
      BY <1>5 DEF IsActive, vars
    <2> QED BY <1>5, <2>1, LeaveStep, NothingMoves DEF r
  <1>6. ASSUME Await(t), UNCHANGED vars
        PROVE  StepOf(t)
    <2> DEFINE kind == WaitKind(r)
               w == [wf[t] EXCEPT !.pc = "observe", !.kind = kind, !.attempt = None, !.tries = 0]
    <2>1. kind \in {"approval", "question"}
      BY DEF WaitKind
    <2> HIDE DEF kind
    <2>2. w \in WorkflowState
      BY <1>0, <2>1 DEF WorkflowState, Pc
    <2>3. w.active = r /\ w.pending = wf[t].pending /\ w.pc = "observe" /\ w.attempt = None
      BY <1>0 DEF WorkflowState, r
    <2>4. Becomes(t, w)
      BY <1>6 DEF Await, kind, r
    <2> HIDE DEF w
    <2>5. Place(w, workspace'[t])
      BY <2>3 DEF Place
    <2> QED BY <1>3, <1>6, <2>2, <2>3, <2>4, <2>5, SameRuns, NothingMoves DEF r, AtRest
  <1>7. CASE ExecuteEnded(t) \/ ExecuteAwaits(t)
    BY <1>5, <1>6, <1>7 DEF ExecuteEnded, ExecuteAwaits, r
  <1>8. CASE ExecuteReturns(t)
    BY <1>5, <1>6, <1>8 DEF ExecuteReturns, r
  <1>9. CASE ExecuteBegin(t)
    <2> DEFINE a == NextAttempt(r)
               w == [wf[t] EXCEPT !.attempt = a]
    <2>1. CheckWaits(r, a) /\ a \in Attempt /\ wf[t].attempt = None /\ Becomes(t, w)
      BY <1>9 DEF ExecuteBegin, r, NextAttempt, Unused, Becomes
    <2> HIDE DEF a
    <2>2. w \in WorkflowState
      BY <1>0, <2>1 DEF WorkflowState
    <2>3. w.active = r /\ w.pending = wf[t].pending /\ w.pc = "execute"
      BY <1>0, <1>1 DEF WorkflowState, r
    <2> HIDE DEF w
    <2>4. StoreNext /\ UNCHANGED workspace
      BY <1>3, <2>1, RunTransactions
    <2>5. workspace[t].state # "quarantined" /\ workspace[t].target = None
      BY <1>2, <2>1, ActiveRun DEF CheckWaits, r
    <2>6. Place(w, workspace'[t])
      BY <1>1, <1>4, <2>3, <2>4, <2>5 DEF Place
    <2> QED BY <1>3, <2>1, <2>2, <2>3, <2>4, <2>6, SameRuns DEF Others, r, AtRest
  <1>10. CASE ExecuteStep(t)
    <2>1. wf[t].attempt \in Attempt
      BY <1>0, <1>10 DEF ExecuteStep, WorkflowState
    <2>2. StoreNext /\ UNCHANGED workspace
      BY <1>3, <1>10, <2>1, RunTransactions DEF ExecuteStep, r
    <2>3. Becomes(t, wf[t])
      BY <1>10 DEF ExecuteStep, Becomes, Workflows
    <2>4. Place(wf[t], workspace'[t])
      BY <1>4, <2>2
    <2> QED BY <1>0, <1>1, <1>3, <2>2, <2>3, <2>4, SameRuns DEF Others, r, AtRest
  <1>11. CASE ExecuteReprepare(t)
    <2>1. Reprepare(t) /\ UNCHANGED vars
      BY <1>11 DEF ExecuteReprepare
    <2>2. CASE Begin(t, "finalize")
      BY <1>3, <2>1, <2>2, BeginStep, NothingMoves DEF Pc, AtRest, r
    <2>3. CASE ~wf[t].recovering
      BY <1>2, <2>1, <2>3, PreparedAgain, NothingMoves
    <2> QED BY <2>1, <2>2, <2>3 DEF Reprepare
  <1> QED BY <1>7, <1>8, <1>9, <1>10, <1>11

\* A workspace is given up or replaced, an activity is tried again or given up.
LEMMA FailureStep ==
  ASSUME Typed, Workflows, NEW t \in Thread,
         \/ Quarantine(t) \/ Replace(t) \/ Retry(t) \/ GiveUp(t) \/ Exhausted(t)
         \/ IdlePauseFails(t) \/ Abort(t) \/ Finalize(t)
  PROVE  StepOf(t)
  <1> DEFINE r == wf[t].active
  <1>0. wf[t] \in WorkflowState /\ 0 \in 0 .. MaxTries
    BY MaxTriesAssumption DEF Workflows
  <1>1. Place(wf[t], workspace[t]) /\ workspace[t] \in WorkspaceRow
    BY DEF Workflows, Typed, TypeOK
  <1> HIDE DEF r
  <1>2. ASSUME r # None, NEW pc \in {"observe", "prepare", "finalize"}, Begin(t, pc),
               StoreNext, Others(t)
        PROVE  StepOf(t)
    BY <1>2, BeginStep DEF Pc, AtRest, r
  <1>3. ASSUME r # None, Fail(t), UNCHANGED vars
        PROVE  StepOf(t)
    <2>1. PICK pc \in {"observe", "prepare", "finalize"} : Begin(t, pc)
      BY <1>3 DEF Fail
    <2> QED BY <1>2, <1>3, <2>1, NothingMoves
  <1>4. CASE Quarantine(t)
    <2> DEFINE w == [wf[t] EXCEPT !.pc = "replace"]
    <2>1. w \in WorkflowState
      BY <1>0 DEF WorkflowState, Pc
    <2>2. w.active = r /\ w.pending = wf[t].pending /\ w.pc = "replace" /\ w.attempt = wf[t].attempt
      BY <1>0 DEF WorkflowState, r
    <2>3. wf[t].pc \in {"workspace", "ready", "execute"} /\ Becomes(t, w)
      BY <1>4 DEF Quarantine, At, Goto
    <2> HIDE DEF w
    <2>4. StoreNext /\ Others(t)
      BY <1>4, WorkspaceTransactions, NothingMoves DEF Quarantine
    <2>5. workspace'[t].state = "quarantined" /\ workspace'[t].target = workspace[t].target
      <3>1. workspace \in [Thread -> WorkspaceRow]
        BY DEF Typed, TypeOK
      <3> QED BY <1>4, <3>1 DEF Quarantine, UpdateWorkspace, WorkspaceRow, vars
    <2>6. Place(w, workspace'[t])
      BY <1>1, <2>2, <2>3, <2>5 DEF Place
    <2>7. r # None
      BY <2>3, ActiveRun DEF r, AtRun, AtRest, Pc
    <2> QED BY <2>1, <2>2, <2>3, <2>4, <2>6, <2>7, SameRuns DEF r, AtRest
  <1>5. CASE Replace(t)
    <2>1. StoreNext /\ Others(t)
      BY <1>5, WorkspaceTransactions DEF Replace
    <2>2. wf[t].pc \in AtRun /\ r # None
      BY <1>5, ActiveRun DEF Replace, At, AtRun, AtRest, Pc, r
    <2>3. CASE Begin(t, "prepare")
      BY <1>2, <2>1, <2>2, <2>3
    <2>4. CASE Begin(t, "finalize")
      BY <1>2, <2>1, <2>2, <2>4
    <2>5. CASE ~wf[t].recovering /\ Reprepare(t)
      BY <2>1, <2>2, <2>5, PreparedAgain
    <2> QED BY <1>5, <2>3, <2>4, <2>5 DEF Replace, Reprepare
  <1>6. CASE Retry(t)
    <2> DEFINE old == wf[t].pc
               pc == CASE old \in Preparing -> "prepare"
                       [] old = "cleanup" -> "pause"
                       [] old = "replace" -> IF wf[t].attempt = None THEN "prepare" ELSE "execute"
                       [] OTHER -> old
               w == [wf[t] EXCEPT !.pc = pc, !.tries = @ + 1, !.attempt = None]
    <2>1. old \in Activities /\ old \in Pc /\ old # "gone"
      BY <1>6 DEF Retry, Activities, OfRun, Preparing, Pc
    <2>2. /\ pc \in Pc \ AtRest
          /\ pc \in {"resume", "status"} => pc = old
          /\ pc = "execute" => old = "execute" \/ (old = "replace" /\ wf[t].attempt # None)
          /\ pc # "replace"
      BY <2>1 DEF Activities, OfRun, Preparing, Pc, AtRest
    <2> HIDE DEF pc
    <2>3. wf[t].tries + 1 \in 0 .. MaxTries
      BY <1>0, <1>6, MaxTriesAssumption DEF Retry, MayRetry, WorkflowState
    <2>4. w \in WorkflowState
      BY <1>0, <2>2, <2>3 DEF WorkflowState
    <2>5. w.active = r /\ w.pending = wf[t].pending /\ w.pc = pc /\ w.attempt = None
      BY <1>0 DEF WorkflowState, r
    <2>6. Becomes(t, w) /\ UNCHANGED vars /\ r # None
      BY <1>6 DEF Retry, pc, r
    <2> HIDE DEF w
    <2>7. Place(w, workspace[t])
      BY <1>1, <2>2, <2>5 DEF Place
    <2>8. Place(w, workspace'[t])
      BY <2>6, <2>7, NothingMoves
    <2> QED BY <2>2, <2>4, <2>5, <2>6, <2>8, SameRuns, NothingMoves DEF r, AtRest
  <1>7. CASE GiveUp(t)
    BY <1>3, <1>7 DEF GiveUp, r
  <1>8. CASE Exhausted(t)
    <2>1. r # None
      BY <1>8, ActiveRun DEF Exhausted, At, AtRun, AtRest, Pc, r
    <2> QED BY <1>3, <1>8, <2>1 DEF Exhausted
  <1>9. CASE IdlePauseFails(t)
    BY <1>9, BeginStep, NothingMoves DEF IdlePauseFails, Pc, AtRest, AtRun
  <1>10. CASE Abort(t)
    BY <1>2, <1>10, NothingMoves DEF Abort, r
  <1>11. CASE Finalize(t)
    <2>1. r \in Message
      BY <1>11, ActiveRun DEF Finalize, At, AtRun, AtRest, Pc, r
    <2>2. CASE FinishRun(r)
      <3>1. \A x \in Message : x = r => ~IsActive(x)'
        BY <2>2, FinishEnds
      <3> QED BY <1>11, <2>1, <2>2, <3>1, RunTransactions, LeaveStep DEF Finalize, Others, r
    <2>3. CASE ~IsActive(r) /\ UNCHANGED vars
      <3>1. \A x \in Message : x = r => ~IsActive(x)'
        BY <2>3 DEF IsActive, vars
      <3> QED BY <1>11, <2>3, <3>1, NothingMoves, LeaveStep DEF Finalize, r
    <2> QED BY <1>11, <2>2, <2>3 DEF Finalize, r
  <1> QED BY <1>4, <1>5, <1>6, <1>7, <1>8, <1>9, <1>10, <1>11

\* The run waits for a person.
LEMMA WaitStep ==
  ASSUME Typed, Workflows, NEW t \in Thread,
         \/ Observe(t) \/ StatusExpire(t) \/ StatusPending(t) \/ StatusSettled(t)
         \/ ToldPending(t) \/ EndWait(t) \/ HandoffWake(t) \/ WaitPause(t) \/ Resume(t)
  PROVE  StepOf(t)
  <1> DEFINE r == wf[t].active
  <1>0. wf[t] \in WorkflowState /\ 0 \in 0 .. MaxTries
    BY MaxTriesAssumption DEF Workflows
  <1>1. wf[t].pc \in {"observe", "status", "told", "wait", "resume"}
    BY DEF Observe, StatusExpire, StatusPending, StatusSettled, Read, ToldPending, EndWait,
       HandoffWake, WaitPause, Resume, At
  <1>2. r \in Message /\ r # None
    BY <1>1, ActiveRun DEF r, AtRun, AtRest, Pc
  <1>3. wf[t].attempt = None
    BY <1>1 DEF Workflows, Place
  <1> HIDE DEF r
  <1>4. ASSUME NEW w \in WorkflowState, Becomes(t, w), UNCHANGED vars,
               w.active = r, w.pending = wf[t].pending, w.attempt = None,
               w.pc \in {"status", "prepare"}
        PROVE  StepOf(t)
    <2>1. Place(w, workspace'[t])
      BY <1>4 DEF Place
    <2> QED BY <1>2, <1>4, <2>1, SameRuns, NothingMoves DEF r, AtRest
  <1>5. CASE Observe(t)
    <2> DEFINE w == [wf[t] EXCEPT !.pc = "status", !.changed = FALSE]
    <2>1. w \in WorkflowState
      BY <1>0 DEF WorkflowState, Pc
    <2>2. w.active = r /\ w.pending = wf[t].pending /\ w.pc = "status" /\ w.attempt = None
      BY <1>0, <1>3 DEF WorkflowState, r
    <2>3. Becomes(t, w) /\ UNCHANGED vars
      BY <1>5 DEF Observe
    <2> HIDE DEF w
    <2> QED BY <1>4, <2>1, <2>2, <2>3
  <1>6. CASE StatusExpire(t)
    <2>1. StoreNext /\ UNCHANGED workspace
      BY <1>2, <1>6, RunTransactions DEF StatusExpire, r
    <2>2. Becomes(t, wf[t])
      BY <1>6 DEF StatusExpire, Becomes, Workflows
    <2>3. Place(wf[t], workspace'[t])
      BY <2>1 DEF Workflows
    <2> QED BY <1>0, <1>1, <1>2, <2>1, <2>2, <2>3, SameRuns DEF Others, r, AtRest
  <1>7. CASE StatusPending(t) \/ ToldPending(t) \/ EndWait(t)
    <2>1. PICK pc \in {"told", "wait", "observe"} : Goto(t, pc)
      BY <1>7 DEF StatusPending, ToldPending, KeepWaiting, EndWait
    <2>2. UNCHANGED vars
      BY <1>7 DEF StatusPending, ToldPending, EndWait
    <2> QED BY <1>1, <1>2, <2>1, <2>2, GotoStep, NothingMoves DEF Pc, AtRest, r
  <1>8. CASE StatusSettled(t)
    <2> DEFINE w == [wf[t] EXCEPT !.pc = "prepare", !.next = "resume", !.tries = 0]
    <2>1. w \in WorkflowState
      BY <1>0 DEF WorkflowState, Pc
    <2>2. w.active = r /\ w.pending = wf[t].pending /\ w.pc = "prepare" /\ w.attempt = None
      BY <1>0, <1>3 DEF WorkflowState, r
    <2>3. Becomes(t, w) /\ UNCHANGED vars
      BY <1>8 DEF StatusSettled
    <2> HIDE DEF w
    <2> QED BY <1>4, <2>1, <2>2, <2>3
  <1>9. CASE HandoffWake(t)
    <2> DEFINE w == [wf[t] EXCEPT !.pc = "prepare", !.next = "observe", !.tries = 0, !.wake = FALSE]
    <2>1. w \in WorkflowState
      BY <1>0 DEF WorkflowState, Pc
    <2>2. w.active = r /\ w.pending = wf[t].pending /\ w.pc = "prepare" /\ w.attempt = None
      BY <1>0, <1>3 DEF WorkflowState, r
    <2>3. Becomes(t, w) /\ UNCHANGED vars
      BY <1>9 DEF HandoffWake
    <2> HIDE DEF w
    <2> QED BY <1>4, <2>1, <2>2, <2>3
  <1>10. CASE WaitPause(t)
    BY <1>10, <1>2, BeginStep, NothingMoves DEF WaitPause, Pc, AtRest, AtRun
  <1>11. CASE Resume(t)
    <2>1. StoreNext /\ UNCHANGED workspace
      BY <1>2, <1>11, RunTransactions, NothingMoves DEF Resume, r
    <2>2. Begin(t, "execute") /\ Up(t)'
      <3>1. Up(t)
        BY <1>11 DEF Resume, At, Workflows, Place, Up
      <3> QED BY <1>11, <2>1, <3>1 DEF Resume, Up
    <2> QED BY <1>2, <2>1, <2>2, BeginStep DEF Others, Pc, AtRest, r
  <1> QED BY <1>5, <1>6, <1>7, <1>8, <1>9, <1>10, <1>11

\* The workspace is paused or deleted.
LEMMA TransitionStep ==
  ASSUME Typed, Workflows, NEW t \in Thread,
         \/ PauseNothing(t) \/ PauseBegin(t) \/ PauseDone(t) \/ PauseDeferred(t)
         \/ DeleteBegin(t) \/ DeleteWorkspace(t)
  PROVE  StepOf(t)
  <1> DEFINE r == wf[t].active
  <1>0. wf[t] \in WorkflowState
    BY DEF Workflows
  <1>1. r \in Message \cup {None}
    BY <1>0 DEF WorkflowState
  <1>2. wf[t].pc \in {"delete", "deleting"} => r = None
    BY DEF Workflows, ActivePc, AtRest
  <1> HIDE DEF r
  <1>3. ASSUME AfterPause(t), StoreNext, Others(t)
        PROVE  StepOf(t)
    <2>1. CASE r = None /\ Begin(t, "rest")
      BY <1>3, <2>1, BeginStep DEF Pc, AtRest, AtRun, r
    <2>2. CASE r # None /\ Begin(t, "observe")
      BY <1>3, <2>2, BeginStep DEF Pc, AtRest, r
    <2> QED BY <1>3, <2>1, <2>2 DEF AfterPause, r
  <1>4. CASE PauseNothing(t) \/ PauseDeferred(t)
    BY <1>3, <1>4, NothingMoves DEF PauseNothing, PauseDeferred
  <1>5. CASE PauseBegin(t)
    <2>1. StoreNext /\ Others(t)
      BY <1>5, WorkspaceTransactions, NothingMoves DEF PauseBegin
    <2> QED BY <1>5, <2>1, GotoStep DEF PauseBegin, At, Pc, AtRest, AtRun
  <1>6. CASE PauseDone(t)
    <2>1. StoreNext /\ Others(t)
      BY <1>1, <1>6, WorkspaceTransactions DEF PauseDone, r
    <2> QED BY <1>3, <1>6, <2>1 DEF PauseDone
  <1>7. CASE DeleteBegin(t)
    <2>1. StoreNext /\ Others(t)
      BY <1>7, WorkspaceTransactions, NothingMoves DEF DeleteBegin
    <2>2. PICK pc \in {"purge", "deleting"} : Goto(t, pc)
      BY <1>7 DEF DeleteBegin
    <2> QED BY <1>2, <1>7, <2>1, <2>2, GotoStep DEF DeleteBegin, At, Pc, AtRest, AtRun, r
  <1>8. CASE DeleteWorkspace(t)
    <2>1. StoreNext /\ Others(t)
      BY <1>8, WorkspaceTransactions DEF DeleteWorkspace
    <2> QED BY <1>2, <1>8, <2>1, GotoStep DEF DeleteWorkspace, At, Pc, AtRest, AtRun, r
  <1> QED BY <1>4, <1>5, <1>6, <1>7, <1>8

(***************************************************************************)
(* Every step keeps the invariant.                                         *)
(***************************************************************************)
\* A transaction under which each workflow goes on with its runs.
LEMMA TransactionKeeps ==
  ASSUME Typed, Typed', Lifecycle!Safe, Workflows, Requested, ActiveRunIsDriven, StoreNext,
         wf' \in [Thread -> WorkflowState],
         \A s \in Thread : ActivePc(wf'[s]) /\ Place(wf'[s], workspace'[s]),
         \A s \in Thread, r \in Message : Carries(wf'[s], r) => Carries(wf[s], r),
         \A s \in Thread, r \in Message :
           Carries(wf[s], r) => Carries(wf'[s], r) \/ ~IsActive(r)'
  PROVE  Workflows' /\ Requested' /\ ActiveRunIsDriven'
  <1>1. Advances
    BY StoreAdvances
  <1>2. Workflows'
    <2> SUFFICES ASSUME NEW s \in Thread PROVE OwnRuns(s, wf[s])'
      BY DEF Workflows
    <2> SUFFICES ASSUME NEW r \in Message, Carries(wf'[s], r)
                 PROVE  Exists(r)' /\ ThreadOf(r)' = s
      BY DEF OwnRuns, Carries
    <2>1. Exists(r) /\ ThreadOf(r) = s
      BY DEF Workflows, OwnRuns
    <2> QED BY <1>1, <2>1 DEF Advances
  <1>3. Requested'
    <2> SUFFICES ASSUME NEW o \in outbox', o.type = "run.requested"
                 PROVE  Exists(o.run)' /\ ThreadOf(o.run)' = o.thread
      BY DEF Requested, Exists, ThreadOf
    <2>1. CASE o \in outbox
      <3>1. Exists(o.run) /\ ThreadOf(o.run) = o.thread
        BY <2>1 DEF Requested
      <3>2. Exists(o.run)' /\ ThreadOf(o.run)' = ThreadOf(o.run)
        BY <1>1, <3>1 DEF Advances, Exists
      <3> QED BY <3>1, <3>2
    <2>2. CASE o \notin outbox
      BY <1>1, <2>2 DEF Advances
    <2> QED BY <2>1, <2>2
  <1>4. ActiveRunIsDriven'
    <2> SUFFICES ASSUME NEW r \in Message, IsActive(r)'
                 PROVE  Request(r)' \in outbox' \/ Carries(wf'[ThreadOf(r)'], r)
      BY DEF ActiveRunIsDriven, AllActiveRuns, Request, Carries
    <2>1. CASE ~IsActive(r)
      BY <1>1, <2>1 DEF Advances
    <2>2. CASE IsActive(r)
      <3>1. Exists(r) /\ ThreadOf(r) \in Thread
        BY <2>2, RunHasThread DEF Exists, IsActive, ActiveStatus
      <3>2. ThreadOf(r)' = ThreadOf(r) /\ outbox \subseteq outbox'
        BY <1>1, <3>1 DEF Advances
      <3>3. Request(r) \in outbox \/ Carries(wf[ThreadOf(r)], r)
        BY <2>2 DEF ActiveRunIsDriven, AllActiveRuns, Request, Carries
      <3>4. Request(r)' = Request(r)
        BY <3>2 DEF Request
      <3>5. Carries(wf[ThreadOf(r)], r) => Carries(wf'[ThreadOf(r)], r)
        BY <3>1
      <3> QED BY <3>2, <3>3, <3>4, <3>5
    <2> QED BY <2>1, <2>2
  <1> QED BY <1>2, <1>3, <1>4

\* A workflow's step.
LEMMA WorkflowKeeps ==
  ASSUME Typed, Typed', Lifecycle!Safe, Workflows, Requested, ActiveRunIsDriven,
         NEW t \in Thread, StepOf(t)
  PROVE  Workflows' /\ Requested' /\ ActiveRunIsDriven'
  <1> PICK w : GoesOn(t, w) /\ Place(w, workspace'[t])
    BY DEF StepOf
  <1>1. wf \in [Thread -> WorkflowState] /\ wf' = [wf EXCEPT ![t] = w] /\ w \in WorkflowState
    BY DEF Workflows, GoesOn, Becomes
  <1>2. wf' \in [Thread -> WorkflowState] /\ wf'[t] = w /\ \A s \in Thread \ {t} : wf'[s] = wf[s]
    BY <1>1
  <1>3. \A s \in Thread : ActivePc(wf'[s]) /\ Place(wf'[s], workspace'[s])
    <2> SUFFICES ASSUME NEW s \in Thread PROVE ActivePc(wf'[s]) /\ Place(wf'[s], workspace'[s])
      OBVIOUS
    <2>1. CASE s = t
      BY <1>2, <2>1 DEF GoesOn
    <2>2. CASE s # t
      <3>1. wf'[s] = wf[s] /\ workspace'[s] = workspace[s]
        BY <1>2, <2>2 DEF StepOf, Others
      <3> QED BY <3>1 DEF Workflows
    <2> QED BY <2>1, <2>2
  <1>4. \A s \in Thread, r \in Message :
          /\ Carries(wf'[s], r) => Carries(wf[s], r)
          /\ Carries(wf[s], r) => Carries(wf'[s], r) \/ ~IsActive(r)'
    <2> SUFFICES ASSUME NEW s \in Thread, NEW r \in Message
                 PROVE  /\ Carries(wf'[s], r) => Carries(wf[s], r)
                        /\ Carries(wf[s], r) => Carries(wf'[s], r) \/ ~IsActive(r)'
      OBVIOUS
    <2>1. CASE s = t
      BY <1>2, <2>1 DEF GoesOn
    <2>2. CASE s # t
      BY <1>2, <2>2
    <2> QED BY <2>1, <2>2
  <1> QED BY <1>2, <1>3, <1>4, TransactionKeeps DEF StepOf

\* What users and time do leaves the workflows and the workspaces.
LEMMA OutsideKeeps ==
  ASSUME Typed, Typed', Lifecycle!Safe, Workflows, Requested, ActiveRunIsDriven,
         StoreNext, UNCHANGED << wf, workspace >>
  PROVE  Workflows' /\ Requested' /\ ActiveRunIsDriven'
  <1>1. wf' = wf /\ workspace' = workspace
    OBVIOUS
  <1>2. wf' \in [Thread -> WorkflowState]
    BY <1>1 DEF Workflows
  <1>3. \A s \in Thread : ActivePc(wf'[s]) /\ Place(wf'[s], workspace'[s])
    BY <1>1 DEF Workflows
  <1>4. \A s \in Thread, r \in Message :
          /\ Carries(wf'[s], r) => Carries(wf[s], r)
          /\ Carries(wf[s], r) => Carries(wf'[s], r) \/ ~IsActive(r)'
    BY <1>1
  <1> QED BY <1>2, <1>3, <1>4, TransactionKeeps

\* The users' transactions.
LEMMA UserTransactions ==
  ASSUME UserNext \/ \E g \in GitOp : Expiry(g)
  PROVE  StoreNext /\ UNCHANGED << wf, workspace >>
  <1>1. UNCHANGED wf
    BY DEF UserNext, Expiry
  <1>2. CASE SubmitNext
    BY <1>1, <1>2 DEF StoreNext, SubmitNext, SubmitRun, SubmitPending
  <1>3. CASE QueueNext
    <2>1. UNCHANGED workspace
      BY <1>3 DEF QueueNext, StartQueuedMessage, EditPending, RemovePending
    <2> QED BY <1>1, <1>3, <2>1 DEF StoreNext
  <1>4. ASSUME NEW r \in Message, RequestCancel(r)
        PROVE  StoreNext /\ UNCHANGED workspace
    BY <1>4 DEF StoreNext, RunNext, RequestCancel
  <1>5. ASSUME NEW q \in Question, Answer(q)
        PROVE  StoreNext /\ UNCHANGED workspace
    BY <1>5 DEF StoreNext, QuestionNext, Answer
  <1>6. ASSUME NEW g \in GitOp, Lapse(g) \/ \E d \in {"approved", "rejected"} : Decide(g, d)
        PROVE  StoreNext /\ UNCHANGED workspace
    BY <1>6 DEF StoreNext, GitNext, Lapse, Decide
  <1>7. ASSUME NEW t \in Thread, DeleteThread(t) \/ RequestWake(t)
        PROVE  StoreNext /\ UNCHANGED workspace
    BY <1>7 DEF StoreNext, WorkspaceNext, DeleteThread, RequestWake
  <1> QED BY <1>1, <1>2, <1>3, <1>4, <1>5, <1>6, <1>7 DEF UserNext, Expiry

\* What a signal does to the workflow that takes it.
LEMMA SignalledWorkflow ==
  ASSUME Typed, Workflows, Requested, NEW o \in outbox
  PROVE  LET w == Signalled(IF wf[o.thread].pc = "gone" THEN Fresh ELSE wf[o.thread], o)
         IN  /\ w \in WorkflowState /\ ActivePc(w) /\ Place(w, workspace[o.thread])
             /\ OwnRuns(o.thread, w)
             /\ \A r \in Message : Carries(wf[o.thread], r) => Carries(w, r)
             /\ o.type = "run.requested" => Carries(w, o.run)
  <1> DEFINE t == o.thread
             v == IF wf[t].pc = "gone" THEN Fresh ELSE wf[t]
             w == Signalled(v, o)
  <1>1. /\ t \in Thread /\ o.run \in Message \cup {None} /\ o.type \in OutboxType
        /\ wf[t] \in WorkflowState /\ ActivePc(wf[t]) /\ OwnRuns(t, wf[t]) /\ Place(wf[t], workspace[t])
    BY DEF Typed, TypeOK, OutboxRow, Workflows
  <1>2. /\ v \in WorkflowState /\ v.pc # "gone" /\ v.active = wf[t].active /\ v.pending = wf[t].pending
        /\ ActivePc(v) /\ Place(v, workspace[t])
    <2>1. CASE wf[t].pc = "gone"
      <3>1. v = Fresh /\ 0 \in 0 .. MaxTries
        BY <2>1, MaxTriesAssumption
      <3>2. Fresh \in WorkflowState
        BY <3>1 DEF Fresh, WorkflowState, Pc
      <3>3. wf[t].active = None /\ wf[t].pending = << >>
        BY <1>1, <2>1 DEF ActivePc, AtRest
      <3> QED BY <3>1, <3>2, <3>3 DEF Fresh, ActivePc, Place, AtRest, AtRun
    <2>2. CASE wf[t].pc # "gone"
      BY <1>1, <2>2
    <2> QED BY <2>1, <2>2
  <1>3. OwnRuns(t, v) /\ \A r \in Message : Carries(v, r) <=> Carries(wf[t], r)
    BY <1>1, <1>2 DEF OwnRuns, Carries
  <1> HIDE DEF t, v
  <1> SUFFICES /\ w \in WorkflowState /\ ActivePc(w) /\ Place(w, workspace[t])
               /\ OwnRuns(t, w)
               /\ \A r \in Message : Carries(v, r) => Carries(w, r)
               /\ o.type = "run.requested" => Carries(w, o.run)
    BY <1>3 DEF t, v
  <1>4. CASE o.type = "run.requested"
    <2>1. o.run \in Message /\ Exists(o.run) /\ ThreadOf(o.run) = t
      BY <1>4 DEF Requested, Exists, t
    <2>2. CASE Carries(v, o.run)
      <3>1. w = v
        BY <1>4, <2>2 DEF Signalled, Carries
      <3> HIDE DEF w
      <3> QED BY <1>2, <1>3, <2>2, <3>1
    <2>3. CASE ~Carries(v, o.run)
      <3> DEFINE q == Append(v.pending, o.run)
      <3>1. w = [v EXCEPT !.pending = q]
        BY <1>4, <2>3 DEF Signalled, Carries
      <3>2. v.pending \in Seq(Message)
        BY <1>2 DEF WorkflowState
      <3>3. q \in Seq(Message)
        BY <2>1, <3>2
      <3>4. \A r : (\E i \in DOMAIN q : q[i] = r) <=> r = o.run \/ \E i \in DOMAIN v.pending : v.pending[i] = r
        <4> DEFINE p == v.pending
        <4>1. /\ Len(p) \in Nat /\ DOMAIN p = 1 .. Len(p) /\ DOMAIN q = 1 .. Len(p) + 1
              /\ q[Len(p) + 1] = o.run /\ \A i \in DOMAIN p : q[i] = p[i]
          BY <2>1, <3>2
        <4> HIDE DEF p, q
        <4>2. Len(p) + 1 \in DOMAIN q /\ \A i \in DOMAIN p : i \in DOMAIN q
          BY <4>1
        <4>3. \A i \in DOMAIN q : i = Len(p) + 1 \/ i \in DOMAIN p
          BY <4>1
        <4>4. \A r : (\E i \in DOMAIN q : q[i] = r) <=> r = o.run \/ \E i \in DOMAIN p : p[i] = r
          BY <4>1, <4>2, <4>3
        <4> QED BY <4>4 DEF p
      <3> HIDE DEF q, w
      <3>5. w \in WorkflowState
        BY <1>2, <3>1, <3>3 DEF WorkflowState
      <3>6. w.pending = q /\ w.pc = v.pc /\ w.active = v.active /\ w.attempt = v.attempt
        BY <1>2, <3>1 DEF WorkflowState
      <3>7. ActivePc(w) /\ Place(w, workspace[t])
        BY <1>2, <3>6 DEF ActivePc, Place
      <3>8. \A r : Carries(w, r) <=> r = o.run \/ Carries(v, r)
        BY <3>4, <3>6 DEF Carries
      <3>9. OwnRuns(t, w)
        BY <1>3, <2>1, <3>8 DEF OwnRuns
      <3> QED BY <3>5, <3>7, <3>8, <3>9
    <2> QED BY <2>2, <2>3
  <1>5. CASE o.type # "run.requested"
    <2>1. /\ w \in WorkflowState
          /\ w.pending = v.pending /\ w.pc = v.pc /\ w.active = v.active /\ w.attempt = v.attempt
      <3>1. o.type \in {"run.cancel", "git.decision", "questions.answer", "workspace.wake", "thread.delete"}
        BY <1>1, <1>5 DEF OutboxType
      <3>2. CASE o.type = "run.cancel"
        <4>1. w = [v EXCEPT !.cancelling = @ \/ o.run = v.active]
          BY <3>2 DEF Signalled
        <4>2. (v.cancelling \/ o.run = v.active) \in BOOLEAN
          OBVIOUS
        <4> QED BY <1>2, <4>1, <4>2 DEF WorkflowState
      <3>3. CASE o.type \in {"git.decision", "questions.answer"}
        BY <1>2, <3>3 DEF Signalled, WorkflowState
      <3>4. CASE o.type = "workspace.wake"
        BY <1>2, <3>4 DEF Signalled, WorkflowState
      <3>5. CASE o.type = "thread.delete"
        BY <1>2, <3>5 DEF Signalled, WorkflowState
      <3> QED BY <3>1, <3>2, <3>3, <3>4, <3>5
    <2> HIDE DEF w
    <2>2. ActivePc(w) /\ Place(w, workspace[t])
      BY <1>2, <2>1 DEF ActivePc, Place
    <2>3. \A r : Carries(w, r) <=> Carries(v, r)
      BY <2>1 DEF Carries
    <2>4. OwnRuns(t, w)
      BY <1>3, <2>3 DEF OwnRuns
    <2> QED BY <1>5, <2>1, <2>2, <2>3, <2>4
  <1> QED BY <1>4, <1>5

\* A signal, and the row that is marked delivered after it or is not.
LEMMA SignalKeeps ==
  ASSUME Typed, Typed', Lifecycle!Safe, Workflows, Requested, ActiveRunIsDriven,
         NEW o \in outbox, Deliver(o) \/ SignalTwice(o)
  PROVE  Workflows' /\ Requested' /\ ActiveRunIsDriven'
  <1> DEFINE t == o.thread
             w == Signalled(IF wf[t].pc = "gone" THEN Fresh ELSE wf[t], o)
  <1>1. /\ w \in WorkflowState /\ ActivePc(w) /\ Place(w, workspace[t]) /\ OwnRuns(t, w)
        /\ \A r \in Message : Carries(wf[t], r) => Carries(w, r)
        /\ o.type = "run.requested" => Carries(w, o.run)
    BY SignalledWorkflow
  <1>2. t \in Thread
    BY DEF Typed, TypeOK, OutboxRow
  <1>3. wf' = [wf EXCEPT ![t] = w]
    BY DEF Deliver, SignalTwice, Signal
  <1>4. UNCHANGED << message, run, workspace >> /\ outbox' \subseteq outbox /\ outbox \subseteq outbox' \cup {o}
    BY DEF Deliver, SignalTwice, MarkDelivered, vars
  <1> HIDE DEF w, t
  <1>5. wf' \in [Thread -> WorkflowState] /\ wf'[t] = w /\ \A s \in Thread \ {t} : wf'[s] = wf[s]
    BY <1>1, <1>2, <1>3 DEF Workflows
  <1>6. \A r : Exists(r)' = Exists(r) /\ ThreadOf(r)' = ThreadOf(r) /\ IsActive(r)' = IsActive(r)
    BY <1>4 DEF Exists, ThreadOf, IsActive
  <1>7. Workflows'
    <2> SUFFICES ASSUME NEW s \in Thread
                 PROVE  ActivePc(wf'[s]) /\ Place(wf'[s], workspace'[s]) /\ OwnRuns(s, wf[s])'
      BY <1>5 DEF Workflows, ActivePc, Place
    <2>1. ActivePc(wf'[s]) /\ Place(wf'[s], workspace[s]) /\ OwnRuns(s, wf'[s])
      <3>1. CASE s = t
        BY <1>1, <1>5, <3>1
      <3>2. CASE s # t
        BY <1>5, <3>2 DEF Workflows
      <3> QED BY <3>1, <3>2
    <2>2. OwnRuns(s, wf[s])'
      BY <1>6, <2>1 DEF OwnRuns, Carries
    <2> QED BY <1>4, <2>1, <2>2
  <1>8. Requested'
    BY <1>4, <1>6 DEF Requested
  <1>9. ActiveRunIsDriven'
    <2> SUFFICES ASSUME NEW r \in Message, IsActive(r)
                 PROVE  Request(r) \in outbox' \/ Carries(wf'[ThreadOf(r)], r)
      BY <1>6 DEF ActiveRunIsDriven, AllActiveRuns, Request, Carries
    <2>1. ThreadOf(r) \in Thread
      BY RunHasThread DEF IsActive, ActiveStatus
    <2>2. Request(r) \in outbox \/ Carries(wf[ThreadOf(r)], r)
      BY DEF ActiveRunIsDriven, AllActiveRuns, Request, Carries
    <2>3. Carries(wf[ThreadOf(r)], r) => Carries(wf'[ThreadOf(r)], r)
      BY <1>1, <1>5, <2>1
    <2>4. ASSUME Request(r) = o PROVE Carries(wf'[ThreadOf(r)], r)
      <3>1. o.type = "run.requested" /\ o.run = r /\ t = ThreadOf(r)
        BY <2>4 DEF Request, t
      <3> QED BY <1>1, <1>5, <3>1
    <2> QED BY <1>4, <2>2, <2>3, <2>4
  <1> QED BY <1>7, <1>8, <1>9

\* The purge takes a thread's runs, requests and workflow together.
LEMMA PurgeKeeps ==
  ASSUME Typed, Typed', Lifecycle!Safe, Workflows, Requested, ActiveRunIsDriven,
         NEW t \in Thread, Purge(t)
  PROVE  Workflows' /\ Requested' /\ ActiveRunIsDriven'
  <1> DEFINE w == [Fresh EXCEPT !.pc = "gone"]
  <1>1. w \in WorkflowState /\ w.pc = "gone" /\ w.active = None /\ w.pending = << >> /\ w.attempt = None
    <2>1. 0 \in 0 .. MaxTries
      BY MaxTriesAssumption
    <2>2. Fresh \in WorkflowState /\ Fresh.active = None /\ Fresh.pending = << >> /\ Fresh.attempt = None
      BY <2>1 DEF Fresh, WorkflowState, Pc
    <2> QED BY <2>2 DEF WorkflowState, Pc
  <1>2. wf' = [wf EXCEPT ![t] = w]
    BY DEF Purge
  <1> HIDE DEF w
  <1>3. wf' \in [Thread -> WorkflowState] /\ wf'[t] = w /\ \A s \in Thread \ {t} : wf'[s] = wf[s]
    BY <1>1, <1>2 DEF Workflows
  <1>4. \A r \in Message : ThreadOf(r) # t =>
          Exists(r)' = Exists(r) /\ ThreadOf(r)' = ThreadOf(r) /\ IsActive(r)' = IsActive(r)
    BY DEF Purge, PurgeThread, Exists, ThreadOf, IsActive
  <1>5. \A r \in Message : ThreadOf(r) = t => ~IsActive(r)'
    BY DEF Purge, PurgeThread, ThreadOf, IsActive, NoRun, ActiveStatus
  <1>6. outbox' = {o \in outbox : o.thread # t}
    BY DEF Purge, PurgeThread
  <1>7. \A s \in Thread \ {t} : workspace'[s] = workspace[s]
    BY DEF Purge, PurgeThread, Typed, TypeOK
  <1>8. Workflows'
    <2>1. ActivePc(w) /\ Place(w, workspace'[t]) /\ \A r \in Message : ~Carries(w, r)
      BY <1>1, NoneAssumption DEF ActivePc, Place, Carries, AtRest, AtRun
    <2> SUFFICES ASSUME NEW s \in Thread
                 PROVE  /\ ActivePc(wf'[s]) /\ Place(wf'[s], workspace'[s])
                        /\ \A r \in Message : Carries(wf'[s], r) => Exists(r)' /\ ThreadOf(r)' = s
      BY <1>3 DEF Workflows, ActivePc, Place, OwnRuns, Carries
    <2>2. CASE s = t
      BY <1>3, <2>1, <2>2
    <2>3. CASE s # t
      BY <1>3, <1>4, <1>7, <2>3 DEF Workflows, OwnRuns
    <2> QED BY <2>2, <2>3
  <1>9. Requested'
    BY <1>4, <1>6 DEF Requested, Exists
  <1>10. ActiveRunIsDriven'
    <2> SUFFICES ASSUME NEW r \in Message, IsActive(r)'
                 PROVE  Request(r)' \in outbox' \/ Carries(wf'[ThreadOf(r)'], r)
      BY DEF ActiveRunIsDriven, AllActiveRuns, Request, Carries
    <2>1. ThreadOf(r) # t /\ IsActive(r) /\ ThreadOf(r)' = ThreadOf(r)
      BY <1>4, <1>5
    <2>2. ThreadOf(r) \in Thread
      BY <2>1, RunHasThread DEF IsActive, ActiveStatus
    <2>3. Request(r) \in outbox \/ Carries(wf[ThreadOf(r)], r)
      BY <2>1 DEF ActiveRunIsDriven, AllActiveRuns, Request, Carries
    <2>4. Request(r)' = Request(r) /\ Request(r).thread = ThreadOf(r)
      BY <2>1 DEF Request
    <2> QED BY <1>3, <1>6, <2>1, <2>2, <2>3, <2>4
  <1> QED BY <1>8, <1>9, <1>10

\* A workflow takes a step of its own or purges its thread.
LEMMA WorkflowSteps ==
  ASSUME Typed, Workflows, NEW t \in Thread, Progress(t) \/ Chance(t) \/ Abort(t)
  PROVE  StepOf(t) \/ Purge(t)
  <1>1. CASE \/ TakeDeletion(t) \/ TakeWake(t) \/ TakePause(t) \/ EndRest(t) \/ PauseAgain(t)
             \/ WakeWorkspace(t) \/ TakeRun(t)
    BY <1>1, LoopStep, TakeRunStep
  <1>2. CASE \/ PrepareEnded(t) \/ PrepareCancelled(t) \/ PrepareStart(t) \/ PrepareSupersede(t)
             \/ PrepareWorkspace(t) \/ PrepareEnsure(t) \/ PrepareClaim(t) \/ PrepareReady(t)
    BY <1>2, PrepareStep
  <1>3. CASE \/ ExecuteEnded(t) \/ ExecuteAwaits(t) \/ ExecuteBegin(t) \/ ExecuteStep(t)
             \/ ExecuteReturns(t) \/ ExecuteReprepare(t)
    BY <1>3, ExecutionStep
  <1>4. CASE \/ Quarantine(t) \/ Replace(t) \/ Retry(t) \/ GiveUp(t) \/ Exhausted(t)
             \/ IdlePauseFails(t) \/ Abort(t) \/ Finalize(t)
    BY <1>4, FailureStep
  <1>5. CASE \/ Observe(t) \/ StatusExpire(t) \/ StatusPending(t) \/ StatusSettled(t)
             \/ ToldPending(t) \/ EndWait(t) \/ HandoffWake(t) \/ WaitPause(t) \/ Resume(t)
    BY <1>5, WaitStep
  <1>6. CASE \/ PauseNothing(t) \/ PauseBegin(t) \/ PauseDone(t) \/ PauseDeferred(t)
             \/ DeleteBegin(t) \/ DeleteWorkspace(t)
    BY <1>6, TransitionStep
  <1> QED BY <1>1, <1>2, <1>3, <1>4, <1>5, <1>6 DEF Progress, Chance

\* What the types, the lifecycle, the workflows and the outbox keep together.
Driven == Typed /\ Lifecycle!Safe /\ Workflows /\ Requested /\ ActiveRunIsDriven

LEMMA InitDriven == WorkflowInit => Driven
  <1> SUFFICES ASSUME WorkflowInit PROVE Driven
    OBVIOUS
  <1> DEFINE w == [Fresh EXCEPT !.pc = "gone"]
  <1>1. Init /\ Typed /\ Lifecycle!Safe
    BY InitTyped, InitLifecycle, LifecycleConstants, Lifecycle!InitSafe DEF WorkflowInit
  <1>2. w \in WorkflowState /\ w.pc = "gone" /\ w.active = None /\ w.pending = << >> /\ w.attempt = None
    <2>1. 0 \in 0 .. MaxTries
      BY MaxTriesAssumption
    <2>2. Fresh \in WorkflowState /\ Fresh.active = None /\ Fresh.pending = << >> /\ Fresh.attempt = None
      BY <2>1 DEF Fresh, WorkflowState, Pc
    <2> QED BY <2>2 DEF WorkflowState, Pc
  <1>3. wf = [t \in Thread |-> w]
    BY DEF WorkflowInit
  <1> HIDE DEF w
  <1>4. Workflows
    BY <1>2, <1>3, NoneAssumption DEF Workflows, ActivePc, OwnRuns, Carries, Place, AtRest, AtRun
  <1>5. Requested /\ ActiveRunIsDriven
    BY <1>1 DEF Init, Requested, ActiveRunIsDriven, AllActiveRuns, IsActive, NoRun, ActiveStatus
  <1> QED BY <1>1, <1>4, <1>5 DEF Driven

\* A step of the whole system is a transaction of the store.
LEMMA NextIsTransaction == Driven /\ [WorkflowNext]_allvars => [Next]_vars
  <1> SUFFICES ASSUME Driven, [WorkflowNext]_allvars PROVE [Next]_vars
    OBVIOUS
  <1>1. ASSUME StoreNext PROVE [Next]_vars
    BY <1>1 DEF StoreNext, Next, DeletionNext
  <1>2. CASE UserNext \/ \E g \in GitOp : Expiry(g)
    BY <1>1, <1>2, UserTransactions
  <1>3. ASSUME NEW o \in outbox, Deliver(o) \/ SignalTwice(o)
        PROVE  [Next]_vars
    BY <1>3 DEF Deliver, SignalTwice, Next, DispatchNext
  <1>4. ASSUME NEW t \in Thread, Progress(t) \/ Chance(t) \/ Abort(t)
        PROVE  [Next]_vars
    <2>1. CASE StepOf(t)
      BY <1>1, <2>1 DEF StepOf
    <2>2. CASE Purge(t)
      BY <2>2 DEF Purge, Next, DeletionNext
    <2> QED BY <1>4, <2>1, <2>2, WorkflowSteps DEF Driven
  <1>5. CASE UNCHANGED allvars
    BY <1>5 DEF allvars
  <1> QED BY <1>2, <1>3, <1>4, <1>5 DEF WorkflowNext

LEMMA NextDriven == Driven /\ [WorkflowNext]_allvars => Driven'
  <1> SUFFICES ASSUME Driven, [WorkflowNext]_allvars PROVE Driven'
    OBVIOUS
  <1>1. Typed /\ Typed' /\ Lifecycle!Safe
    BY NextIsTransaction, NextTyped DEF Driven
  <1>2. Lifecycle!Safe'
    BY <1>1, NextIsTransaction, NextIsLifecycle, LifecycleConstants, Lifecycle!NextSafe
  <1>3. Workflows /\ Requested /\ ActiveRunIsDriven
    BY DEF Driven
  <1>4. Workflows' /\ Requested' /\ ActiveRunIsDriven'
    <2>1. CASE UserNext \/ \E g \in GitOp : Expiry(g)
      BY <1>1, <1>3, <2>1, UserTransactions, OutsideKeeps
    <2>2. ASSUME NEW o \in outbox, Deliver(o) \/ SignalTwice(o)
          PROVE  Workflows' /\ Requested' /\ ActiveRunIsDriven'
      BY <1>1, <1>3, <2>2, SignalKeeps
    <2>3. ASSUME NEW t \in Thread, Progress(t) \/ Chance(t) \/ Abort(t)
          PROVE  Workflows' /\ Requested' /\ ActiveRunIsDriven'
      BY <1>1, <1>3, <2>3, WorkflowSteps, WorkflowKeeps, PurgeKeeps
    <2>4. CASE UNCHANGED allvars
      <3>1. StoreNext /\ UNCHANGED << wf, workspace >>
        BY <2>4 DEF allvars, vars, StoreNext
      <3> QED BY <1>1, <1>3, <3>1, OutsideKeeps
    <2> QED BY <2>1, <2>2, <2>3, <2>4 DEF WorkflowNext
  <1> QED BY <1>1, <1>2, <1>4 DEF Driven

LEMMA AlwaysDriven == WorkflowSpec => []Driven
  BY InitDriven, NextDriven, PTL DEF WorkflowSpec

(***************************************************************************)
(* The theorems.                                                           *)
(***************************************************************************)
\* Workflows, activities and the dispatcher do with the rows what the store's
\* transactions allow in any order (workflows.ts and activities.ts call no
\* other writes): what is proved of the store holds of the whole system.
THEOREM WorkflowsRunOnTheStore == WorkflowSpec => Spec
  <1>1. WorkflowInit => Init
    BY DEF WorkflowInit
  <1> QED BY <1>1, NextIsTransaction, AlwaysDriven, PTL DEF WorkflowSpec, Spec

\* Every workflow keeps values its variables allow, a queue of run ids included.
THEOREM WorkflowTypeCorrect == WorkflowSpec => []WorkflowTypeOK
  <1>1. Driven => WorkflowTypeOK
    BY DEF Driven, Typed, Workflows, WorkflowTypeOK
  <1> QED BY <1>1, AlwaysDriven, PTL

\* No accepted run is orphaned: between the transaction that starts it and the
\* one that ends it there is always its outbox row, its place in the workflow's
\* queue or the workflow that works on it, however often rows are signalled
\* again, activities fail, scopes are cancelled and workflows return.
THEOREM AcceptedRunsAreDriven == WorkflowSpec => []ActiveRunIsDriven
  <1>1. Driven => ActiveRunIsDriven
    BY DEF Driven
  <1> QED BY <1>1, AlwaysDriven, PTL

\* A session is open only in a workspace that runs and is not about to go: no
\* pause, wake, quarantine or deletion of its workflow gets in between.
THEOREM SessionsHaveWorkspaces == WorkflowSpec => []SessionHasWorkspace
  <1>1. Driven => SessionHasWorkspace
    BY DEF Driven, Workflows, Place, SessionHasWorkspace, At
  <1> QED BY <1>1, AlwaysDriven, PTL
=============================================================================
