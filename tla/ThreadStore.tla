----------------------------- MODULE ThreadStore ----------------------------
(***************************************************************************)
(* The thread store as a whole: every transaction of packages/db/src on    *)
(* threads, in any order that requests, workers and the workflow can issue *)
(* them, and what must hold of the rows whatever that order is.            *)
(***************************************************************************)
EXTENDS ThreadWorkspaces, ThreadApprovals

Init ==
  /\ thread = [t \in Thread |-> NoThread]
  /\ message = [m \in Message |-> NoMessage]
  /\ run = [r \in Message |-> NoRun]
  /\ claim = [r \in Message |-> [a \in Attempt |-> FALSE]]
  /\ session = [r \in Message |-> [a \in Attempt |-> NoSession]]
  /\ checkpoint = [r \in Message |-> << >>]
  /\ question = [q \in Question |-> NoQuestion]
  /\ gitop = [g \in GitOp |-> NoGitOp]
  /\ command = [c \in Command |-> NoCommand]
  /\ workspace = [t \in Thread |-> NoWorkspace]
  /\ attachment = [x \in Attachment |-> [state |-> "ready", message |-> None]]
  /\ outbox = {}

SubmitNext ==
  \E t \in Thread, m \in Message, mode \in {"none", "steer", "queue"},
     model \in Model, A \in SUBSET Available :
       SubmitRun(t, m, mode, model, A) \/ SubmitPending(t, m, mode, model, A)

QueueNext ==
  \E t \in Thread, m \in Message :
    StartQueuedMessage(t, m) \/ EditPending(t, m) \/ RemovePending(t, m)

RunNext ==
  \E r \in Message : RequestCancel(r) \/ StartRun(r) \/ FinishRun(r)

SessionNext ==
  \E r \in Message, a \in Attempt :
    \/ CheckWaits(r, a) \/ ClaimExecution(r, a) \/ OpenSession(r, a)
    \/ PollSteers(r, a) \/ SaveTurn(r, a) \/ ConsumeSteer(r, a) \/ CompleteRun(r, a)

QuestionNext ==
  \/ \E r \in Message, a \in Attempt, q \in Question, handoff \in BOOLEAN :
       PublishQuestion(r, a, q, handoff)
  \/ \E q \in Question : Answer(q)
  \/ \E r \in Message : ResumeQuestions(r)
  \/ \E t \in Thread : TakeBrowser(t) \/ HandBack(t)

GitNext ==
  \/ \E r \in Message, a \in Attempt, g \in GitOp : PublishProposal(r, a, g)
  \/ \E g \in GitOp : \/ Lapse(g) \/ RejectWrite(g)
                      \/ \E d \in {"approved", "rejected"} : Decide(g, d)
                      \/ \E a \in Attempt : ClaimWrite(g, a)
                      \/ \E x \in {"succeeded", "failed", "unknown"} : FinishWrite(g, x)
  \/ \E r \in Message : ExpireApprovals(r) \/ ResumeApproval(r)

CommandNext ==
  \E c \in Command :
    \/ \E r \in Message, a \in Attempt, access \in {"exclusive", "read"} :
         BeginCommand(c, r, a, access)
    \/ AdmitCommand(c) \/ MarkRunning(c) \/ SettleCommand(c) \/ MarkUnknown(c)

WorkspaceNext ==
  \E t \in Thread :
    \/ CreateWorkspace(t) \/ CancelTransition(t) \/ ResetWorkspace(t) \/ RequestWake(t)
    \/ \E state \in {"provisioning", "running", "quarantined"} : UpdateWorkspace(t, state)
    \/ \E target \in {"paused", "deleted"} : BeginTransition(t, target)
    \/ \E waiting \in Message \cup {None}, missing \in BOOLEAN : Cleanup(t, waiting, missing)

DeletionNext == \E t \in Thread : DeleteThread(t) \/ PurgeThread(t)

DispatchNext == \E o \in outbox : MarkDelivered(o)

Next ==
  \/ SubmitNext \/ QueueNext \/ RunNext \/ SessionNext \/ QuestionNext
  \/ GitNext \/ CommandNext \/ WorkspaceNext \/ DeletionNext \/ DispatchNext

Spec == Init /\ [][Next]_vars

(***************************************************************************)
(* Types.                                                                  *)
(***************************************************************************)
\* Every row keeps a value its columns and checks allow.
TypeOK ==
  /\ thread \in [Thread -> ThreadRow]
  /\ message \in [Message -> MessageRow]
  /\ run \in [Message -> RunRow]
  /\ claim \in [Message -> [Attempt -> BOOLEAN]]
  /\ session \in [Message -> [Attempt -> SessionRow]]
  /\ checkpoint \in [Message -> Seq(Entry)]
  /\ question \in [Question -> QuestionRow]
  /\ gitop \in [GitOp -> GitRow]
  /\ command \in [Command -> CommandRow]
  /\ workspace \in [Thread -> WorkspaceRow]
  /\ attachment \in [Attachment -> AttachmentRow]
  /\ outbox \in SUBSET OutboxRow
=============================================================================
