--------------------------- MODULE MCThreadWorkflow -------------------------
(***************************************************************************)
(* Small instances of ThreadWorkflow for TLC.  Each focus leaves out what  *)
(* users do that the properties of its run do not need.                    *)
(***************************************************************************)
EXTENDS ThreadWorkflow, TLC

Submit ==
  \E t \in Thread, m \in Message, model \in Model :
    LET mode == IF thread[t].state = "absent" THEN "none" ELSE "queue"
    IN  SubmitRun(t, m, mode, model, {}) \/ SubmitPending(t, m, mode, model, {})
Cancel == \E r \in Message : RequestCancel(r)

System ==
  \/ \E g \in GitOp : Expiry(g)
  \/ \E o \in outbox : Deliver(o)
  \/ \E t \in Thread : Progress(t) \/ Chance(t) \/ Abort(t)

\* Users submit and cancel.
RunFocus == ((Submit \/ Cancel) /\ UNCHANGED wf) \/ System

\* Users submit, cancel, answer and wake the workspace.
PersonFocus ==
  \/ /\ \/ Submit \/ Cancel \/ \E t \in Thread : RequestWake(t)
        \/ \E q \in Question : Answer(q)
        \/ \E g \in GitOp, d \in {"approved", "rejected"} : Decide(g, d)
     /\ UNCHANGED wf
  \/ System

\* Users submit, cancel and delete; no activity fails and no signal is repeated.
FaultFreeFocus ==
  \/ (Submit \/ Cancel \/ \E t \in Thread : DeleteThread(t)) /\ UNCHANGED wf
  \/ \E o \in outbox : Deliver(o)
  \/ \E t \in Thread : Progress(t) \/ Abort(t) \/ TakePause(t) \/ PauseAgain(t)

RunSpec       == WorkflowInit /\ [][RunFocus]_allvars /\ Fairness
PersonSpec    == WorkflowInit /\ [][PersonFocus]_allvars /\ Fairness
FaultFreeSpec == WorkflowInit /\ [][FaultFreeFocus]_allvars /\ Fairness
=============================================================================
