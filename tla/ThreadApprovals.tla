--------------------------- MODULE ThreadApprovals --------------------------
(***************************************************************************)
(* What a run asks of a person, and the hosted browser it may hand over:   *)
(* question-store.ts, threads/browser.ts and git-store.ts.                 *)
(*                                                                         *)
(* A question or a Git proposal is published by the transaction that saves *)
(* the session's last checkpoint; the attempt then ends and the run waits. *)
(***************************************************************************)
EXTENDS ThreadSessions

\* The publishing checkpoint holds the entries of the session and closes it.
SaveAndClose(r, a) ==
  /\ checkpoint' = [checkpoint EXCEPT ![r] = session[r][a].held]
  /\ session' = [session EXCEPT ![r][a].phase = "closed"]

MayPublish(r, a) ==
  /\ session[r][a].phase = "open"
  /\ Owns(r, a)
  /\ IsActive(r)
  /\ ~run[r].cancel

(***************************************************************************)
(* Questions and the browser.                                              *)
(***************************************************************************)
\* setBrowserOwner
BrowserTo(t, owner) == thread' = [thread EXCEPT ![t].browser = owner]

PublishQuestion(r, a, q, handoff) ==
  /\ MayPublish(r, a)
  /\ question[q].state = "absent"
  /\ ~Waiting(r)
  /\ SaveAndClose(r, a)
  /\ question' = [question EXCEPT ![q] =
                    [state |-> "pending", run |-> r, handoff |-> handoff]]
  /\ run' = [run EXCEPT ![r].questionWait = TRUE]
  /\ IF handoff THEN BrowserTo(ThreadOf(r), "user") ELSE UNCHANGED thread
  /\ UNCHANGED << message, claim, gitop, command, workspace, attachment, outbox >>

Answerable(q) ==
  /\ question[q].state = "pending"
  /\ thread[ThreadOf(question[q].run)].state = "live"
  /\ IsActive(question[q].run)
  /\ ~run[question[q].run].cancel

AnswerRow(q) == question' = [question EXCEPT ![q].state = "answered"]

AnswerOutbox(q) ==
  outbox' = outbox \cup {[type |-> "questions.answer",
                          thread |-> ThreadOf(question[q].run), run |-> question[q].run]}

\* answerQuestionInTransaction.  Repeating the same answer changes nothing.
Answer(q) ==
  /\ Answerable(q)
  /\ AnswerRow(q)
  /\ AnswerOutbox(q)
  /\ IF question[q].handoff
     THEN BrowserTo(ThreadOf(question[q].run), "agent") ELSE UNCHANGED thread
  /\ UNCHANGED << message, run, claim, session, checkpoint, gitop, command,
                  workspace, attachment >>

\* resumeQuestionWait
ResumeQuestions(r) ==
  /\ run[r].status # "absent"
  /\ OpenQuestions(r) = {}
  /\ run[r].questionWait
  /\ run' = [run EXCEPT ![r].questionWait = FALSE]
  /\ UNCHANGED << thread, message, claim, session, checkpoint, question, gitop,
                  command, workspace, attachment, outbox >>

Handoffs(t) == {q \in Question : /\ question[q].state = "pending"
                                 /\ question[q].handoff
                                 /\ ThreadOf(question[q].run) = t}

\* changeBrowserOwner: the user takes the browser, or hands it back, which
\* answers a pending handoff first (and fails with it when it cannot).
TakeBrowser(t) ==
  /\ thread[t].state = "live"
  /\ thread[t].browser = "agent"
  /\ BrowserTo(t, "user")
  /\ UNCHANGED << message, run, claim, session, checkpoint, question, gitop,
                  command, workspace, attachment, outbox >>

HandBack(t) ==
  /\ thread[t].state = "live"
  /\ thread[t].browser = "user"
  /\ \/ Handoffs(t) = {} /\ UNCHANGED << question, outbox >>
     \/ \E q \in Handoffs(t) : Answerable(q) /\ AnswerRow(q) /\ AnswerOutbox(q)
  /\ BrowserTo(t, "agent")
  /\ UNCHANGED << message, run, claim, session, checkpoint, gitop, command,
                  workspace, attachment >>

(***************************************************************************)
(* Git proposals.                                                          *)
(***************************************************************************)
PublishProposal(r, a, g) ==
  /\ MayPublish(r, a)
  /\ gitop[g].approval = "absent"
  /\ ~run[r].approvalWait
  /\ SaveAndClose(r, a)
  /\ gitop' = [gitop EXCEPT ![g] =
                 [NoGitOp EXCEPT !.approval = "pending", !.run = r,
                                 !.generation = workspace[ThreadOf(r)].generation]]
  /\ run' = [run EXCEPT ![r].approvalWait = TRUE]
  /\ UNCHANGED << thread, message, claim, question, command, workspace,
                  attachment, outbox >>

\* Time passes the expiry of g.
Lapse(g) ==
  /\ gitop[g].approval # "absent"
  /\ ~gitop[g].lapsed
  /\ gitop' = [gitop EXCEPT ![g].lapsed = TRUE]
  /\ UNCHANGED << thread, message, run, claim, session, checkpoint, question,
                  command, workspace, attachment, outbox >>

\* The run of g may still act on it: active, not cancelled, same filesystem.
Current(g) ==
  /\ IsActive(gitop[g].run)
  /\ ~run[gitop[g].run].cancel
  /\ gitop[g].generation = workspace[ThreadOf(gitop[g].run)].generation

DecisionOutbox(r) == [type |-> "git.decision", thread |-> ThreadOf(r), run |-> r]

\* decision.  Repeating the decision changes nothing.
Decide(g, approval) ==
  /\ gitop[g].approval = "pending"
  /\ ~gitop[g].lapsed
  /\ Current(g)
  /\ gitop' = [gitop EXCEPT ![g].approval = approval]
  /\ outbox' = outbox \cup {DecisionOutbox(gitop[g].run)}
  /\ UNCHANGED << thread, message, run, claim, session, checkpoint, question,
                  command, workspace, attachment >>

\* expire: undispatched operations of r that are stale or late are settled.
Undispatched(g) == gitop[g].approval \in {"pending", "approved"} /\ gitop[g].execution = "not_started"

Due(r) == {g \in OpsOf(r) : Undispatched(g) /\ (~Current(g) \/ gitop[g].lapsed)}

ExpireApprovals(r) ==
  /\ Due(r) # {}
  /\ gitop' = [g \in GitOp |->
                 IF g \in Due(r)
                 THEN [gitop[g] EXCEPT !.approval =
                         IF Current(g) THEN "expired" ELSE "invalidated"]
                 ELSE gitop[g]]
  /\ outbox' = outbox \cup {DecisionOutbox(r)}
  /\ UNCHANGED << thread, message, run, claim, session, checkpoint, question,
                  command, workspace, attachment >>

\* resume
ResumeApproval(r) ==
  /\ run[r].approvalWait
  /\ \A g \in OpsOf(r) : gitop[g].approval # "pending"
  /\ run' = [run EXCEPT ![r].approvalWait = FALSE]
  /\ UNCHANGED << thread, message, claim, session, checkpoint, question, gitop,
                  command, workspace, attachment, outbox >>

Unsettled == {g \in GitOp : gitop[g].execution \in {"executing", "unknown"}}

\* claim, by the attempt a that owns the run: the one dispatch of g.
ClaimWrite(g, a) ==
  /\ gitop[g].approval = "approved"
  /\ gitop[g].execution = "not_started"
  /\ ~gitop[g].lapsed
  /\ Owns(gitop[g].run, a)
  /\ Current(g)
  /\ Unsettled = {}
  /\ gitop' = [gitop EXCEPT ![g].execution = "executing"]
  /\ UNCHANGED << thread, message, run, claim, session, checkpoint, question,
                  command, workspace, attachment, outbox >>

\* finish: the dispatcher's outcome, or what reconciliation finds out later.
FinishWrite(g, execution) ==
  /\ gitop[g].execution \in {"executing", "unknown"}
  /\ gitop' = [gitop EXCEPT ![g].execution = execution]
  /\ UNCHANGED << thread, message, run, claim, session, checkpoint, question,
                  command, workspace, attachment, outbox >>

\* finish with expectedExecution: the broker found an approved write impossible
\* before claiming it; the approval may have been withdrawn while it looked.
RejectWrite(g) ==
  /\ gitop[g].approval \in {"approved", "expired", "invalidated"}
  /\ gitop[g].execution = "not_started"
  /\ gitop' = [gitop EXCEPT ![g].execution = "failed"]
  /\ UNCHANGED << thread, message, run, claim, session, checkpoint, question,
                  command, workspace, attachment, outbox >>
=============================================================================
