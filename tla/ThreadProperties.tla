-------------------------- MODULE ThreadProperties --------------------------
(***************************************************************************)
(* What must hold of the thread store whatever the order of requests,      *)
(* workers and workflow steps.                                             *)
(***************************************************************************)
EXTENDS ThreadStore, SequencesExt

(***************************************************************************)
(* Threads, runs and the retained queue.                                   *)
(***************************************************************************)
\* A thread has at most one active run, whether a run was started by a
\* submission, by the end of the run before it or by the user
\* (run_one_active_thread_idx is only the last line of defence).
OneActiveRun ==
  \A r, s \in AllActiveRuns : ThreadOf(r) = ThreadOf(s) => r = s

\* However runs start, no more than MaxActiveRuns are active at once: a queue
\* that continues by itself is admitted like a submission.
AdmissionLimit == Cardinality(AllActiveRuns) <= MaxActiveRuns

\* Once a thread is deleted nothing acts for it any more: no run is active and
\* no Git write is in flight, and neither its waiting messages nor a late worker
\* start any.
DeletedIsSettled ==
  \A t \in Thread : thread[t].state \in {"deleted", "purged"} =>
    /\ ActiveRuns(t) = {}
    /\ \A g \in GitOp : gitop[g].execution \in {"executing", "unknown"} =>
         ThreadOf(gitop[g].run) # t

\* An ended run stays ended as it ended: a worker that lost its lock, a second
\* finalizer or a late cancellation changes its status no more.  Only purging
\* the thread takes the row away.
TerminalIsFinal ==
  [][\A r \in Message :
       IsTerminal(r) => run'[r].status \in {run[r].status, "absent"}]_vars

\* A thread that goes idle with messages waiting goes idle because its run was
\* cancelled: a run that completes or fails hands over to the queue in the same
\* transaction, at the admission limit too (its own slot is free by then).
QueueStallsOnlyByCancel ==
  [][\A t \in Thread :
       (ActiveRuns(t) # {} /\ ActiveRuns(t)' = {} /\ PendingMessages(t)' # {})
         => \A r \in ActiveRuns(t) : run'[r].status = "cancelled"]_vars

\* Cancelling a run keeps the queue: the transaction that ends a run as
\* cancelled starts nothing on its thread and leaves its messages waiting.
CancelKeepsQueue ==
  [][\A r \in Message :
       (IsActive(r) /\ run'[r].status = "cancelled")
         => /\ ActiveRuns(ThreadOf(r))' = {}
            /\ PendingMessages(ThreadOf(r))' = PendingMessages(ThreadOf(r))]_vars

\* Waiting messages start in the order they were accepted, past edits and
\* removals: none starts while an older one of its thread is still waiting.
QueueIsFifo ==
  [][\A m \in Message :
       (message[m].state = "pending" /\ message'[m].state = "started")
         => \A o \in PendingMessages(ThreadOf(m)) \ {m} :
              message[m].sequence < message[o].sequence]_vars

\* Every run comes from an accepted message of a thread, and every message that
\* left the queue as started has its run: accepted work is neither lost nor
\* started twice.
StartedHasRun ==
  \A m \in Message :
    run[m].status # "absent" <=> message[m].state \in {"plain", "started"}

\* A bound attachment is one the message of a thread still shows: removing the
\* message frees it, purging the thread gives it to the cleanup.
AttachmentsBound ==
  \A x \in Attachment : attachment[x].message # None =>
    /\ attachment[x].state = "ready"
    /\ message[attachment[x].message].state \notin {"absent", "removed", "purged"}

\* The life of runs as the rows tell it: a message that started a run has the
\* run's status, the others that of their delivery.
Life == [t \in Thread |-> thread[t].state]
Home == [m \in Message |-> message[m].thread]
Phase ==
  [m \in Message |->
     IF run[m].status # "absent" THEN run[m].status
     ELSE IF message[m].state = "pending" THEN "waiting"
     ELSE IF message[m].state \in {"consumed", "removed"} THEN "withdrawn"
     ELSE message[m].state]

Lifecycle == INSTANCE RunLifecycle_proofs WITH life <- Life, home <- Home, phase <- Phase

\* The store implements RunLifecycle: behind the rows of two tables, the queue
\* that continues by itself and the transactions of late workers, each thread
\* works on one accepted message at a time and hands over or stops as promised.
ImplementsRunLifecycle == Lifecycle!Spec

(***************************************************************************)
(* Attempts, checkpoints and steers.                                       *)
(***************************************************************************)
\* An attempt that was replaced as the owner of a run never owns it again, so
\* what it reports late is refused for good.
SupersededStaysOut ==
  [][\A r \in Message, a \in Attempt :
       (claim[r][a] /\ run[r].owner # a) => run'[r].owner # a]_vars

\* Position of m in the saved session of the run it steered.
EntriesOf(m, r) == {i \in DOMAIN checkpoint[r] : checkpoint[r][i].message = m}

\* A consumed steer is in the saved session of the run it was sent to exactly
\* once, with the text the user last saw, and nothing else is: a crash between
\* offering and consuming neither loses nor repeats a steer, and an edit never
\* reaches a steer a session may have read.
ConsumedExactlyOnce ==
  /\ \A m \in Message : message[m].state = "consumed" =>
       \E i \in DOMAIN checkpoint[message[m].target] :
         /\ EntriesOf(m, message[m].target) = {i}
         /\ checkpoint[message[m].target][i].version = message[m].version
  /\ \A r \in Message, m \in Message : EntriesOf(m, r) # {} =>
       message[m].state = "consumed" /\ message[m].target = r

\* What the owner's session was offered and has not consumed is still waiting
\* as it was read: the user can neither edit nor remove it meanwhile.
OfferedIsCurrent ==
  \A r \in Message, a \in Attempt :
    (session[r][a].phase = "open" /\ Owns(r, a) /\ IsActive(r)) =>
      \A i \in DOMAIN session[r][a].offered :
        LET s == session[r][a].offered[i]
        IN  message[s.message].state = "pending" /\ message[s.message].version = s.version

\* A run reads only steers written for its model.
SteersShareModel ==
  \A m \in Message : message[m].state = "consumed" =>
    message[m].model = message[message[m].target].model

\* A steer reaches one session of its own model, once, as it was last edited.
SteersAreKept == ConsumedExactlyOnce /\ OfferedIsCurrent /\ SteersShareModel

(***************************************************************************)
(* Questions, approvals and Git writes.                                    *)
(***************************************************************************)
PendingProposals(r) == {g \in OpsOf(r) : gitop[g].approval = "pending"}

\* A run asks one thing at a time and knows that it waits: what is pending has
\* its wait recorded with it, so no retried attempt can overlook it.
WaitsForWhatIsAsked ==
  \A r \in Message :
    /\ Cardinality(PendingQuestions(r)) <= 1
    /\ Cardinality(PendingProposals(r)) <= 1
    /\ PendingQuestions(r) # {} => run[r].questionWait
    /\ PendingProposals(r) # {} => run[r].approvalWait

\* From the moment cancellation is requested, or the run has failed or been
\* cancelled, nothing of it can be answered, approved or dispatched any more.
CancelWithdraws ==
  \A r \in Message :
    (run[r].cancel \/ run[r].status \in {"failed", "cancelled"}) =>
      PendingQuestions(r) = {} /\ \A g \in OpsOf(r) : ~Undispatched(g)

\* An approval that can still be dispatched was given for the filesystem the
\* workspace has now: replacing the workspace withdraws the others.
ApprovalsAreCurrent ==
  \A g \in GitOp : Undispatched(g) =>
    gitop[g].generation = workspace[ThreadOf(gitop[g].run)].generation

\* At most one Git write is in flight or unexplained on a repository.
OneWrite ==
  \A g, h \in GitOp :
    (/\ gitop[g].execution \in {"executing", "unknown"}
     /\ gitop[h].execution \in {"executing", "unknown"}) => g = h

\* Whatever reached the remote was approved: neither a cancellation, an expiry
\* nor a new workspace rewrites the approval of a write once it is dispatched.
WrittenWasApproved ==
  \A g \in GitOp : gitop[g].execution \in {"executing", "succeeded", "unknown"} =>
    gitop[g].approval = "approved"

\* What was approved is written once, as it was approved, and on the filesystem
\* it was approved for; what was withdrawn is not written.
GitWritesAreSafe ==
  OneWrite /\ ApprovalsAreCurrent /\ WrittenWasApproved /\ CancelWithdraws

\* While an active run waits for the user to finish in the browser, the user
\* has the browser.
HandoffMeansUser ==
  \A q \in Question :
    (question[q].state = "pending" /\ question[q].handoff /\ IsActive(question[q].run))
      => thread[ThreadOf(question[q].run)].browser = "user"

\* What a run asks of a person is recorded, withdrawn with the run, and leaves the
\* person what it takes to answer.
AskedInOrder == WaitsForWhatIsAsked /\ CancelWithdraws /\ HandoffMeansUser

\* backend-contract.md:303 on an answer that arrives before the workflow waits:
\* "the workflow re-reads the request before resuming the same run and model
\* selection [...] This also closes the answer-before-wait race."  So a session
\* that works on a run works on a run that does not wait for an answer.
AnswerEndsWait ==
  \A r \in Message, a \in Attempt :
    (/\ session[r][a].phase = "open" /\ Owns(r, a)
     /\ IsActive(r) /\ ~run[r].cancel /\ run[r].questionWait)
      => OpenQuestions(r) # {}

(***************************************************************************)
(* Commands and workspaces.                                                *)
(***************************************************************************)
InFlight(t) == {c \in Outstanding(t) : command[c].state # "queued"}

\* In one workspace an exclusive command runs alone, and reads run beside each
\* other on slots of their own; a command whose outcome is unknown counts.
CommandExclusion ==
  \A t \in Thread : \A c, d \in InFlight(t) : c # d =>
    /\ command[c].access = "read"
    /\ command[c].slot # command[d].slot

\* What is in flight in a workspace was dispatched by one attempt, which still
\* owns its run: no successor works beside commands it does not know of.
DispatchedByOwner ==
  \A t \in Thread : \A c, d \in InFlight(t) :
    /\ command[c].run = command[d].run
    /\ command[c].attempt = command[d].attempt
    /\ run[command[c].run].owner = command[c].attempt

\* No command outlives its filesystem: replacing the workspace settles every
\* command of the generations before.
NoCommandOutlivesWorkspace ==
  \A c \in Command : command[c].state \in UnsettledState =>
    command[c].generation = Workspace(c).generation

\* A paused or deleted workspace has no unsettled command.
StoppedIsQuiet ==
  \A t \in Thread : workspace[t].state \in {"paused", "deleted"} => Outstanding(t) = {}

\* Commands run in turn, for the owner of the run, in the filesystem they were
\* begun for.
CommandsAreOwned ==
  CommandExclusion /\ DispatchedByOwner /\ NoCommandOutlivesWorkspace /\ StoppedIsQuiet
=============================================================================
