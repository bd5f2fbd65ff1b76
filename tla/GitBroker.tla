------------------------------ MODULE GitBroker -----------------------------
(***************************************************************************)
(* How approved GitHub writes to one repository are carried out:           *)
(* packages/api/src/routers/git-broker.ts (execute and clean),             *)
(* git-bundles.ts and the transactions claim and finish of git-store.ts.   *)
(*                                                                         *)
(* A worker is one call of execute: for an attempt of the run, which may   *)
(* dispatch the write, or for the periodic reconciliation, which may only  *)
(* look.  A request that was sent takes effect at GitHub, is refused or is *)
(* lost at any later time, whatever became of the worker.  Approvals are   *)
(* in ThreadApprovals: here every proposed operation is approved, and a    *)
(* claim may fail because the approval was withdrawn.                      *)
(***************************************************************************)
EXTENDS Naturals, FiniteSets

CONSTANTS
  Op,              \* operations
  Pushes,          \* those that push a commit under a lease
  Creates,         \* those that create a pull request or a comment with a marker;
                   \* the others change the state of a pull request
  Worker,          \* calls of execute for an attempt
  Cleaner,         \* the calls of execute by clean, one after the other
  EmptyRepository, \* the repository has no commit before the first push
  MaxMoves,        \* bound: changes of the repository by others
  None

GitBrokerAssumption ==
  /\ Pushes \subseteq Op /\ Creates \subseteq Op \ Pushes
  /\ Cleaner \notin Worker /\ MaxMoves \in Nat /\ EmptyRepository \in BOOLEAN
  /\ Op \cap {"none", "base", "other"} = {}
  /\ None \notin {"not_started", "executing", "unknown", "succeeded", "failed"}

VARIABLES
  execution, \* git_operation.execution, by operation
  lease,     \* the destination's head a push was prepared on
  staging,   \* the operation's staging directory is there
  flight,    \* where the operation's request is
  sends,     \* how often it was sent
  head,      \* the destination branch: "none", "base", a push or "other"
  shown,     \* operations whose marker or state can be seen at GitHub
  doomed,    \* staging directories clean is about to remove
  worker,    \* the calls of execute
  moves

git    == << head, shown, flight, moves >>
vars   == << execution, lease, staging, sends, doomed, worker, git >>

States  == Op \ (Pushes \cup Creates)
Settled == {"succeeded", "failed"}
Pending == {"executing", "unknown"}
Callers == Worker \cup {Cleaner}
Idle    == [pc |-> "idle", op |-> None, read |-> None, dispatch |-> FALSE, outcome |-> None]

RowsOK ==
  /\ execution \in [Op -> {"absent", "not_started"} \cup Pending \cup Settled]
  /\ lease \in [Op -> Op \cup {None, "none", "base", "other"}]
  /\ staging \in [Op -> BOOLEAN]
  /\ flight \in [Op -> {"none", "sent", "landed", "refused", "gone"}]
  /\ sends \in [Op -> Nat]
  /\ head \in Pushes \cup {"none", "base", "other"}
  /\ shown \subseteq Op \ Pushes
  /\ doomed \subseteq Op
  /\ moves \in 0 .. MaxMoves

CallOK(w) ==
  \/ worker[w] = Idle
  \/ /\ worker[w].pc \in {"access", "claim", "write", "sent", "inspect", "finish"}
     /\ worker[w].op \in Op
     /\ worker[w].read \in {"not_started"} \cup Pending
     /\ worker[w].dispatch \in BOOLEAN
     /\ worker[w].outcome \in Settled \cup {"unknown", None}
     /\ worker[w].pc = "finish" <=> worker[w].outcome # None
     /\ w = Cleaner => ~worker[w].dispatch

TypeOK == RowsOK /\ \A w \in Callers : CallOK(w)

Init ==
  /\ execution = [g \in Op |-> "absent"]
  /\ lease = [g \in Op |-> None]
  /\ staging = [g \in Op |-> FALSE]
  /\ flight = [g \in Op |-> "none"]
  /\ sends = [g \in Op |-> 0]
  /\ head = (IF EmptyRepository THEN "none" ELSE "base")
  /\ shown = {}
  /\ doomed = {}
  /\ worker = [w \in Callers |-> Idle]
  /\ moves = 0

-----------------------------------------------------------------------------
(* Steps of a call. *)

At(w, pc) == worker[w].pc = pc

Goto(w, pc) == worker' = [worker EXCEPT ![w].pc = pc]

\* The call will record this outcome.
Conclude(w, outcome) ==
  worker' = [worker EXCEPT ![w].pc = "finish", ![w].outcome = outcome]

Over(w) == worker' = [worker EXCEPT ![w] = Idle]

\* What an inspection looks for: the commit, the marker, the state asked for.
Visible(g) == IF g \in Pushes THEN head = g ELSE g \in shown

\* prepare: the bundle is staged and the destination's head noted; the
\* proposal is published and approved.
Propose(g) ==
  /\ execution[g] = "absent"
  /\ execution' = [execution EXCEPT ![g] = "not_started"]
  /\ staging' = [staging EXCEPT ![g] = g \in Pushes]
  /\ lease' = [lease EXCEPT ![g] = IF g \in Pushes THEN head ELSE None]
  /\ UNCHANGED << sends, doomed, worker, git >>

\* What clean asks execute to look at.
Reconciled(g) == execution[g] \in Pending

\* execute reads the operation.  Without a context it goes on only to inspect.
Begin(w, g) ==
  /\ At(w, "idle")
  /\ IF w = Cleaner THEN Reconciled(g) ELSE execution[g] \in {"not_started"} \cup Pending
  /\ worker' = [worker EXCEPT ![w] = [Idle EXCEPT !.pc = "access", !.op = g,
                                                  !.read = execution[g]]]
  /\ UNCHANGED << execution, lease, staging, sends, doomed, git >>

\* The user still has access to the repository ...
Access(w) ==
  /\ At(w, "access")
  /\ Goto(w, IF w = Cleaner THEN "inspect" ELSE "claim")
  /\ UNCHANGED << execution, lease, staging, sends, doomed, git >>

\* ... or not: an operation that was not started then, and is not now, failed.
NoAccess(w) ==
  /\ At(w, "access")
  /\ LET g == worker[w].op IN
       \/ UNCHANGED execution
       \/ /\ {execution[g], worker[w].read} = {"not_started"}
          /\ execution' = [execution EXCEPT ![g] = "failed"]
  /\ Over(w)
  /\ UNCHANGED << lease, staging, sends, doomed, git >>

Unsettled == {g \in Op : execution[g] \in Pending}

\* (fault) what execute read first decides who dispatches
DispatchesAsRead(w, g) == worker[w].read = "not_started" /\ execution[g] \notin Settled

\* claim: the one call that finds the operation not started dispatches it.
Dispatches(w, g) == execution[g] = "not_started"

Claim(w) ==
  /\ At(w, "claim")
  /\ LET g == worker[w].op IN
       IF Dispatches(w, g)
       THEN \/ /\ Unsettled = {} \/ execution[g] # "not_started"
               /\ execution' = [execution EXCEPT ![g] = "executing"]
               /\ worker' = [worker EXCEPT ![w].pc = "write", ![w].dispatch = TRUE]
            \/ UNCHANGED execution /\ Over(w)   \* withdrawn, or the repository is blocked
       ELSE UNCHANGED execution /\ Goto(w, "inspect")
  /\ UNCHANGED << lease, staging, sends, doomed, git >>

\* Something is wrong before the write: the staged bundle is gone or the pull
\* request is not what was approved; or GitHub cannot be asked.
Refuse(w) ==
  /\ At(w, "write")
  /\ \/ worker[w].op \in Pushes /\ ~staging[worker[w].op] /\ Conclude(w, "failed")
     \/ worker[w].op \notin Pushes /\ Conclude(w, "failed")
     \/ Conclude(w, "unknown")
  /\ UNCHANGED << execution, lease, staging, sends, doomed, git >>

Send(w) ==
  /\ At(w, "write")
  /\ LET g == worker[w].op IN
       /\ g \in Pushes => staging[g]
       /\ flight' = [flight EXCEPT ![g] = "sent"]
       /\ sends' = [sends EXCEPT ![g] = @ + 1]
  /\ Goto(w, "sent")
  /\ UNCHANGED << execution, lease, staging, doomed, head, shown, moves >>

\* No answer in time, or an error of the server: a push is looked for, the
\* others are left to reconciliation.
NoAnswer(w) ==
  IF worker[w].op \in Pushes THEN Goto(w, "inspect") ELSE Conclude(w, "unknown")

Answered(w) ==
  LET g == worker[w].op IN
  \/ flight[g] = "landed" /\ IF g \in Pushes THEN Goto(w, "inspect") ELSE Conclude(w, "succeeded")
  \/ flight[g] = "refused" /\ Conclude(w, "failed")

Reply(w) ==
  /\ At(w, "sent")
  /\ Answered(w) \/ NoAnswer(w)
  /\ UNCHANGED << execution, lease, staging, sends, doomed, git >>

\* The inspection.  A marker that cannot be found proves nothing.
Look(w) ==
  /\ At(w, "inspect")
  /\ Conclude(w, IF Visible(worker[w].op) THEN "succeeded" ELSE "unknown")
  /\ UNCHANGED << execution, lease, staging, sends, doomed, git >>

\* An inspection that fails.  GitHub answers 409 to a request for a branch of an
\* empty repository, which is read as a stale proposal.
LookFails(w) ==
  /\ At(w, "inspect")
  /\ \/ Conclude(w, "unknown")
     \/ /\ worker[w].op \in Pushes /\ head = "none" /\ worker[w].dispatch
        /\ Conclude(w, "failed")
  /\ UNCHANGED << execution, lease, staging, sends, doomed, git >>

\* finish: an outcome that was recorded stays.
Finish(w) ==
  /\ At(w, "finish")
  /\ execution' = [execution EXCEPT ![worker[w].op] =
                     IF @ \in Settled THEN @ ELSE worker[w].outcome]
  /\ Over(w)
  /\ UNCHANGED << lease, staging, sends, doomed, git >>

\* The server dies, or finish fails.
Crash(w) ==
  /\ ~At(w, "idle")
  /\ Over(w)
  /\ UNCHANGED << execution, lease, staging, sends, doomed, git >>

-----------------------------------------------------------------------------
(* GitHub. *)

\* A push takes effect when the branch is where its lease says.
Land(g) ==
  /\ flight[g] = "sent"
  /\ IF g \in Pushes
     THEN /\ head = lease[g]
          /\ head' = g
          /\ UNCHANGED shown
     ELSE /\ shown' = shown \cup {g}
          /\ UNCHANGED head
  /\ flight' = [flight EXCEPT ![g] = "landed"]
  /\ UNCHANGED << execution, lease, staging, sends, doomed, worker, moves >>

\* The request is refused, as a push with a stale lease is, or lost.
Refused(g) ==
  /\ flight[g] = "sent"
  /\ g \in Pushes => head # lease[g]
  /\ flight' = [flight EXCEPT ![g] = "refused"]
  /\ UNCHANGED << execution, lease, staging, sends, doomed, worker, head, shown, moves >>

Lost(g) ==
  /\ flight[g] = "sent"
  /\ flight' = [flight EXCEPT ![g] = "gone"]
  /\ UNCHANGED << execution, lease, staging, sends, doomed, worker, head, shown, moves >>

\* Somebody else pushes, edits a comment or changes a pull request, which may
\* then be as an operation will ask for.
Others ==
  /\ moves < MaxMoves
  /\ moves' = moves + 1
  /\ \/ head' = "other" /\ UNCHANGED shown
     \/ \E g \in shown : shown' = shown \ {g} /\ UNCHANGED head
     \/ \E g \in States : shown' = shown \cup {g} /\ UNCHANGED head
  /\ UNCHANGED << execution, lease, staging, sends, doomed, worker, flight >>

-----------------------------------------------------------------------------
(* clean: staging directories of settled operations, and old ones. *)

Sweep(g) ==
  /\ staging[g]
  /\ execution[g] \notin Pending
  /\ doomed' = doomed \cup {g}
  /\ UNCHANGED << execution, lease, staging, sends, worker, git >>

Remove(g) ==
  /\ g \in doomed
  /\ doomed' = doomed \ {g}
  /\ staging' = [staging EXCEPT ![g] = FALSE]
  /\ UNCHANGED << execution, lease, sends, worker, git >>

-----------------------------------------------------------------------------
Call(w) ==
  \/ Access(w) \/ NoAccess(w) \/ Claim(w) \/ Refuse(w) \/ Send(w) \/ Reply(w)
  \/ Look(w) \/ LookFails(w) \/ Finish(w) \/ Crash(w)

Next ==
  \/ \E g \in Op : Propose(g) \/ Land(g) \/ Refused(g) \/ Lost(g) \/ Sweep(g) \/ Remove(g)
  \/ \E w \in Callers : Call(w) \/ \E g \in Op : Begin(w, g)
  \/ Others

\* clean runs every minute over all unsettled operations; the server does not
\* crash, nor GitHub fail, each time before one of its calls is over.
Fairness ==
  /\ WF_vars(Call(Cleaner))
  /\ \A g \in Op :
       /\ SF_vars(Begin(Cleaner, g))
       /\ SF_vars(worker[Cleaner].op = g /\ Access(Cleaner))
       /\ SF_vars(worker[Cleaner].op = g /\ Look(Cleaner))
       /\ SF_vars(/\ worker[Cleaner].op = g
                  /\ worker[Cleaner].outcome = "succeeded"
                  /\ Finish(Cleaner))

Spec     == Init /\ [][Next]_vars
FairSpec == Spec /\ Fairness

-----------------------------------------------------------------------------
(* Properties. *)

\* A write is sent to GitHub at most once, however many attempts call execute,
\* wherever the server dies (git-store.ts, claim).
DispatchedOnce == \A g \in Op : sends[g] <= 1

\* What is recorded is what happened: "succeeded" only after the effect, unless
\* somebody else brought about the state asked for, "failed" only when it can never
\* come (git-broker.ts: "Only a confirmed precondition/validation rejection can
\* settle a dispatched write as failed").
OutcomeIsTrue ==
  \A g \in Op :
    /\ execution[g] = "succeeded" => flight[g] = "landed" \/ g \in States
    /\ execution[g] = "failed" => flight[g] \in {"none", "refused"}

\* At most one write to the repository is on its way at any time: an unknown
\* outcome blocks the others (docs/github-broker.md, Read transport and writes).
\* A change of state counts as done once the state is seen, whoever brought it
\* about, and does not block although its request may still arrive.
OneWriteInFlight == Cardinality({g \in Op \ States : flight[g] = "sent"}) <= 1

\* An outcome is never replaced by another.
OutcomeIsFinal ==
  \A g \in Op : execution[g] \in Settled => execution'[g] = execution[g]

\* An effect that stays to be seen is found and recorded in the end, although
\* the answer was lost and the dispatcher is gone.
EffectIsFound ==
  \A g \in Op :
    <>[](flight[g] = "landed" /\ Visible(g)) => <>(execution[g] = "succeeded")

\* Staging is kept as long as its operation is executing or unknown
\* (docs/github-broker.md, Read transport and writes).
PendingKeepsStaging ==
  [][\A g \in Pushes : execution[g] \in Pending /\ staging[g] => staging'[g]]_vars
=============================================================================
