---------------------------- MODULE GuestCommands ---------------------------
(***************************************************************************)
(* How one command reaches a sandbox and how its outcome comes back:       *)
(* apps/runner/src/execution-coordinator.ts, guest-command.ts and the      *)
(* transactions of threads/commands.ts they call, in one generation of one *)
(* workspace.                                                              *)
(*                                                                         *)
(* Attempts run on workers.  An attempt first reconciles what the attempts *)
(* before left behind, then claims the run, then executes commands.  A     *)
(* command has a row in the database, a journal directory in the sandbox,  *)
(* a wrapper (the shell script the provider runs, under a lock of the      *)
(* journal and one of the workspace) and a body (the user's command).      *)
(* Requests may arrive late, twice or never, answers may be lost, wrappers *)
(* may be killed, workers may crash and, unless LockKept, be superseded    *)
(* without noticing.                                                       *)
(***************************************************************************)
EXTENDS Naturals, FiniteSets

CONSTANTS
  Command,      \* command identifiers
  Reads,        \* the commands with access "read"; the others are exclusive
  Attempt,      \* execution attempts
  Deliveries,   \* how often a provider may deliver one request
  LockKept,     \* the workspace lock is never lost by a live attempt
  None

CommandAssumption ==
  /\ IsFiniteSet(Command) /\ Reads \subseteq Command
  /\ Deliveries \in Nat \ {0} /\ LockKept \in BOOLEAN
  /\ None \notin Attempt \cup {"queued", "pending", "running", "unknown", "completed", "failed",
                             "undispatched"}

VARIABLES
  row,      \* command_operation, by command
  owner,    \* the attempt whose execution token the run has
  attempt,  \* where each attempt is
  seen,     \* the unsettled rows an attempt has listed and not yet reconciled
  call,     \* where the coordinator's execute() of each command is
  wrapper,  \* the guest script, by command and delivery
  journal,  \* the state file in the command's directory
  body,     \* the user's command
  starts    \* how often the body was started

store == << row, owner, attempt, seen >>
guest == << wrapper, journal, body, starts >>
vars  == << row, owner, attempt, seen, call, wrapper, journal, body, starts >>

Delivery     == 1 .. Deliveries
SettledState == {"completed", "failed"}
Dispatched   == {"pending", "running", "unknown"}
Holding      == {"waiting", "holding", "wrote"}

TypeOK ==
  /\ row \in [Command ->
       [state  : {"absent", "queued"} \cup Dispatched \cup SettledState,
        owner  : Attempt \cup {None},
        result : SettledState \cup {None, "undispatched"},
        order  : 0 .. Cardinality(Command)]]
  /\ owner \in Attempt \cup {None}
  /\ attempt \in [Attempt -> {"idle", "preparing", "working", "gone"}]
  /\ seen \in [Attempt -> [Command -> {None, "queued"} \cup Dispatched]]
  /\ call \in [Command -> {"none", "queued", "admitted", "marked", "sent",
                           "checking", "over"}]
  /\ wrapper \in [Command -> [Delivery ->
       {"none", "inflight", "answering", "gone"} \cup Holding]]
  /\ journal \in [Command -> {"absent", "pending", "running"} \cup SettledState]
  /\ body \in [Command -> {"none", "running"} \cup SettledState]
  /\ starts \in [Command -> 0 .. Deliveries]

Init ==
  /\ row = [c \in Command |-> [state |-> "absent", owner |-> None, result |-> None, order |-> 0]]
  /\ owner = None
  /\ attempt = [a \in Attempt |-> "idle"]
  /\ seen = [a \in Attempt |-> [c \in Command |-> None]]
  /\ call = [c \in Command |-> "none"]
  /\ wrapper = [c \in Command |-> [i \in Delivery |-> "none"]]
  /\ journal = [c \in Command |-> "absent"]
  /\ body = [c \in Command |-> "none"]
  /\ starts = [c \in Command |-> 0]

-----------------------------------------------------------------------------
(* The rows. *)

Unsettled == {c \in Command : row[c].state \in {"queued"} \cup Dispatched}
Active    == {c \in Command : row[c].state \in Dispatched}

\* updateCommand: a settled row never changes its state.
Allows(c, state) == row[c].state \in SettledState => state = row[c].state

SetRow(c, state, result) ==
  row' = [row EXCEPT ![c].state = state,
                     ![c].result = IF result = None THEN @ ELSE result]

\* The update, or the error it raises, which changes nothing.
TrySetRow(c, state, result) ==
  IF Allows(c, state) THEN SetRow(c, state, result) ELSE UNCHANGED row

\* admitCommand: reads run beside reads, an exclusive command alone and in
\* turn, and nothing beside an unknown outcome or another attempt's command.
InTurn(c) ==
  /\ \A d \in Active : row[d].state # "unknown" /\ row[d].owner = row[c].owner
  /\ IF c \in Reads
     THEN /\ Active \subseteq Reads
          /\ \A d \in Unsettled : row[d].order < row[c].order => d \in Reads
     ELSE /\ Active = {}
          /\ \A d \in Unsettled : row[d].order >= row[c].order

-----------------------------------------------------------------------------
(* The guest. *)

\* Who has the lock of the journal, and of the workspace.
JournalLocked(c) == \E i \in Delivery : wrapper[c][i] \in Holding
HasWorkspace(c)  == \E i \in Delivery : wrapper[c][i] \in {"holding", "wrote"}

\* lock_is_free: the last word of a settled command waits for the lock.
LockFree(c) ==
  IF c \in Reads THEN ~JournalLocked(c)
                 ELSE \A d \in Command : ~HasWorkspace(d)

\* What emit_result and the reconciliation script report and
\* parseGuestCommandObservation makes of it.
Observed(c) ==
  IF journal[c] = "absent" THEN "unknown"
  ELSE IF journal[c] \in SettledState /\ ~LockFree(c) THEN "running"
  ELSE journal[c]

\* processObservation: the guest knows how the command ended.
Known(c) == Observed(c) \in SettledState

\* The request never reaches the guest.
LoseRequest(c, i) ==
  /\ wrapper[c][i] = "inflight"
  /\ wrapper' = [wrapper EXCEPT ![c][i] = "gone"]
  /\ UNCHANGED << store, call, journal, body, starts >>

\* (fault) a command that was not settled is taken for a fresh one
FreshUntilSettled(c) == journal[c] \in {"absent", "pending", "running"}

\* A command of this identity has no state yet.
Fresh(c) == journal[c] = "absent"

\* The script takes the journal's lock.  A state it finds there is only
\* reported; else the command is recorded as pending.
OpenJournal(c, i) ==
  /\ wrapper[c][i] = "inflight"
  /\ ~JournalLocked(c)
  /\ IF Fresh(c)
     THEN /\ journal' = [journal EXCEPT ![c] = "pending"]
          /\ wrapper' = [wrapper EXCEPT ![c][i] = "waiting"]
     ELSE /\ wrapper' = [wrapper EXCEPT ![c][i] = "answering"]
          /\ UNCHANGED journal
  /\ UNCHANGED << store, call, body, starts >>

\* It takes the lock of the workspace, shared for a read, and starts the body,
\* which has neither lock.
StartBody(c, i) ==
  /\ wrapper[c][i] = "waiting"
  /\ \A d \in Command \ {c} : HasWorkspace(d) => {c, d} \subseteq Reads
  /\ wrapper' = [wrapper EXCEPT ![c][i] = "holding"]
  /\ journal' = [journal EXCEPT ![c] = "running"]
  /\ body' = [body EXCEPT ![c] = "running"]
  /\ starts' = [starts EXCEPT ![c] = @ + 1]
  /\ UNCHANGED << store, call >>

\* The body exits, or `timeout` ends it.
EndBody(c) ==
  /\ body[c] = "running"
  /\ \E outcome \in SettledState : body' = [body EXCEPT ![c] = outcome]
  /\ UNCHANGED << store, call, wrapper, journal, starts >>

\* The script records the exit code and the state ...
WriteState(c, i) ==
  /\ wrapper[c][i] = "holding"
  /\ body[c] \in SettledState
  /\ wrapper' = [wrapper EXCEPT ![c][i] = "wrote"]
  /\ journal' = [journal EXCEPT ![c] = body[c]]
  /\ UNCHANGED << store, call, body, starts >>

\* ... and then closes its locks.
CloseLocks(c, i) ==
  /\ wrapper[c][i] = "wrote"
  /\ wrapper' = [wrapper EXCEPT ![c][i] = "answering"]
  /\ UNCHANGED << store, call, journal, body, starts >>

\* The script dies where it is.  Its locks are released; a body goes on.
KillWrapper(c, i) ==
  /\ wrapper[c][i] \in Holding \cup {"answering"}
  /\ wrapper' = [wrapper EXCEPT ![c][i] = "gone"]
  /\ UNCHANGED << store, call, journal, body, starts >>

-----------------------------------------------------------------------------
(* execute(): one call of the coordinator. *)

Alive(c) == row[c].owner # None /\ attempt[row[c].owner] = "working"

\* beginCommand.
Begin(a, c) ==
  /\ attempt[a] = "working"
  /\ owner = a
  /\ row[c].state = "absent"
  /\ row' = [row EXCEPT ![c] =
       [state |-> "queued", owner |-> a, result |-> None,
        order |-> Cardinality({d \in Command : row[d].state # "absent"})]]
  /\ call' = [call EXCEPT ![c] = "queued"]
  /\ UNCHANGED << owner, attempt, seen, guest >>

\* A poll of admitCommand that succeeds.
Admit(c) ==
  /\ call[c] = "queued"
  /\ Alive(c)
  /\ row[c].state = "queued"
  /\ owner = row[c].owner
  /\ InTurn(c)
  /\ SetRow(c, "pending", None)
  /\ call' = [call EXCEPT ![c] = "admitted"]
  /\ UNCHANGED << owner, attempt, seen, guest >>

\* The call was aborted, superseded or stands behind an unresolved command, and
\* did not dispatch: cancelled-before-dispatch.
NotDispatched(c) ==
  /\ call[c] \in {"queued", "admitted", "marked"}
  /\ Alive(c)
  /\ TrySetRow(c, "failed", "undispatched")
  /\ call' = [call EXCEPT ![c] = "over"]
  /\ UNCHANGED << owner, attempt, seen, guest >>

\* The admitted command is recorded as running, unless its row was settled.
MarkRunning(c) ==
  /\ call[c] = "admitted"
  /\ Alive(c)
  /\ TrySetRow(c, "running", None)
  /\ call' = [call EXCEPT ![c] = IF Allows(c, "running") THEN "marked" ELSE "over"]
  /\ UNCHANGED << owner, attempt, seen, guest >>

\* provider.exec: the request leaves, once or more often.
Send(c) ==
  /\ call[c] = "marked"
  /\ Alive(c)
  /\ call' = [call EXCEPT ![c] = "sent"]
  /\ \E n \in Delivery :
       wrapper' = [wrapper EXCEPT ![c] =
                     [i \in Delivery |-> IF i <= n THEN "inflight" ELSE "none"]]
  /\ UNCHANGED << store, journal, body, starts >>

\* The script's report reaches the coordinator: a settled outcome is stored,
\* anything else is reconciled.
Answer(c, i) ==
  /\ wrapper[c][i] = "answering"
  /\ wrapper' = [wrapper EXCEPT ![c][i] = "gone"]
  /\ IF call[c] = "sent" /\ Alive(c)
     THEN IF Known(c)
          THEN /\ TrySetRow(c, Observed(c), Observed(c))
               /\ call' = [call EXCEPT ![c] = "over"]
          ELSE /\ call' = [call EXCEPT ![c] = "checking"]
               /\ UNCHANGED row
     ELSE UNCHANGED << row, call >>
  /\ UNCHANGED << owner, attempt, seen, journal, body, starts >>

\* The provider call fails, times out or is aborted: the outcome is ambiguous.
ExecFails(c) ==
  /\ call[c] = "sent"
  /\ Alive(c)
  /\ call' = [call EXCEPT ![c] = "checking"]
  /\ UNCHANGED << store, guest >>

\* (fault) whatever is observed is stored as the outcome
LearnAll(c) == TrySetRow(c, Observed(c), Observed(c))

\* reconcileRecord looks at the journal and stores what is settled.
Learn(c) ==
  IF Known(c)
  THEN TrySetRow(c, Observed(c), Observed(c))
  ELSE TrySetRow(c, "unknown", None)

\* (fault) a command that still runs is waited for
GiveUpUnlessRunning(c) == Observed(c) # "running" /\ TrySetRow(c, "unknown", None)

\* The deadline of the reconciliation, whatever the journal says:
\* persistUnknown, hold-fence.
GiveUp(c) == TrySetRow(c, "unknown", None)

Reconcile(c) ==
  /\ call[c] = "checking"
  /\ Alive(c)
  /\ \/ (Known(c) \/ Observed(c) = "unknown") /\ Learn(c)
     \/ GiveUp(c)
  /\ call' = [call EXCEPT ![c] = "over"]
  /\ UNCHANGED << owner, attempt, seen, guest >>

\* A cancellation or an outcome cannot be recorded: the call fails and leaves
\* the row as it is.
StoreFails(c) ==
  /\ call[c] \in {"sent", "checking"}
  /\ Alive(c)
  /\ call' = [call EXCEPT ![c] = "over"]
  /\ UNCHANGED << store, guest >>

-----------------------------------------------------------------------------
(* Attempts. *)

\* An activity attempt takes the workspace lock and lists the unsettled rows.
Prepare(a) ==
  /\ attempt[a] = "idle"
  /\ LockKept => \A b \in Attempt : attempt[b] \in {"idle", "gone"}
  /\ attempt' = [attempt EXCEPT ![a] = "preparing"]
  /\ seen' = [seen EXCEPT ![a] =
       [c \in Command |-> IF c \in Unsettled THEN row[c].state ELSE None]]
  /\ UNCHANGED << row, owner, call, guest >>

Failed(a) == attempt' = [attempt EXCEPT ![a] = "gone"]

\* reconcileUnsettled, one listed row: one that was queued is retired unseen,
\* the others are reconciled; an outcome that stays unknown fails the attempt.
ReconcileListed(a, c) ==
  /\ attempt[a] = "preparing"
  /\ seen[a][c] # None
  /\ seen' = [seen EXCEPT ![a][c] = None]
  /\ \/ /\ seen[a][c] = "queued"
        /\ TrySetRow(c, "failed", "undispatched")
        /\ IF Allows(c, "failed") THEN UNCHANGED attempt ELSE Failed(a)
     \/ /\ seen[a][c] # "queued"
        /\ row[c].state \in SettledState
        /\ UNCHANGED << row, attempt >>
     \/ /\ seen[a][c] # "queued"
        /\ row[c].state \notin SettledState
        /\ \/ Known(c) /\ Learn(c) /\ UNCHANGED attempt
           \/ GiveUp(c) /\ Failed(a)
  /\ UNCHANGED << owner, call, guest >>

\* claimExecutionOwnership, once everything listed is reconciled.
MayClaim(a) ==
  /\ attempt[a] = "preparing"
  /\ \A c \in Command : seen[a][c] = None
  /\ Active = {}

\* The claim retires what is queued; a claim that is refused fails the attempt.
Claim(a) ==
  /\ MayClaim(a)
  /\ owner' = a
  /\ attempt' = [attempt EXCEPT ![a] = "working"]
  /\ row' = [c \in Command |->
       IF row[c].state = "queued"
       THEN [row[c] EXCEPT !.state = "failed", !.result = "undispatched"]
       ELSE row[c]]
  /\ UNCHANGED << seen, call, guest >>

\* The attempt ends or its worker crashes, and its calls with it.
EndAttempt(a) ==
  /\ attempt[a] \in {"preparing", "working"}
  /\ Failed(a)
  /\ call' = [c \in Command |->
       IF row[c].owner = a /\ call[c] # "none" THEN "over" ELSE call[c]]
  /\ UNCHANGED << row, owner, seen, guest >>

-----------------------------------------------------------------------------
CoordinatorStep(c) ==
  \/ Admit(c) \/ NotDispatched(c) \/ MarkRunning(c) \/ Send(c)
  \/ ExecFails(c) \/ Reconcile(c)

GuestStep(c, i) ==
  \/ LoseRequest(c, i) \/ OpenJournal(c, i) \/ StartBody(c, i)
  \/ WriteState(c, i) \/ CloseLocks(c, i) \/ KillWrapper(c, i) \/ Answer(c, i)

Next ==
  \/ \E c \in Command : CoordinatorStep(c) \/ StoreFails(c) \/ EndBody(c)
  \/ \E c \in Command, i \in Delivery : GuestStep(c, i)
  \/ \E a \in Attempt, c \in Command : Begin(a, c) \/ ReconcileListed(a, c)
  \/ \E a \in Attempt : Prepare(a) \/ Claim(a) \/ EndAttempt(a)

\* Every wait of a call has a deadline: the provider's, the reconciliation's
\* and, in the queue, that of the attempt, whose signal aborts it.
Fairness == \A c \in Command : WF_vars(CoordinatorStep(c))

Spec     == Init /\ [][Next]_vars
FairSpec == Spec /\ Fairness

-----------------------------------------------------------------------------
(* Properties. *)

\* A command's body is started at most once, however often its request is
\* delivered and wherever its script dies (guest-command.ts: the journal).
RunsOnce == \A c \in Command : starts[c] <= 1

\* An outcome is stored only when the body ended with it: a lost connection or
\* a deadline never stands in for it.
ResultIsTheGuests ==
  \A c \in Command : row[c].result \in SettledState => body[c] = row[c].result

\* Once a row is settled the body is over and cannot be started any more: who
\* is admitted next has the workspace for itself.
SettledIsOver ==
  \A c \in Command : row[c].state \in SettledState =>
    /\ body[c] # "running"
    /\ body[c] = "none" =>
         \A i \in Delivery : wrapper[c][i] \notin {"inflight", "waiting"}

\* Commands that run at the same time are all reads, also when a script was
\* killed and its locks are gone while its body goes on.
OnlyReadsTogether ==
  \A c, d \in Command :
    c # d /\ body[c] = "running" /\ body[d] = "running" => {c, d} \subseteq Reads

\* A command retired as never dispatched is never run.
RetiredNeverRuns ==
  \A c \in Command : row[c].result = "undispatched" => starts[c] = 0

\* Every call of the coordinator comes to an end.
CallsEnd == \A c \in Command : (call[c] # "none") ~> (call[c] = "over")
=============================================================================
