--------------------------- MODULE ThreadWorkspaces -------------------------
(***************************************************************************)
(* The workspace row, its lifecycle and the commands that run in it:       *)
(* threads/workspaces.ts, called by the activities of                      *)
(* apps/runner/src/activities.ts, and threads/commands.ts, called by the   *)
(* coordinator (apps/runner/src/execution-coordinator.ts).                 *)
(*                                                                         *)
(* A lifecycle transition is first recorded as pending (target), then      *)
(* carried out by a guarded cleanup that holds the thread lock while the   *)
(* provider acts, and then recorded as done.  A new generation means the   *)
(* old filesystem is gone.                                                 *)
(*                                                                         *)
(* A command is queued, admitted to dispatch in order (one exclusive       *)
(* command, or up to MaxReads reads), and settled once.                    *)
(***************************************************************************)
EXTENDS ThreadRuns

\* updateWorkspace for a thread without a workspace.
CreateWorkspace(t) ==
  /\ thread[t].state \in {"live", "deleted"}
  /\ workspace[t].state = "absent"
  /\ ActiveRuns(t) # {}
  /\ workspace' = [workspace EXCEPT ![t].state = "provisioning"]
  /\ UNCHANGED << thread, message, run, claim, session, checkpoint, question,
                  gitop, command, attachment, outbox >>

\* updateWorkspace: preparation, wake and quarantine set one of these states.
\* It is refused while a transition with another target is pending.
UpdateWorkspace(t, state) ==
  /\ state \in {"provisioning", "running", "quarantined"}
  /\ workspace[t].state # "absent"
  /\ workspace[t].state # state
  /\ workspace[t].target = None
  /\ workspace' = [workspace EXCEPT ![t].state = state]
  /\ UNCHANGED << thread, message, run, claim, session, checkpoint, question,
                  gitop, command, attachment, outbox >>

\* beginLifecycleTransition.  A pending transition with the same target is
\* joined, one with another target is a conflict.
BeginTransition(t, target) ==
  /\ workspace[t].state \notin {"absent", "deleted"}
  /\ workspace[t].target = None
  /\ workspace' = [workspace EXCEPT ![t].target = target]
  /\ UNCHANGED << thread, message, run, claim, session, checkpoint, question,
                  gitop, command, attachment, outbox >>

\* cancelLifecycleTransition: an accepted run supersedes a deferred transition.
CancelTransition(t) ==
  /\ workspace[t].target # None
  /\ workspace' = [workspace EXCEPT ![t].target = None]
  /\ UNCHANGED << thread, message, run, claim, session, checkpoint, question,
                  gitop, command, attachment, outbox >>

\* cleanupBlockReason.  Only a pause may name a run that waits for a person.
CleanupBlocked(t, waiting) ==
  \/ \E r \in ActiveRuns(t) : ~(r = waiting /\ Waiting(r))
  \/ Outstanding(t) # {}

\* cleanupWorkspace when the provider confirms (deferred and unknown outcomes
\* change no row); a workspace the provider does not know is deleted.
Cleanup(t, waiting, missing) ==
  /\ workspace[t].target # None
  /\ ~CleanupBlocked(t, IF workspace[t].target = "paused" THEN waiting ELSE None)
  /\ workspace' = [workspace EXCEPT
       ![t].state = IF missing THEN "deleted" ELSE workspace[t].target,
       ![t].target = None]
  /\ UNCHANGED << thread, message, run, claim, session, checkpoint, question,
                  gitop, command, attachment, outbox >>

\* The commands that end with the filesystem of t.
LostCommands(t) ==
  {c \in CommandsOf(t) : /\ command[c].generation <= workspace[t].generation
                         /\ command[c].state \in UnsettledState}

\* resetWorkspace: the provider confirmed that the filesystem is gone.  Every
\* unsettled command fails with it and no undispatched approval survives.
ResetWorkspace(t) ==
  /\ workspace[t].state # "absent"
  /\ workspace[t].generation < MaxGeneration
  /\ workspace' = [workspace EXCEPT ![t] =
       [state |-> "provisioning", generation |-> workspace[t].generation + 1,
        target |-> None]]
  /\ command' = [c \in Command |->
       IF c \in LostCommands(t)
       THEN [command[c] EXCEPT !.state = "failed"] ELSE command[c]]
  /\ InvalidateApprovals(RunsOf(t))
  /\ outbox' = outbox \cup
       {[type |-> "git.decision", thread |-> t, run |-> gitop[g].run] :
          g \in {g \in GitOp : /\ gitop[g].run \in RunsOf(t)
                               /\ gitop[g].approval \in {"pending", "approved"}
                               /\ gitop[g].execution = "not_started"}}
  /\ UNCHANGED << thread, message, run, claim, session, checkpoint, question,
                  attachment >>

\* requestWorkspaceWake.  One undelivered wake is enough.
RequestWake(t) ==
  /\ workspace[t].state = "paused"
  /\ workspace[t].target = None
  /\ \A r \in ActiveRuns(t) :
       \E q \in PendingQuestions(r) : question[q].handoff
  /\ outbox' = outbox \cup {[type |-> "workspace.wake", thread |-> t, run |-> None]}
  /\ UNCHANGED << thread, message, run, claim, session, checkpoint, question,
                  gitop, command, workspace, attachment >>

-----------------------------------------------------------------------------
(* Commands. *)

Workspace(c) == workspace[ThreadOf(command[c].run)]

\* beginCommand with `queued`, the only way the coordinator calls it.  Beginning
\* the same command again returns its row.
BeginCommand(c, r, a, access) ==
  /\ command[c].state = "absent"
  /\ IsActive(r)
  /\ ~run[r].cancel
  /\ Owns(r, a)
  /\ workspace[ThreadOf(r)].state \in {"provisioning", "running"}
  /\ workspace[ThreadOf(r)].target = None
  /\ Cardinality(Outstanding(ThreadOf(r))) < MaxOutstanding
  /\ command' = [command EXCEPT ![c] =
       [state |-> "queued", run |-> r, attempt |-> a, access |-> access,
        generation |-> workspace[ThreadOf(r)].generation, slot |-> 0,
        order |-> Cardinality(CommandsOf(ThreadOf(r)))]]
  /\ UNCHANGED << thread, message, run, claim, session, checkpoint, question,
                  gitop, workspace, attachment, outbox >>

\* The other commands of c's workspace that are dispatched, or queued before c.
Dispatched(c) == {d \in Outstanding(ThreadOf(command[c].run)) :
                    command[d].state # "queued"}
Earlier(c)    == {d \in Outstanding(ThreadOf(command[c].run)) :
                    /\ command[d].state = "queued"
                    /\ command[d].order < command[c].order}

\* (fault) only running commands hold their slot
SlotsNotRunning(c) ==
  (1 .. MaxReads) \ {command[d].slot : d \in {d \in Dispatched(c) : command[d].state = "running"}}

FreeSlots(c) == (1 .. MaxReads) \ {command[d].slot : d \in Dispatched(c)}

\* The read slot c gets (0: none, for an exclusive command).
LowestFree(c, s) ==
  IF command[c].access = "exclusive" THEN s = 0
  ELSE s \in FreeSlots(c) /\ \A o \in FreeSlots(c) : s <= o

\* A read runs beside other reads; an exclusive command runs alone and in turn.
InTurn(c) ==
  IF command[c].access = "exclusive"
  THEN Dispatched(c) = {} /\ Earlier(c) = {}
  ELSE /\ \A d \in Dispatched(c) \cup Earlier(c) : command[d].access = "read"
       /\ FreeSlots(c) # {}

\* admitCommand, polled by the coordinator until the command's turn comes.
AdmitCommand(c) ==
  /\ command[c].state = "queued"
  /\ IsActive(command[c].run)
  /\ ~run[command[c].run].cancel
  /\ Owns(command[c].run, command[c].attempt)
  /\ Workspace(c).generation = command[c].generation
  /\ Workspace(c).target = None
  /\ Workspace(c).state \in {"provisioning", "running"}
  /\ \A d \in Dispatched(c) : /\ command[d].state # "unknown"
                              /\ command[d].run = command[c].run
                              /\ command[d].attempt = command[c].attempt
  /\ InTurn(c)
  /\ \E s \in 0 .. MaxReads :
       /\ LowestFree(c, s)
       /\ command' = [command EXCEPT ![c].state = "pending", ![c].slot = s]
  /\ UNCHANGED << thread, message, run, claim, session, checkpoint, question,
                  gitop, workspace, attachment, outbox >>

\* updateCommand.  It checks no ownership: a worker that lost its lock may
\* still report, but never changes a settled row.
UpdateCommand(c, from, to) ==
  /\ command[c].state \in from
  /\ command' = [command EXCEPT ![c].state = to]
  /\ UNCHANGED << thread, message, run, claim, session, checkpoint, question,
                  gitop, workspace, attachment, outbox >>

\* The coordinator dispatches an admitted command; it does not look at the row
\* again, which a reconciler may have marked unknown meanwhile.
MarkRunning(c) == UpdateCommand(c, {"pending", "unknown"}, "running")

\* An outcome is learned from the guest, by the dispatcher or a reconciler; a
\* command that was never dispatched fails.
SettleCommand(c) ==
  \/ UpdateCommand(c, DispatchedState, "completed")
  \/ UpdateCommand(c, UnsettledState, "failed")

\* No outcome could be learned in time.
MarkUnknown(c) == UpdateCommand(c, {"pending", "running"}, "unknown")
=============================================================================
