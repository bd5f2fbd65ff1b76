-------------------------- MODULE ThreadStoreState --------------------------
(***************************************************************************)
(* The rows PostgreSQL keeps for threads (packages/db/src/schema/) and the *)
(* helpers every store transaction is built from                           *)
(* (packages/db/src/threads/shared.ts).                                    *)
(*                                                                         *)
(* One transaction is one action: each locks the thread row, then the      *)
(* workspace and the run, and a new run takes a global advisory lock, so   *)
(* transactions that touch the same rows are serialised.  What runs        *)
(* BETWEEN transactions, in any order, is the subject of the model:        *)
(* requests, workers that lost their lock, retried attempts, the workflow. *)
(*                                                                         *)
(* A run is named after the user message that started it.                  *)
(*                                                                         *)
(* A definition marked (fault) is the one below it with a plausible bug.   *)
(* No action uses it: the mutants of PROJECT.json put it in place of the   *)
(* definition to see that the property named there notices.                *)
(***************************************************************************)
EXTENDS Integers, Sequences, FiniteSets

CONSTANTS
  Thread,         (* thread ids                                            *)
  Message,        (* user messages, and the runs they start                *)
  Attempt,        (* activity attempts, `activityId:attempt`               *)
  Question,       (* question request ids                                  *)
  GitOp,          (* Git operation ids, all on one repository              *)
  Command,        (* command operation ids                                 *)
  Attachment,     (* uploads that are ready when the behaviour starts      *)
  Model,          (* model selections                                      *)
  None,           (* SQL null                                              *)
  MaxActiveRuns,  (* the admission limit every submission carries          *)
  MaxReads,       (* read slots of one workspace (4 in the code)           *)
  MaxOutstanding, (* unsettled commands of one workspace (36 in the code)  *)
  MaxGeneration,  (* bound: workspace generations                          *)
  MaxEdits,       (* bound: edits of one pending message                   *)
  MaxEntries      (* bound: entries of one run's Pi session                *)

ASSUME LimitAssumption ==
  /\ MaxActiveRuns \in Nat \ {0}
  /\ MaxReads \in Nat \ {0}
  /\ MaxOutstanding \in Nat \ {0}
  /\ MaxGeneration \in Nat \ {0}
  /\ MaxEdits \in Nat
  /\ MaxEntries \in Nat

\* A database has finitely many rows.
ASSUME FiniteAssumption == IsFiniteSet(Message) /\ IsFiniteSet(Command)

ASSUME NoneAssumption == None \notin Thread \cup Message \cup Attempt \cup Model

VARIABLES
  thread,      (* state of the row, and who drives the hosted browser      *)
  message,     (* user messages with their message_delivery row            *)
  run,         (* runs, by the message that started them                   *)
  claim,       (* run_execution_owner: attempts that were given a token    *)
  session,     (* worker memory: the Pi session each attempt holds         *)
  checkpoint,  (* agent_checkpoint `pi-session`: the saved entries         *)
  question,    (* question_request rows                                    *)
  gitop,       (* git_operation rows                                       *)
  command,     (* command_operation rows                                   *)
  workspace,   (* the thread's workspace row                               *)
  attachment,  (* attachment rows: state and owning message                *)
  outbox       (* undelivered outbox rows                                  *)

vars == << thread, message, run, claim, session, checkpoint, question, gitop,
           command, workspace, attachment, outbox >>

(***************************************************************************)
(* Row types.                                                              *)
(***************************************************************************)
ActiveStatus   == {"queued", "running"}
TerminalStatus == {"completed", "failed", "cancelled"}

ThreadRow == [state   : {"absent", "live", "deleted", "purged"},
              browser : {"agent", "user"}]

NoThread == [state |-> "absent", browser |-> "agent"]

\* "plain" is a message accepted without a mode: it has no delivery row.
\* "purged" keeps a purged id from being used again (ids are random).
MessageRow == [state    : {"absent", "plain", "pending", "consumed", "started",
                           "removed", "purged"},
               thread   : Thread \cup {None},
               mode     : {"none", "steer", "queue"},
               model    : Model \cup {None},
               target   : Message \cup {None},
               version  : 0 .. MaxEdits,
               sequence : Nat]

NoMessage == [state |-> "absent", thread |-> None, mode |-> "none",
              model |-> None, target |-> None, version |-> 0, sequence |-> 0]

RunRow == [status       : {"absent"} \cup ActiveStatus \cup TerminalStatus,
           cancel       : BOOLEAN,
           owner        : Attempt \cup {None},
           generation   : 0 .. MaxGeneration,
           approvalWait : BOOLEAN,
           questionWait : BOOLEAN]

NoRun == [status |-> "absent", cancel |-> FALSE, owner |-> None,
          generation |-> 0, approvalWait |-> FALSE, questionWait |-> FALSE]

\* An entry of a Pi session: a consumed steer with the version of the text the
\* session read, or (message None) an assistant turn.
Entry == [message : Message \cup {None}, version : 0 .. MaxEdits]

Turn == [message |-> None, version |-> 0]

SessionRow == [phase      : {"none", "checked", "open", "closed"},
               generation : 0 .. MaxGeneration,
               held       : Seq(Entry),
               offered    : Seq(Entry)]

NoSession == [phase |-> "none", generation |-> 0, held |-> << >>,
              offered |-> << >>]

QuestionRow == [state   : {"absent", "pending", "answered", "cancelled"},
                run     : Message \cup {None},
                handoff : BOOLEAN]

NoQuestion == [state |-> "absent", run |-> None, handoff |-> FALSE]

GitRow == [approval   : {"absent", "pending", "approved", "rejected",
                         "expired", "invalidated"},
           execution  : {"not_started", "executing", "succeeded", "failed",
                         "unknown"},
           run        : Message \cup {None},
           generation : 0 .. MaxGeneration,
           lapsed     : BOOLEAN]

NoGitOp == [approval |-> "absent", execution |-> "not_started", run |-> None,
            generation |-> 0, lapsed |-> FALSE]

CommandRow == [state      : {"absent", "queued", "pending", "running",
                             "completed", "failed", "unknown"},
               run        : Message \cup {None},
               attempt    : Attempt \cup {None},
               generation : 0 .. MaxGeneration,
               access     : {"exclusive", "read"},
               slot       : 0 .. MaxReads,
               order      : Nat]

NoCommand == [state |-> "absent", run |-> None, attempt |-> None,
              generation |-> 0, access |-> "exclusive", slot |-> 0, order |-> 0]

WorkspaceRow == [state      : {"absent", "provisioning", "running", "paused",
                               "deleted", "quarantined"},
                 generation : 1 .. MaxGeneration,
                 target     : {None, "paused", "deleted"}]

NoWorkspace == [state |-> "absent", generation |-> 1, target |-> None]

AttachmentRow == [state : {"ready", "deleting"}, message : Message \cup {None}]

OutboxType == {"run.requested", "run.cancel", "git.decision",
               "questions.answer", "workspace.wake", "thread.delete"}

OutboxRow == [type   : OutboxType,
              thread : Thread,
              run    : Message \cup {None}]

(***************************************************************************)
(* Reads the transactions share.                                           *)
(***************************************************************************)
ThreadOf(r)   == message[r].thread
IsActive(r)   == run[r].status \in ActiveStatus
IsTerminal(r) == run[r].status \in TerminalStatus

AllActiveRuns == {r \in Message : IsActive(r)}
ActiveRuns(t) == {r \in AllActiveRuns : ThreadOf(r) = t}
RunsOf(t)     == {r \in Message : run[r].status # "absent" /\ ThreadOf(r) = t}

\* assertExecutionOwnership: the token is the one of the run's current owner
\* and was issued for the workspace's current generation.
Owns(r, a) == /\ run[r].owner = a
              /\ run[r].generation = workspace[ThreadOf(r)].generation

\* (fault) only a Git approval counts as waiting
WaitingForApproval(r) == run[r].approvalWait

Waiting(r) == run[r].approvalWait \/ run[r].questionWait

UnsettledState  == {"queued", "pending", "running", "unknown"}
DispatchedState == {"pending", "running", "unknown"}

CommandsOf(t)  == {c \in Command : /\ command[c].state # "absent"
                                   /\ ThreadOf(command[c].run) = t}
Outstanding(t) == {c \in CommandsOf(t) :
                     /\ command[c].state \in UnsettledState
                     /\ command[c].generation = workspace[t].generation}
=============================================================================
