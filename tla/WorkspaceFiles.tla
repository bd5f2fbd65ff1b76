---------------------------- MODULE WorkspaceFiles --------------------------
(***************************************************************************)
(* The files of one workspace: the sandboxes they live in, the row that    *)
(* names the sandbox and the generation, and the activities that prepare,  *)
(* execute, pause, wake, replace and delete it (apps/runner/src modal.ts,  *)
(* docker.ts, activity-scope.ts and activities.ts, with the transactions   *)
(* of packages/db/src/threads/workspaces.ts).                              *)
(*                                                                         *)
(* A generation stands for one filesystem: an attempt that runs in it must *)
(* find everything attempts wrote in it before.  Modal ends a sandbox when *)
(* it pauses it and continues its files in another one, created from the   *)
(* exit snapshot; the running sandbox under the workspace's name counts.   *)
(* Docker keeps one container.                                             *)
(*                                                                         *)
(* Activities hold an advisory lock and may fail anywhere.  Further faults  *)
(* are named in Faults: a lost lock connection, a lost sandbox, an expired  *)
(* snapshot, and a failure just after an empty sandbox was created.         *)
(***************************************************************************)
EXTENDS Naturals, FiniteSets

CONSTANTS
  Box,          \* sandboxes or containers
  Worker,       \* activities
  Docker,       \* the provider is Docker, else Modal
  Faults,       \* which of the faults below happen, besides failing activities
  MaxGen, MaxWrites,   \* bounds
  Name,         \* the id of a Docker container: the workspace's name
  None

Job == {"prepare", "execute", "wake", "pause", "delete", "replace"}

WorkspaceFilesAssumption ==
  /\ Docker \in BOOLEAN
  /\ Faults \subseteq {"lock", "forget", "expire", "repeat"}
  /\ MaxGen \in Nat \ {0} /\ MaxWrites \in Nat
  /\ None \notin Box \cup Worker \cup Job /\ Name \notin Box \cup {None}

VARIABLES
  row,      \* the workspace row
  box,      \* what the provider has
  worker,   \* the activities
  lock,     \* who the database gives the workspace lock to
  owner,    \* who has the run's execution token
  run,      \* the thread's run
  deleting, \* the thread is being deleted
  written,  \* what was written in each generation
  taken,    \* (history) the row has named a sandbox that does not continue the last
  dropped   \* (history) a lock was lost while its activity went on

vars == << row, box, worker, lock, owner, run, deleting, written, taken, dropped >>

Gen   == 1 .. MaxGen
Write == 1 .. MaxWrites
Id    == Box \cup {Name, None}

NoBox == [phase |-> "unused", from |-> None, snap |-> FALSE, ending |-> FALSE, files |-> {}]
Idle  == [pc |-> "idle", job |-> None, gen |-> 1, was |-> FALSE, had |-> None,
          stored |-> None, loc |-> None, disp |-> None, used |-> None]

TypeOK ==
  /\ row \in [state : {"absent", "provisioning", "running", "paused", "deleted", "quarantined"},
              provider : Id, gen : Gen, transition : {None, "pause", "delete"}]
  /\ \A b \in Box :
       /\ box[b].phase \in {"unused", "asked", "running", "finished", "gone"}
       /\ box[b].from \in Box \cup {None} /\ box[b].snap \in BOOLEAN
       /\ box[b].ending \in BOOLEAN /\ box[b].files \subseteq Write
  /\ Cardinality({b \in Box : box[b].phase = "running"}) <= 1
  /\ \A w \in Worker :
       /\ worker[w].job \in Job \cup {None} /\ worker[w].gen \in Gen
       /\ worker[w].pc = "idle" <=> worker[w] = Idle
       /\ worker[w].pc \in {"asked", "working"} => worker[w].used \in Box
  /\ lock \in Worker \cup {None} /\ owner \in Worker \cup {None}
  /\ run \in {"none", "active", "prepared", "waiting"} /\ {deleting, taken, dropped} \subseteq BOOLEAN
  /\ written \in [Gen -> SUBSET Write]

Init ==
  /\ row = [state |-> "absent", provider |-> None, gen |-> 1, transition |-> None]
  /\ box = [b \in Box |-> NoBox]
  /\ worker = [w \in Worker |-> Idle]
  /\ lock = None /\ owner = None
  /\ run = "none" /\ deleting = FALSE
  /\ written = [g \in Gen |-> {}] /\ taken = FALSE /\ dropped = FALSE

-----------------------------------------------------------------------------
(* The provider. *)

Running == {b \in Box : box[b].phase = "running"}
Present == {b \in Box : box[b].phase \in {"running", "finished"}}

\* byName, else byId; a container is found by its name in either state.
Located(stored) ==
  IF Docker THEN Present
  ELSE IF Running # {} THEN Running
  ELSE {b \in Present : b = stored}

\* resolveInternal: b holds the files of the stored sandbox.
Continues(b, stored) ==
  Docker \/ stored = None \/ b = stored \/ box[b].from = stored

IdOf(b) == IF Docker THEN Name ELSE b

\* A create takes effect.
Land(b) ==
  /\ box[b].phase = "asked"
  /\ Running = {}
  /\ \E w \in Worker : worker[w].pc = "asked" /\ worker[w].used = b
  /\ box' = [box EXCEPT ![b].phase = IF Docker THEN "finished" ELSE "running"]
  /\ UNCHANGED << row, worker, lock, owner, run, deleting, written >>

\* A sandbox ends: it was asked to, reached its hard timeout, or died.
End(b) ==
  /\ box[b].phase = "running"
  /\ box' = [box EXCEPT ![b].phase = "finished", ![b].snap = ~Docker, ![b].ending = FALSE]
  /\ UNCHANGED << row, worker, lock, owner, run, deleting, written >>

\* "expire": an exit snapshot does.
LoseSnapshot(b) ==
  /\ "expire" \in Faults
  /\ box[b].snap
  /\ box' = [box EXCEPT ![b].snap = FALSE]
  /\ UNCHANGED << row, worker, lock, owner, run, deleting, written >>

\* "forget": the provider loses a finished sandbox altogether.
Forget(b) ==
  /\ "forget" \in Faults
  /\ box[b].phase = "finished"
  /\ box' = [box EXCEPT ![b].phase = "gone", ![b].snap = FALSE]
  /\ UNCHANGED << row, worker, lock, owner, run, deleting, written >>

-----------------------------------------------------------------------------
(* The lock of an activity, and its steps. *)

At(w, pc) == worker[w].pc = pc

Set(w, rec) == worker' = [worker EXCEPT ![w] = rec]

Over(w) ==
  /\ Set(w, Idle)
  /\ lock' = IF lock = w THEN None ELSE lock

\* An error, a cancellation or the end of the worker, at any point; "repeat" is
\* that it comes between the create of an empty sandbox and its record.
Fail(w) ==
  /\ ~At(w, "idle")
  /\ worker[w].disp = "replaced" /\ worker[w].pc \in {"asked", "settle"} => "repeat" \in Faults
  /\ Over(w)
  /\ UNCHANGED << row, box, owner, run, deleting, written >>

\* "lock": the database drops the connection and the activity is not yet told.
LoseLock(w) ==
  /\ "lock" \in Faults
  /\ lock = w
  /\ lock' = None
  /\ UNCHANGED << row, box, worker, owner, run, deleting, written >>

\* cleanupWorkspace keeps the row locked while the provider works.
RowFree ==
  \A w \in Worker :
    worker[w].pc \in {"stopping", "record"} => worker[w].job \notin {"pause", "delete"}

Active == run \in {"active", "prepared"}

\* Which activity may begin on what is recorded.
MayBegin(job) ==
  \/ job = "prepare" /\ Active
  \/ job = "execute" /\ run = "prepared" /\ row.state = "running" /\ row.transition = None
  \/ job = "wake" /\ row.state = "paused" /\ row.transition = None
  \/ job = "pause" /\ run \in {"none", "waiting"} /\ row.state \notin {"absent", "deleted"} /\ ~deleting
                   /\ row.transition \in {None, "pause"}
  \/ job = "delete" /\ row.state \notin {"absent", "deleted"} /\ deleting
                    /\ row.transition \in {None, "delete"}

\* Where it starts.  A run supersedes a pause that was not carried out.
FirstStep(job) ==
  IF job \in {"pause", "delete"} \/ (job = "prepare" /\ row.transition # None)
  THEN "recover"
  ELSE IF job = "prepare" THEN "provision" ELSE "resolve"

Begin(w, job) ==
  /\ At(w, "idle")
  /\ lock = None
  /\ RowFree
  /\ MayBegin(job)
  /\ lock' = w
  /\ row' = IF job \in {"pause", "delete"} THEN [row EXCEPT !.transition = job]
            ELSE IF job = "prepare" /\ row.state = "absent"
            THEN [row EXCEPT !.state = "provisioning"] ELSE row
  /\ Set(w, [Idle EXCEPT !.pc = FirstStep(job), !.job = job, !.gen = row.gen,
                         !.was = row.state = "deleted",
                         !.had = row.provider, !.stored = row.provider])
  /\ run' = IF job = "prepare" THEN "active" ELSE run
  /\ UNCHANGED << box, owner, deleting, written >>

\* recoverProviderIdentity.
Recover(w) ==
  /\ At(w, "recover")
  /\ RowFree
  /\ LET loc == Located(worker[w].stored) IN
       /\ row' = IF loc = {} THEN row
                 ELSE [row EXCEPT !.provider = IdOf(CHOOSE b \in loc : TRUE)]
       /\ Set(w, [worker[w] EXCEPT !.pc = "mutate"])
  /\ UNCHANGED << box, lock, owner, run, deleting, written >>

\* cleanupBlockReason; a run that waits for a person does not block its pause.
MayClean(job) == run = "none" \/ (run = "waiting" /\ job = "pause")

\* lifecycle: find the sandbox of the row and end it.
Mutate(w) ==
  /\ At(w, "mutate")
  /\ RowFree
  /\ LET job == worker[w].job
         loc == Located(row.provider) IN
     IF job = "prepare"
     THEN /\ row.transition = "pause"                 \* deferred by the active run
          /\ row' = [row EXCEPT !.transition = None]  \* cancelLifecycleTransition
          /\ Set(w, [worker[w] EXCEPT !.pc = "provision", !.stored = row.provider])
          /\ UNCHANGED box
     ELSE /\ job # "replace" => MayClean(job) /\ row.transition = job
          /\ UNCHANGED row
          /\ IF loc = {}
             THEN /\ Set(w, [worker[w] EXCEPT !.pc = "record", !.loc = None])
                  /\ UNCHANGED box
             ELSE \E b \in loc :
                  /\ Set(w, [worker[w] EXCEPT !.pc = "stopping", !.loc = b])
                  /\ box' = [box EXCEPT ![b].ending = @ \/ box[b].phase = "running"]
  /\ UNCHANGED << lock, owner, run, deleting, written >>

\* terminate waits for the end.
Ended(b) == box[b].phase = "finished"

\* lifecycle removes what was captured.
Erases(job) == job \in {"delete", "replace"}

Stopped(w) ==
  /\ At(w, "stopping")
  /\ Ended(worker[w].loc)
  /\ LET b   == worker[w].loc
         job == worker[w].job IN
     /\ box' = IF Erases(job)
               THEN [box EXCEPT ![b].snap = FALSE, ![b].phase = IF Docker THEN "gone" ELSE @]
               ELSE box
     /\ Set(w, [worker[w] EXCEPT
          !.pc = IF job \in {"pause", "delete", "replace"} THEN "record" ELSE "create"])
  /\ UNCHANGED << row, lock, owner, run, deleting, written >>

\* The end of cleanupWorkspace's transaction, or resetWorkspace after a
\* quarantine.
Record(w) ==
  /\ At(w, "record")
  /\ LET rec == worker[w] IN
     IF rec.job = "replace"
     THEN IF row.gen = rec.gen /\ rec.gen < MaxGen
          THEN row' = [state |-> "provisioning", provider |-> None, gen |-> row.gen + 1,
                       transition |-> None]
          ELSE UNCHANGED row
     ELSE row' = [row EXCEPT
            !.transition = None,
            !.state = IF rec.loc = None \/ rec.job = "delete" THEN "deleted" ELSE "paused",
            !.provider = IF rec.loc = None \/ rec.job = "delete" THEN None ELSE IdOf(rec.loc)]
  /\ Over(w)
  /\ UNCHANGED << box, owner, run, deleting, written >>

-----------------------------------------------------------------------------
(* prepareWorkspace, the resolution before execution, and wakeWorkspace. *)

\* updateWorkspace checks the generation, and the target of a transition.
MayUpdate(w) == row.gen = worker[w].gen /\ row.transition = None

\* The row is marked provisioning, with the provider id read before.
Provision(w) ==
  /\ At(w, "provision")
  /\ RowFree
  /\ IF row.state = "provisioning" THEN UNCHANGED row
     ELSE /\ MayUpdate(w)
          /\ row' = [row EXCEPT !.state = "provisioning", !.provider = worker[w].stored]
  /\ Set(w, [worker[w] EXCEPT !.pc = "resolve"])
  /\ UNCHANGED << box, lock, owner, run, deleting, written >>

\* What ensure finds.  Execution resolves first, prepares again when nothing is
\* there, and lets ensure start from the sandbox it found.
Resolve(w) ==
  /\ At(w, "resolve")
  /\ LET rec == worker[w]
         loc == Located(rec.stored) IN
     IF loc = {}
     THEN /\ rec.job # "execute"
          /\ Set(w, [rec EXCEPT !.pc = "create", !.loc = None])
     ELSE \E b \in loc :
          LET stored == IF rec.job = "execute" THEN IdOf(b) ELSE rec.stored IN
          Set(w, [rec EXCEPT !.pc = "ensure", !.loc = b, !.stored = stored,
                    !.disp = IF Continues(b, stored) THEN "existing" ELSE "replaced"])
  /\ UNCHANGED << row, box, lock, owner, run, deleting, written >>

\* A running sandbox with enough time left is used; one with too little is
\* ended first; a finished one is restored.  A container is started.
Ensure(w) ==
  /\ At(w, "ensure")
  /\ LET rec == worker[w]
         b   == rec.loc IN
     \/ /\ b \in IF Docker THEN Present ELSE Running
        /\ Set(w, [rec EXCEPT !.pc = "settle", !.used = b])
        /\ box' = [box EXCEPT ![b].phase = "running"]
     \/ /\ ~Docker /\ box[b].phase = "running"
        /\ Set(w, [rec EXCEPT !.pc = "stopping"])
        /\ box' = [box EXCEPT ![b].ending = TRUE]
     \/ /\ ~Docker /\ box[b].phase = "finished"
        /\ Set(w, [rec EXCEPT !.pc = "create"])
        /\ UNCHANGED box
  /\ UNCHANGED << row, lock, owner, run, deleting, written >>

Unused == {b \in Box : box[b].phase = "unused"}

\* From the exit snapshot; from the published image when there is none.
Create(w) ==
  /\ At(w, "create")
  /\ Unused # {}
  /\ LET b        == CHOOSE x \in Unused : TRUE
         rec      == worker[w]
         restored == rec.loc # None /\ box[rec.loc].snap IN
     /\ box' = [box EXCEPT ![b] =
            [NoBox EXCEPT !.phase = "asked",
                          !.from  = IF restored THEN rec.loc ELSE None,
                          !.files = IF restored THEN box[rec.loc].files ELSE {}]]
     /\ Set(w, [rec EXCEPT !.pc = "asked", !.used = b,
            !.disp = IF restored THEN (IF rec.disp = "replaced" THEN @ ELSE "restored")
                     ELSE IF rec.stored # None THEN "replaced" ELSE "created"])
  /\ UNCHANGED << row, lock, owner, run, deleting, written >>

\* The answer, or the running sandbox of an equal create whose answer was lost.
Created(w) ==
  /\ At(w, "asked")
  /\ \E b \in Box :
       /\ IF Docker THEN b = worker[w].used /\ box[b].phase = "finished"
                    ELSE b \in Running
       /\ box[b].from = box[worker[w].used].from
       /\ Set(w, [worker[w] EXCEPT !.pc = "settle", !.used = b])
       /\ box' = [box EXCEPT ![b].phase = "running"]
  /\ UNCHANGED << row, lock, owner, run, deleting, written >>

\* (fault) a sandbox that replaces another one is recorded like any other
NeverNew(rec) == FALSE

\* The filesystem is a new one.
IsNew(rec) == rec.disp = "replaced" \/ (rec.was /\ rec.disp = "created")

\* An execution persists an id that is not the row's.
NeedsRecord(rec, id) == id # rec.had

\* resetWorkspace and updateWorkspace check the generation.
ResetTo(id) ==
  /\ row.gen < MaxGen
  /\ row' = [state |-> "provisioning", provider |-> id, gen |-> row.gen + 1, transition |-> None]

\* The workflow prepares the workspace again before it goes on.
Unprepare == run' = IF run = "prepared" THEN "active" ELSE run

Settle(w) ==
  /\ At(w, "settle")
  /\ RowFree
  /\ LET rec == worker[w]
         id  == IdOf(rec.used) IN
     \/ /\ rec.job = "prepare"
        /\ row.gen = rec.gen
        /\ IF IsNew(rec)
           THEN /\ ResetTo(id)
                /\ Set(w, [rec EXCEPT !.pc = "claim", !.gen = @ + 1])
           ELSE /\ row.transition = None
                /\ row' = [row EXCEPT !.state = "provisioning", !.provider = id]
                /\ Set(w, [rec EXCEPT !.pc = "claim"])
        /\ UNCHANGED << lock, run >>
     \/ /\ rec.job = "wake"
        /\ row.gen = rec.gen
        /\ IF IsNew(rec) THEN ResetTo(id)
           ELSE /\ row.transition = None
                /\ row' = [row EXCEPT !.state = "running", !.provider = id]
        /\ Over(w)
        /\ UNCHANGED run
     \/ /\ rec.job = "execute"
        /\ IF rec.disp = "replaced"
           THEN UNCHANGED row /\ Unprepare /\ Over(w)      \* WORKSPACE_REPREPARE
           ELSE /\ row' = IF NeedsRecord(rec, id) THEN [row EXCEPT !.provider = id] ELSE row
                /\ Set(w, [rec EXCEPT !.pc = "claim"])
                /\ UNCHANGED << lock, run >>
  /\ UNCHANGED << box, owner, deleting, written >>

\* claimExecutionOwnership.
Claim(w) ==
  /\ At(w, "claim")
  /\ RowFree
  /\ Active
  /\ row.gen = worker[w].gen
  /\ owner' = w
  /\ Set(w, [worker[w] EXCEPT !.pc = "working"])
  /\ UNCHANGED << row, box, lock, run, deleting, written >>

-----------------------------------------------------------------------------
(* Commands, and the end of an attempt. *)

\* A command changes files; commands are admitted to the owner only.
DoWrite(w) ==
  /\ At(w, "working")
  /\ owner = w
  /\ row.gen = worker[w].gen
  /\ box[worker[w].used].phase = "running"
  /\ \E n \in Write :
       /\ \A g \in Gen : n \notin written[g]
       /\ \A m \in Write : m < n => \E g \in Gen : m \in written[g]
       /\ written' = [written EXCEPT ![row.gen] = @ \cup {n}]
       /\ box' = [box EXCEPT ![worker[w].used].files = @ \cup {n}]
  /\ UNCHANGED << row, worker, lock, owner, run, deleting >>

\* A preparation ends with the workspace running; an execution just ends.
Finish(w) ==
  /\ At(w, "working")
  /\ RowFree
  /\ IF worker[w].job = "prepare"
     THEN /\ MayUpdate(w)
          /\ row' = [row EXCEPT !.state = "running"]
          /\ run' = IF run = "active" THEN "prepared" ELSE run
     ELSE UNCHANGED << row, run >>
  /\ Over(w)
  /\ UNCHANGED << box, owner, deleting, written >>

\* The outcome of a command stays unknown: the attempt takes the lock again,
\* quarantines the workspace and replaces it.
Unresolved(w) ==
  /\ At(w, "working")
  /\ Set(w, [worker[w] EXCEPT !.pc = "quarantine", !.job = "replace"])
  /\ lock' = IF lock = w THEN None ELSE lock
  /\ Unprepare
  /\ UNCHANGED << row, box, owner, deleting, written >>

Quarantine(w) ==
  /\ At(w, "quarantine")
  /\ lock = None
  /\ RowFree
  /\ row.gen = worker[w].gen
  /\ lock' = w
  /\ row' = IF row.transition = None THEN [row EXCEPT !.state = "quarantined"] ELSE row
  /\ Set(w, [worker[w] EXCEPT !.pc = "mutate"])
  /\ UNCHANGED << box, owner, run, deleting, written >>

-----------------------------------------------------------------------------
(* The thread's run; an execution follows a completed preparation of it. *)

RunChanges ==
  /\ \/ run = "none" /\ ~deleting /\ run' = "active" /\ UNCHANGED deleting
     \/ Active /\ run' \in {"waiting", "none"} /\ UNCHANGED deleting
     \/ run = "waiting" /\ run' \in {"active", "none"} /\ UNCHANGED deleting
     \/ run = "none" /\ deleting' = TRUE /\ UNCHANGED run
  /\ RowFree
  /\ UNCHANGED << row, box, worker, lock, owner, written >>

-----------------------------------------------------------------------------
Step(w) ==
  \/ Fail(w) \/ LoseLock(w) \/ Recover(w) \/ Mutate(w) \/ Stopped(w) \/ Record(w)
  \/ Provision(w) \/ Resolve(w) \/ Ensure(w) \/ Create(w) \/ Created(w)
  \/ Settle(w) \/ Claim(w) \/ DoWrite(w) \/ Finish(w) \/ Unresolved(w) \/ Quarantine(w)

Moves ==
  \/ \E w \in Worker : Step(w) \/ \E job \in Job : Begin(w, job)
  \/ \E b \in Box : Land(b) \/ End(b) \/ LoseSnapshot(b) \/ Forget(b)
  \/ RunChanges

\* c was made from p, by one restoration after another.
Descends(c, p) ==
  \A S \in SUBSET Box :
    c \in S /\ (\A b \in S : box[b].from \in S \cup {None}) => p \in S

\* In one generation, another sandbox takes the place of the one the row named, or
\* of one that was deleted with what was written in it.
TakesOver ==
  /\ row'.gen = row.gen /\ row'.provider \in Box \ {row.provider}
  /\ IF row.provider = None THEN written[row.gen] # {}
     ELSE ~Descends(row'.provider, row.provider)

Drops == lock # None /\ lock' = None /\ worker' = worker

Next ==
  /\ Moves
  /\ taken' = (taken \/ TakesOver)
  /\ dropped' = (dropped \/ Drops)

Spec == Init /\ [][Next]_vars

-----------------------------------------------------------------------------
(* Properties. *)

\* An attempt that runs commands in a generation finds everything that was
\* written in it (docs/backend-contract.md: "A replacement filesystem receives a
\* new generation and a durable reset event").
NothingLostSilently ==
  \A w \in Worker :
    worker[w].pc = "working" /\ owner = w /\ row.gen = worker[w].gen =>
      written[row.gen] \subseteq box[worker[w].used].files

\* Whatever is lost, what an attempt misses is missing because the row has named a
\* sandbox that does not continue the last one, or an activity lost its lock.
LostByTakeover == NothingLostSilently \/ taken \/ dropped

\* The row does so nowhere but in recoverProviderIdentity, where an execution
\* records what it resolved, and where nothing was recorded any more.
TakeoverIsKnown ==
  TakesOver =>
    \/ dropped
    \/ \E w \in Worker :
         \/ At(w, "recover")
         \/ At(w, "settle") /\ (worker[w].job = "execute" \/ row.provider = None)

\* Commands run in the sandbox the row names, so that a pause captures their
\* files.
RunsWhereRecorded ==
  \A w \in Worker :
    worker[w].pc = "working" /\ lock = w /\ row.gen = worker[w].gen =>
      row.provider = IdOf(worker[w].used)

\* While a pause or a deletion works on the sandbox no run is active, though the
\* activity that carries it out may have lost its lock long ago.
CleanupSparesRuns ==
  \A w \in Worker :
    worker[w].pc \in {"stopping", "record"} /\ worker[w].job \in {"pause", "delete"} => ~Active

\* When a workspace is recorded as paused its sandbox has ended, with its files
\* captured unless they expired since, and no other one runs.
PausedHasEnded == row'.state = "paused" /\ row.state # "paused" => Running = {}

\* A deleted workspace leaves no sandbox running, no container, and no snapshot
\* of the last one (docs/backend-contract.md: "Provider deletion or confirmed
\* absence must precede the workspace.deleted event").
DeletedIsGone ==
  row'.state = "deleted" /\ row.state # "deleted" =>
    /\ Running = {} /\ (Docker => Present = {})
    /\ \A b \in Box : b = row.provider => ~box[b].snap
=============================================================================
