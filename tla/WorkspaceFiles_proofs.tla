------------------------ MODULE WorkspaceFiles_proofs -----------------------
(***************************************************************************)
(* No run is active while its sandbox is ended; commands run in the        *)
(* sandbox the row names; a pause and a deletion leave nothing behind; and *)
(* nothing written in a generation is lost without a new one.              *)
(***************************************************************************)
EXTENDS WorkspaceFiles, FiniteSetTheorems, TLAPS

(***************************************************************************)
(* What holds whatever happens.                                            *)
(***************************************************************************)
Phase == {"unused", "asked", "running", "finished", "gone"}
Stage == {"idle", "recover", "mutate", "stopping", "record", "provision", "resolve",
          "ensure", "create", "asked", "settle", "claim", "working", "quarantine"}

RowType  == [state : {"absent", "provisioning", "running", "paused", "deleted", "quarantined"},
             provider : Id, gen : Gen, transition : {None, "pause", "delete"}]
Sandbox  == [phase : Phase, from : Box \cup {None}, snap : BOOLEAN, ending : BOOLEAN,
             files : SUBSET Write]
Activity == [pc : Stage, job : Job \cup {None}, gen : Gen, was : BOOLEAN, had : Id,
             stored : Id, loc : Box \cup {None},
             disp : {None, "existing", "restored", "replaced", "created"},
             used : Box \cup {None}]

RowTyped    == row \in RowType
BoxTyped    == box \in [Box -> Sandbox]
WorkerTyped == worker \in [Worker -> Activity]
OthersTyped ==
  /\ lock \in Worker \cup {None} /\ owner \in Worker \cup {None}
  /\ run \in {"none", "active", "prepared", "waiting"} /\ deleting \in BOOLEAN
  /\ written \in [Gen -> SUBSET Write]

Cleaning == {"pause", "delete"}

\* Which activity is at which step, and what it has found.
Fits(w) ==
  LET a == worker[w] IN
  /\ a.pc = "idle" => a = Idle
  /\ a.pc = "recover" => a.job \in Cleaning \cup {"prepare"}
  /\ a.pc = "mutate" => a.job \in Cleaning \cup {"prepare", "replace"}
  /\ a.pc = "stopping" => a.job \in Job /\ a.loc \in Box
  /\ a.pc = "record" => a.job \in Cleaning \cup {"replace"}
  /\ a.pc = "provision" => a.job = "prepare"
  /\ a.pc \in {"resolve", "ensure", "create", "asked", "settle"} =>
       a.job \in {"prepare", "execute", "wake"}
  /\ a.pc \in {"claim", "working"} => a.job \in {"prepare", "execute"}
  /\ a.pc = "quarantine" => a.job = "replace"
  /\ a.pc = "ensure" => a.loc \in Box
  /\ a.pc \in {"asked", "settle", "claim", "working"} => a.used \in Box

JobsFit == \A w \in Worker : Fits(w)

Safe ==
  /\ RowTyped /\ BoxTyped /\ WorkerTyped /\ OthersTyped
  /\ JobsFit
  /\ CleanupSparesRuns
-----------------------------------------------------------------------------
LEMMA ConstantsFit ==
  ASSUME WorkspaceFilesAssumption
  PROVE  /\ NoBox \in Sandbox /\ Idle \in Activity
         /\ None \in Id /\ 1 \in Gen /\ Gen \subseteq Nat
         /\ \A b \in Box : IdOf(b) \in Id
  <1>1. NoBox \in Sandbox
    BY DEF NoBox, Sandbox, Phase
  <1>2. 1 \in Gen /\ Gen \subseteq Nat
    BY DEF WorkspaceFilesAssumption, Gen
  <1>3. None \in Id /\ \A b \in Box : IdOf(b) \in Id
    BY DEF Id, IdOf
  <1>4. Idle \in Activity
    BY <1>2, <1>3 DEF Idle, Activity, Stage, Job
  <1> QED BY <1>1, <1>2, <1>3, <1>4

LEMMA WorkerMoves ==
  ASSUME WorkerTyped, NEW w \in Worker, NEW a \in Activity, Set(w, a)
  PROVE  WorkerTyped' /\ worker'[w] = a /\ \A v \in Worker : v # w => worker'[v] = worker[v]
  BY DEF WorkerTyped, Set

LEMMA BoxChanges ==
  ASSUME BoxTyped, NEW b \in Box, NEW x \in Sandbox, box' = [box EXCEPT ![b] = x]
  PROVE  BoxTyped' /\ box'[b] = x /\ \A c \in Box : c # b => box'[c] = box[c]
  BY DEF BoxTyped

LEMMA ChosenIsThere ==
  ASSUME NEW S, S # {}
  PROVE  (CHOOSE b \in S : TRUE) \in S
  OBVIOUS
-----------------------------------------------------------------------------
(***************************************************************************)
(* What a step does, field by field.                                       *)
(***************************************************************************)
Rest(w)     == \A v \in Worker : v # w => worker'[v] = worker[v]
Moved(w, pc) == WorkerTyped' /\ Rest(w) /\ worker'[w].pc = pc
Dropped(w)  == WorkerTyped' /\ Rest(w) /\ worker'[w] = Idle
SameTask(w) == /\ worker'[w].job = worker[w].job /\ worker'[w].gen = worker[w].gen
               /\ worker'[w].was = worker[w].was /\ worker'[w].had = worker[w].had
SameFind(w) == /\ worker'[w].loc = worker[w].loc /\ worker'[w].disp = worker[w].disp
SameUse(w)  == worker'[w].used = worker[w].used
SameSource(w) == worker'[w].stored = worker[w].stored
OnlyMoved(w, pc) == Moved(w, pc) /\ SameTask(w) /\ SameFind(w) /\ SameUse(w) /\ SameSource(w)

RowIs(state, provider, gen, transition) ==
  /\ RowTyped'
  /\ row'.state = state /\ row'.provider = provider /\ row'.gen = gen
  /\ row'.transition = transition

OtherBoxes(b) == \A c \in Box : c # b => box'[c] = box[c]
BoxIs(b, phase, from, snap, files) ==
  /\ BoxTyped' /\ OtherBoxes(b)
  /\ box'[b].phase = phase /\ box'[b].from = from /\ box'[b].snap = snap /\ box'[b].files = files

LEMMA StepMoves ==
  ASSUME WorkerTyped, NEW w \in Worker, NEW pc \in Stage, Set(w, [worker[w] EXCEPT !.pc = pc])
  PROVE  OnlyMoved(w, pc)
  <1> DEFINE a == [worker[w] EXCEPT !.pc = pc]
  <1>1. worker[w] \in Activity
    BY DEF WorkerTyped
  <1>2. /\ a \in Activity /\ a.pc = pc /\ a.job = worker[w].job /\ a.gen = worker[w].gen
        /\ a.was = worker[w].was /\ a.had = worker[w].had /\ a.stored = worker[w].stored
        /\ a.loc = worker[w].loc /\ a.disp = worker[w].disp /\ a.used = worker[w].used
    BY <1>1 DEF Activity
  <1> HIDE DEF a
  <1>3. Set(w, a)
    BY DEF a
  <1> QED BY <1>2, <1>3, WorkerMoves
          DEF OnlyMoved, Moved, Rest, SameTask, SameFind, SameUse, SameSource

LEMMA StepUses ==
  ASSUME WorkerTyped, NEW w \in Worker, NEW pc \in Stage, NEW b \in Box,
         Set(w, [worker[w] EXCEPT !.pc = pc, !.used = b])
  PROVE  /\ Moved(w, pc) /\ SameTask(w) /\ SameFind(w) /\ SameSource(w)
         /\ worker'[w].used = b
  <1> DEFINE a == [worker[w] EXCEPT !.pc = pc, !.used = b]
  <1>1. worker[w] \in Activity
    BY DEF WorkerTyped
  <1>2. /\ a \in Activity /\ a.pc = pc /\ a.job = worker[w].job /\ a.gen = worker[w].gen
        /\ a.was = worker[w].was /\ a.had = worker[w].had /\ a.stored = worker[w].stored
        /\ a.loc = worker[w].loc /\ a.disp = worker[w].disp /\ a.used = b
    BY <1>1 DEF Activity
  <1> HIDE DEF a
  <1>3. Set(w, a)
    BY DEF a
  <1> QED BY <1>2, <1>3, WorkerMoves DEF Moved, Rest, SameTask, SameFind, SameSource

LEMMA StepFinds ==
  ASSUME WorkerTyped, NEW w \in Worker, NEW pc \in Stage, NEW b \in Box \cup {None},
         Set(w, [worker[w] EXCEPT !.pc = pc, !.loc = b])
  PROVE  /\ Moved(w, pc) /\ SameTask(w) /\ SameUse(w) /\ SameSource(w)
         /\ worker'[w].loc = b /\ worker'[w].disp = worker[w].disp
  <1> DEFINE a == [worker[w] EXCEPT !.pc = pc, !.loc = b]
  <1>1. worker[w] \in Activity
    BY DEF WorkerTyped
  <1>2. /\ a \in Activity /\ a.pc = pc /\ a.job = worker[w].job /\ a.gen = worker[w].gen
        /\ a.was = worker[w].was /\ a.had = worker[w].had /\ a.stored = worker[w].stored
        /\ a.loc = b /\ a.disp = worker[w].disp /\ a.used = worker[w].used
    BY <1>1 DEF Activity
  <1> HIDE DEF a
  <1>3. Set(w, a)
    BY DEF a
  <1> QED BY <1>2, <1>3, WorkerMoves DEF Moved, Rest, SameTask, SameUse, SameSource

LEMMA OverDrops ==
  ASSUME WorkspaceFilesAssumption, WorkerTyped, OthersTyped, NEW w \in Worker, Over(w)
  PROVE  Dropped(w) /\ lock' \in Worker \cup {None} /\ (lock = w => lock' = None)
         /\ (lock # w => lock' = lock)
  BY ConstantsFit, WorkerMoves DEF Over, OthersTyped, Dropped, Rest

LEMMA BeginDoes ==
  ASSUME WorkspaceFilesAssumption, Safe, NEW w \in Worker, NEW job \in Job, Begin(w, job)
  PROVE  /\ Moved(w, FirstStep(job)) /\ FirstStep(job) \in {"recover", "provision", "resolve"}
         /\ worker'[w].job = job /\ worker'[w].gen = row.gen
         /\ worker'[w].had = row.provider /\ worker'[w].stored = row.provider
         /\ worker'[w].loc = None /\ worker'[w].disp = None /\ worker'[w].used = None
         /\ RowIs(row'.state, row.provider, row.gen, IF job \in Cleaning THEN job ELSE row.transition)
         /\ row'.state # row.state => row'.state = "provisioning" /\ job = "prepare"
  <1> DEFINE a == [Idle EXCEPT !.pc = FirstStep(job), !.job = job, !.gen = row.gen,
                               !.was = row.state = "deleted",
                               !.had = row.provider, !.stored = row.provider]
  <1>1. row \in RowType /\ row.gen \in Gen /\ row.provider \in Id
    BY DEF Safe, RowTyped, RowType
  <1>2. FirstStep(job) \in {"recover", "provision", "resolve"}
    BY DEF FirstStep
  <1>3. /\ a \in Activity /\ a.pc = FirstStep(job) /\ a.job = job /\ a.gen = row.gen
        /\ a.had = row.provider /\ a.stored = row.provider
        /\ a.loc = None /\ a.disp = None /\ a.used = None
    BY <1>1, <1>2 DEF Idle, Activity, Stage
  <1> HIDE DEF a
  <1>4. Set(w, a)
    BY DEF a, Begin
  <1>5. Moved(w, FirstStep(job)) /\ worker'[w] = a
    BY <1>3, <1>4, WorkerMoves DEF Moved, Rest, Safe
  <1>6. /\ RowIs(row'.state, row.provider, row.gen, IF job \in Cleaning THEN job ELSE row.transition)
        /\ row'.state # row.state => row'.state = "provisioning" /\ job = "prepare"
    BY <1>1 DEF Begin, RowIs, RowTyped, RowType, Cleaning
  <1> QED BY <1>2, <1>3, <1>5, <1>6

LEMMA RecoverDoes ==
  ASSUME WorkspaceFilesAssumption, Safe, NEW w \in Worker, Recover(w)
  PROVE  /\ OnlyMoved(w, "mutate")
         /\ \/ Located(worker[w].stored) = {} /\ row' = row
            \/ \E b \in Located(worker[w].stored) :
                 RowIs(row.state, IdOf(b), row.gen, row.transition)
  <1>1. OnlyMoved(w, "mutate")
    BY StepMoves DEF Recover, Safe, Stage
  <1>2. ASSUME Located(worker[w].stored) # {}
        PROVE  \E b \in Located(worker[w].stored) :
                 RowIs(row.state, IdOf(b), row.gen, row.transition)
    <2>1. PICK b \in Located(worker[w].stored) : row' = [row EXCEPT !.provider = IdOf(b)]
      BY <1>2, ChosenIsThere DEF Recover
    <2>2. b \in Box
      BY DEF Located, Running, Present
    <2> QED BY <2>1, <2>2, ConstantsFit DEF RowIs, RowTyped, RowType, Safe
  <1> QED BY <1>1, <1>2 DEF Recover

LEMMA MutateDoes ==
  ASSUME WorkspaceFilesAssumption, Safe, NEW w \in Worker, Mutate(w)
  PROVE  \/ /\ worker[w].job = "prepare" /\ row.transition = "pause"
            /\ RowIs(row.state, row.provider, row.gen, None)
            /\ Moved(w, "provision") /\ SameTask(w) /\ SameFind(w) /\ SameUse(w)
            /\ worker'[w].stored = row.provider
            /\ box' = box
         \/ /\ worker[w].job \in Cleaning \cup {"replace"}
            /\ worker[w].job # "replace" => MayClean(worker[w].job) /\ row.transition = worker[w].job
            /\ row' = row
            /\ SameTask(w) /\ SameUse(w) /\ SameSource(w) /\ worker'[w].disp = worker[w].disp
            /\ \/ /\ Located(row.provider) = {} /\ Moved(w, "record")
                  /\ worker'[w].loc = None /\ box' = box
               \/ \E b \in Located(row.provider) :
                    /\ Moved(w, "stopping") /\ worker'[w].loc = b
                    /\ BoxIs(b, box[b].phase, box[b].from, box[b].snap, box[b].files)
  <1>1. CASE worker[w].job = "prepare"
    <2> DEFINE a == [worker[w] EXCEPT !.pc = "provision", !.stored = row.provider]
    <2>1. worker[w] \in Activity /\ row \in RowType
      BY DEF Safe, WorkerTyped, RowTyped
    <2>2. /\ a \in Activity /\ a.pc = "provision" /\ a.job = worker[w].job
          /\ a.gen = worker[w].gen /\ a.was = worker[w].was /\ a.had = worker[w].had
          /\ a.stored = row.provider /\ a.loc = worker[w].loc /\ a.disp = worker[w].disp
          /\ a.used = worker[w].used
      BY <2>1 DEF Activity, RowType, Stage
    <2> HIDE DEF a
    <2>3. Set(w, a)
      BY <1>1 DEF a, Mutate
    <2>4. Moved(w, "provision") /\ worker'[w] = a
      BY <2>2, <2>3, WorkerMoves DEF Moved, Rest, Safe
    <2>5. RowIs(row.state, row.provider, row.gen, None)
      BY <1>1, <2>1 DEF Mutate, RowIs, RowTyped, RowType
    <2> QED BY <1>1, <2>2, <2>4, <2>5 DEF Mutate, SameTask, SameFind, SameUse
  <1>2. CASE worker[w].job # "prepare"
    <2>1. worker[w].job \in Cleaning \cup {"replace"}
      BY <1>2, Zenon DEF Safe, JobsFit, Fits, Mutate, At, Cleaning
    <2>2. /\ worker[w].job # "replace" => MayClean(worker[w].job) /\ row.transition = worker[w].job
          /\ row' = row
      BY <1>2, Zenon DEF Mutate
    <2>3. CASE Located(row.provider) = {}
      <3>1. Set(w, [worker[w] EXCEPT !.pc = "record", !.loc = None]) /\ box' = box
        BY <1>2, <2>3 DEF Mutate
      <3>2. "record" \in Stage /\ None \in Box \cup {None} /\ WorkerTyped
        BY DEF Stage, Safe
      <3> QED BY <2>1, <2>2, <2>3, <3>1, <3>2, StepFinds, Zenon
    <2>4. CASE Located(row.provider) # {}
      <3>1. PICK b \in Located(row.provider) :
              /\ Set(w, [worker[w] EXCEPT !.pc = "stopping", !.loc = b])
              /\ box' = [box EXCEPT ![b].ending = @ \/ box[b].phase = "running"]
        BY <1>2, <2>4, Zenon DEF Mutate
      <3>2. b \in Box /\ box[b] \in Sandbox
        BY DEF Located, Running, Present, Safe, BoxTyped
      <3>3. BoxIs(b, box[b].phase, box[b].from, box[b].snap, box[b].files)
        BY <3>1, <3>2 DEF BoxIs, OtherBoxes, BoxTyped, Sandbox, Safe
      <3>4. "stopping" \in Stage /\ b \in Box \cup {None} /\ WorkerTyped
        BY <3>2 DEF Stage, Safe
      <3>5. /\ Moved(w, "stopping") /\ SameTask(w) /\ SameUse(w) /\ SameSource(w)
            /\ worker'[w].loc = b /\ worker'[w].disp = worker[w].disp
        BY <3>1, <3>2, <3>4, StepFinds, Zenon
      <3> QED BY <2>1, <2>2, <3>3, <3>5
    <2> QED BY <2>3, <2>4
  <1> QED BY <1>1, <1>2

LEMMA StoppedDoes ==
  ASSUME WorkspaceFilesAssumption, Safe, NEW w \in Worker, Stopped(w)
  PROVE  LET b == worker[w].loc IN
         /\ OnlyMoved(w, IF worker[w].job \in Cleaning \cup {"replace"} THEN "record" ELSE "create")
         /\ b \in Box /\ box[b].phase = "finished"
         /\ IF Erases(worker[w].job)
            THEN BoxIs(b, IF Docker THEN "gone" ELSE "finished", box[b].from, FALSE, box[b].files)
            ELSE box' = box
  <1> DEFINE b == worker[w].loc
             pc == IF worker[w].job \in {"pause", "delete", "replace"} THEN "record" ELSE "create"
  <1>1. b \in Box /\ box[b] \in Sandbox /\ box[b].phase = "finished"
    BY DEF Safe, JobsFit, Fits, Stopped, At, Ended, BoxTyped
  <1>2. pc \in Stage /\ WorkerTyped /\ Set(w, [worker[w] EXCEPT !.pc = pc])
    BY DEF Stage, Safe, Stopped
  <1>3. OnlyMoved(w, pc)
    <2> HIDE DEF pc
    <2> QED BY <1>2, StepMoves
  <1>4. IF Erases(worker[w].job)
        THEN BoxIs(b, IF Docker THEN "gone" ELSE "finished", box[b].from, FALSE, box[b].files)
        ELSE box' = box
    <2> DEFINE x == [box[b] EXCEPT !.snap = FALSE, !.phase = IF Docker THEN "gone" ELSE @]
    <2>1. /\ x \in Sandbox /\ x.phase = IF Docker THEN "gone" ELSE "finished"
          /\ x.from = box[b].from /\ x.snap = FALSE /\ x.files = box[b].files
      BY <1>1 DEF Sandbox, Phase
    <2>2. box' = IF Erases(worker[w].job) THEN [box EXCEPT ![b] = x] ELSE box
      BY <1>1 DEF Stopped, Safe, BoxTyped
    <2> HIDE DEF x, b
    <2> QED BY <1>1, <2>1, <2>2, BoxChanges DEF BoxIs, OtherBoxes, Safe
  <1> QED BY <1>1, <1>3, <1>4 DEF Cleaning

LEMMA RecordDoes ==
  ASSUME WorkspaceFilesAssumption, Safe, NEW w \in Worker, Record(w)
  PROVE  /\ Dropped(w) /\ lock' \in Worker \cup {None} /\ (lock # w => lock' = lock)
         /\ \/ /\ worker[w].job = "replace"
               /\ row' = row \/ /\ row.gen = worker[w].gen /\ row.gen < MaxGen
                                /\ RowIs("provisioning", None, row.gen + 1, None)
            \/ /\ worker[w].job \in Cleaning
               /\ IF worker[w].loc = None \/ worker[w].job = "delete"
                  THEN RowIs("deleted", None, row.gen, None)
                  ELSE worker[w].loc \in Box /\ RowIs("paused", IdOf(worker[w].loc), row.gen, None)
  <1>1. Over(w) /\ WorkerTyped /\ OthersTyped
    BY DEF Record, Safe
  <1>2. Dropped(w) /\ lock' \in Worker \cup {None} /\ (lock # w => lock' = lock)
    BY <1>1, OverDrops
  <1>3. row \in RowType /\ worker[w] \in Activity /\ row.gen \in Gen
    BY DEF Safe, RowTyped, RowType, WorkerTyped
  <1>4. CASE worker[w].job = "replace"
    <2>1. CASE row.gen = worker[w].gen /\ worker[w].gen < MaxGen
      <3>1. row.gen + 1 \in Gen
        BY <1>3, <2>1 DEF Gen, WorkspaceFilesAssumption
      <3> QED BY <1>2, <1>4, <2>1, <3>1, ConstantsFit DEF Record, RowIs, RowTyped, RowType
    <2>2. CASE ~(row.gen = worker[w].gen /\ worker[w].gen < MaxGen)
      BY <1>2, <1>4, <2>2 DEF Record
    <2> QED BY <2>1, <2>2
  <1>5. CASE worker[w].job # "replace"
    <2>1. worker[w].job \in Cleaning /\ worker[w].loc \in Box \cup {None}
      BY <1>3, <1>5 DEF Safe, JobsFit, Fits, Record, At, Cleaning, Activity
    <2>2. row' = [row EXCEPT !.transition = None,
            !.state = IF worker[w].loc = None \/ worker[w].job = "delete" THEN "deleted" ELSE "paused",
            !.provider = IF worker[w].loc = None \/ worker[w].job = "delete"
                         THEN None ELSE IdOf(worker[w].loc)]
      BY <1>5 DEF Record
    <2>3. CASE worker[w].loc = None \/ worker[w].job = "delete"
      BY <1>2, <1>3, <2>1, <2>2, <2>3, ConstantsFit DEF RowIs, RowTyped, RowType
    <2>4. CASE ~(worker[w].loc = None \/ worker[w].job = "delete")
      BY <1>2, <1>3, <2>1, <2>2, <2>4, ConstantsFit DEF RowIs, RowTyped, RowType
    <2> QED BY <2>3, <2>4
  <1> QED BY <1>4, <1>5

LEMMA ProvisionDoes ==
  ASSUME WorkspaceFilesAssumption, Safe, NEW w \in Worker, Provision(w)
  PROVE  /\ OnlyMoved(w, "resolve")
         /\ \/ row' = row
            \/ MayUpdate(w) /\ RowIs("provisioning", worker[w].stored, row.gen, row.transition)
  <1>1. OnlyMoved(w, "resolve")
    BY StepMoves DEF Provision, Safe, Stage
  <1>2. row \in RowType /\ worker[w].stored \in Id
    BY DEF Safe, RowTyped, WorkerTyped, Activity
  <1>3. CASE row.state = "provisioning"
    BY <1>1, <1>3 DEF Provision
  <1>4. CASE row.state # "provisioning"
    <2>1. MayUpdate(w) /\ row' = [row EXCEPT !.state = "provisioning", !.provider = worker[w].stored]
      BY <1>4 DEF Provision
    <2> QED BY <1>1, <1>2, <2>1 DEF RowIs, RowTyped, RowType
  <1> QED BY <1>3, <1>4

LEMMA ResolveDoes ==
  ASSUME WorkspaceFilesAssumption, Safe, NEW w \in Worker, Resolve(w)
  PROVE  LET a == worker[w] IN
         /\ SameTask(w) /\ SameUse(w)
         /\ \/ /\ Located(a.stored) = {} /\ a.job # "execute"
               /\ Moved(w, "create") /\ SameSource(w)
               /\ worker'[w].loc = None /\ worker'[w].disp = a.disp
            \/ \E b \in Located(a.stored) :
                 /\ b \in Box /\ Moved(w, "ensure") /\ worker'[w].loc = b
                 /\ worker'[w].stored = IF a.job = "execute" THEN IdOf(b) ELSE a.stored
                 /\ worker'[w].disp = IF Continues(b, worker'[w].stored) THEN "existing" ELSE "replaced"
  <1>1. worker[w] \in Activity /\ WorkerTyped
    BY DEF Safe, WorkerTyped
  <1>2. CASE Located(worker[w].stored) = {}
    <2>1. worker[w].job # "execute" /\ Set(w, [worker[w] EXCEPT !.pc = "create", !.loc = None])
      BY <1>2 DEF Resolve
    <2>2. "create" \in Stage /\ None \in Box \cup {None}
      BY DEF Stage
    <2> QED BY <1>1, <1>2, <2>1, <2>2, StepFinds, Zenon
  <1>3. CASE Located(worker[w].stored) # {}
    <2> DEFINE stored(b) == IF worker[w].job = "execute" THEN IdOf(b) ELSE worker[w].stored
               a(b) == [worker[w] EXCEPT !.pc = "ensure", !.loc = b, !.stored = stored(b),
                          !.disp = IF Continues(b, stored(b)) THEN "existing" ELSE "replaced"]
    <2>1. PICK b \in Located(worker[w].stored) : Set(w, a(b))
      BY <1>3, Zenon DEF Resolve
    <2>2. b \in Box
      BY DEF Located, Running, Present
    <2>3. stored(b) \in Id
      BY <1>1, <2>2, ConstantsFit DEF Activity
    <2> HIDE DEF stored
    <2>4. /\ a(b) \in Activity /\ a(b).pc = "ensure" /\ a(b).job = worker[w].job
          /\ a(b).gen = worker[w].gen /\ a(b).was = worker[w].was /\ a(b).had = worker[w].had
          /\ a(b).stored = stored(b) /\ a(b).loc = b /\ a(b).used = worker[w].used
          /\ a(b).disp = IF Continues(b, stored(b)) THEN "existing" ELSE "replaced"
      BY <1>1, <2>2, <2>3 DEF Activity, Stage
    <2> HIDE DEF a
    <2>5. Moved(w, "ensure") /\ worker'[w] = a(b)
      BY <1>1, <2>1, <2>4, WorkerMoves DEF Moved, Rest
    <2> QED BY <2>1, <2>2, <2>4, <2>5 DEF SameTask, SameUse, stored
  <1> QED BY <1>2, <1>3

LEMMA EnsureDoes ==
  ASSUME WorkspaceFilesAssumption, Safe, NEW w \in Worker, Ensure(w)
  PROVE  LET b == worker[w].loc IN
         /\ b \in Box /\ SameTask(w) /\ SameFind(w) /\ SameSource(w)
         /\ \/ /\ b \in IF Docker THEN Present ELSE Running
               /\ Moved(w, "settle") /\ worker'[w].used = b
               /\ BoxIs(b, "running", box[b].from, box[b].snap, box[b].files)
            \/ /\ ~Docker /\ b \in Running /\ Moved(w, "stopping") /\ SameUse(w)
               /\ BoxIs(b, "running", box[b].from, box[b].snap, box[b].files)
            \/ /\ ~Docker /\ box[b].phase = "finished" /\ Moved(w, "create") /\ SameUse(w)
               /\ box' = box
  <1> DEFINE b == worker[w].loc
  <1>1. b \in Box /\ box[b] \in Sandbox /\ WorkerTyped
    BY DEF Safe, JobsFit, Fits, Ensure, At, BoxTyped
  <1>2. {"settle", "stopping", "create"} \subseteq Stage
    BY DEF Stage
  <1>3. CASE /\ b \in IF Docker THEN Present ELSE Running
             /\ Set(w, [worker[w] EXCEPT !.pc = "settle", !.used = b])
             /\ box' = [box EXCEPT ![b].phase = "running"]
    <2>1. BoxIs(b, "running", box[b].from, box[b].snap, box[b].files)
      BY <1>1, <1>3 DEF BoxIs, OtherBoxes, BoxTyped, Sandbox, Phase, Safe
    <2> HIDE DEF b
    <2>2. /\ Moved(w, "settle") /\ SameTask(w) /\ SameFind(w) /\ SameSource(w)
          /\ worker'[w].used = b
      BY <1>1, <1>2, <1>3, StepUses, Zenon
    <2> QED BY <1>1, <1>3, <2>1, <2>2 DEF b
  <1>4. CASE /\ ~Docker /\ box[b].phase = "running"
             /\ Set(w, [worker[w] EXCEPT !.pc = "stopping"])
             /\ box' = [box EXCEPT ![b].ending = TRUE]
    <2>1. BoxIs(b, "running", box[b].from, box[b].snap, box[b].files)
      BY <1>1, <1>4 DEF BoxIs, OtherBoxes, BoxTyped, Sandbox, Phase, Safe
    <2>2. OnlyMoved(w, "stopping")
      BY <1>1, <1>2, <1>4, StepMoves
    <2> QED BY <1>1, <1>4, <2>1, <2>2 DEF OnlyMoved, Running
  <1>5. CASE /\ ~Docker /\ box[b].phase = "finished"
             /\ Set(w, [worker[w] EXCEPT !.pc = "create"])
             /\ box' = box
    <2>1. OnlyMoved(w, "create")
      BY <1>1, <1>2, <1>5, StepMoves
    <2> QED BY <1>1, <1>5, <2>1 DEF OnlyMoved
  <1> QED BY <1>3, <1>4, <1>5 DEF Ensure

LEMMA CreateDoes ==
  ASSUME WorkspaceFilesAssumption, Safe, NEW w \in Worker, Create(w)
  PROVE  LET a        == worker[w]
             restored == a.loc # None /\ box[a.loc].snap IN
         \E b \in Unused :
           /\ b \in Box /\ Moved(w, "asked") /\ SameTask(w) /\ SameSource(w)
           /\ worker'[w].loc = a.loc /\ worker'[w].used = b
           /\ worker'[w].disp =
                IF restored THEN (IF a.disp = "replaced" THEN "replaced" ELSE "restored")
                ELSE IF a.stored # None THEN "replaced" ELSE "created"
           /\ BoxIs(b, "asked", IF restored THEN a.loc ELSE None, FALSE,
                    IF restored THEN box[a.loc].files ELSE {})
  <1> DEFINE rec == worker[w]
             restored == rec.loc # None /\ box[rec.loc].snap
             from  == IF restored THEN rec.loc ELSE None
             files == IF restored THEN box[rec.loc].files ELSE {}
             disp  == IF restored THEN (IF rec.disp = "replaced" THEN "replaced" ELSE "restored")
                      ELSE IF rec.stored # None THEN "replaced" ELSE "created"
             x == [NoBox EXCEPT !.phase = "asked", !.from = from, !.files = files]
             a(b) == [rec EXCEPT !.pc = "asked", !.used = b, !.disp = disp]
  <1>1. rec \in Activity /\ WorkerTyped /\ BoxTyped /\ rec.loc \in Box \cup {None}
    BY DEF Safe, WorkerTyped, Activity
  <1>2. from \in Box \cup {None} /\ files \in SUBSET Write
    BY <1>1 DEF BoxTyped, Sandbox
  <1>3. disp \in {"restored", "replaced", "created"}
    OBVIOUS
  <1>4. PICK b \in Unused : box' = [box EXCEPT ![b] = x] /\ Set(w, a(b))
    BY ChosenIsThere, Zenon DEF Create
  <1>5. b \in Box
    BY DEF Unused
  <1> HIDE DEF from, files, disp, rec
  <1>6. /\ x \in Sandbox /\ x.phase = "asked" /\ x.from = from /\ x.snap = FALSE /\ x.files = files
    BY <1>2 DEF NoBox, Sandbox, Phase
  <1>7. /\ a(b) \in Activity /\ a(b).pc = "asked" /\ a(b).job = rec.job /\ a(b).gen = rec.gen
        /\ a(b).was = rec.was /\ a(b).had = rec.had /\ a(b).stored = rec.stored
        /\ a(b).loc = rec.loc /\ a(b).disp = disp /\ a(b).used = b
    BY <1>1, <1>3, <1>5 DEF Activity, Stage
  <1> HIDE DEF x, a
  <1>8. Moved(w, "asked") /\ worker'[w] = a(b)
    BY <1>1, <1>4, <1>7, WorkerMoves DEF Moved, Rest
  <1>9. BoxIs(b, "asked", from, FALSE, files)
    BY <1>1, <1>4, <1>5, <1>6, BoxChanges DEF BoxIs, OtherBoxes
  <1> QED BY <1>5, <1>7, <1>8, <1>9 DEF SameTask, SameSource, rec, from, files, disp

LEMMA CreatedDoes ==
  ASSUME WorkspaceFilesAssumption, Safe, NEW w \in Worker, Created(w)
  PROVE  \E b \in Box :
           /\ IF Docker THEN b = worker[w].used /\ box[b].phase = "finished" ELSE b \in Running
           /\ Moved(w, "settle") /\ SameTask(w) /\ SameFind(w) /\ SameSource(w)
           /\ worker'[w].used = b
           /\ BoxIs(b, "running", box[b].from, box[b].snap, box[b].files)
  <1>1. PICK b \in Box :
          /\ IF Docker THEN b = worker[w].used /\ box[b].phase = "finished" ELSE b \in Running
          /\ Set(w, [worker[w] EXCEPT !.pc = "settle", !.used = b])
          /\ box' = [box EXCEPT ![b].phase = "running"]
    BY Zenon DEF Created
  <1>2. box[b] \in Sandbox /\ WorkerTyped /\ "settle" \in Stage
    BY DEF Safe, BoxTyped, Stage
  <1>3. BoxIs(b, "running", box[b].from, box[b].snap, box[b].files)
    BY <1>1, <1>2 DEF BoxIs, OtherBoxes, BoxTyped, Sandbox, Phase, Safe
  <1>4. /\ Moved(w, "settle") /\ SameTask(w) /\ SameFind(w) /\ SameSource(w) /\ worker'[w].used = b
    BY <1>1, <1>2, StepUses, Zenon
  <1> QED BY <1>1, <1>3, <1>4

LEMMA ResetDoes ==
  ASSUME WorkspaceFilesAssumption, RowTyped, NEW id \in Id, ResetTo(id)
  PROVE  row.gen < MaxGen /\ RowIs("provisioning", id, row.gen + 1, None)
  <1>1. row \in RowType /\ row.gen \in Gen /\ row.gen < MaxGen
    BY DEF RowTyped, RowType, ResetTo
  <1>2. row.gen + 1 \in Gen
    BY <1>1 DEF WorkspaceFilesAssumption, Gen
  <1>3. row' = [state |-> "provisioning", provider |-> id, gen |-> row.gen + 1, transition |-> None]
    BY DEF ResetTo
  <1> QED BY <1>1, <1>2, <1>3 DEF RowIs, RowTyped, RowType

LEMMA SettleDoes ==
  ASSUME WorkspaceFilesAssumption, Safe, NEW w \in Worker, Settle(w)
  PROVE  LET a  == worker[w]
             id == IdOf(a.used) IN
         /\ a.used \in Box
         /\ \/ /\ a.job = "prepare" /\ row.gen = a.gen
               /\ Moved(w, "claim") /\ SameFind(w) /\ SameUse(w) /\ SameSource(w)
               /\ worker'[w].job = a.job /\ worker'[w].had = a.had
               /\ \/ /\ IsNew(a) /\ row.gen < MaxGen /\ worker'[w].gen = row.gen + 1
                     /\ RowIs("provisioning", id, row.gen + 1, None)
                  \/ /\ ~IsNew(a) /\ row.transition = None /\ worker'[w].gen = a.gen
                     /\ RowIs("provisioning", id, row.gen, None)
               /\ UNCHANGED << lock, run >>
            \/ /\ a.job = "wake" /\ row.gen = a.gen
               /\ Dropped(w) /\ lock' \in Worker \cup {None} /\ (lock # w => lock' = lock)
               /\ \/ /\ IsNew(a) /\ row.gen < MaxGen
                     /\ RowIs("provisioning", id, row.gen + 1, None)
                  \/ /\ ~IsNew(a) /\ row.transition = None
                     /\ RowIs("running", id, row.gen, None)
               /\ run' = run
            \/ /\ a.job = "execute" /\ a.disp = "replaced"
               /\ Dropped(w) /\ lock' \in Worker \cup {None} /\ (lock # w => lock' = lock)
               /\ row' = row /\ Unprepare
            \/ /\ a.job = "execute" /\ a.disp # "replaced"
               /\ OnlyMoved(w, "claim")
               /\ \/ id = a.had /\ row' = row
                  \/ id # a.had /\ RowIs(row.state, id, row.gen, row.transition)
               /\ UNCHANGED << lock, run >>
  <1> DEFINE rec == worker[w]
             id  == IdOf(rec.used)
  <1>1. rec \in Activity /\ WorkerTyped /\ OthersTyped /\ RowTyped /\ row \in RowType
    BY DEF Safe, WorkerTyped, RowTyped
  <1>2. rec.used \in Box /\ id \in Id
    BY ConstantsFit DEF Safe, JobsFit, Fits, Settle, At
  <1>3. ASSUME Over(w)
        PROVE  Dropped(w) /\ lock' \in Worker \cup {None} /\ (lock # w => lock' = lock)
    BY <1>1, <1>3, OverDrops
  <1>4. ASSUME ResetTo(id)
        PROVE  row.gen < MaxGen /\ RowIs("provisioning", id, row.gen + 1, None)
    <2> HIDE DEF id
    <2> QED BY <1>1, <1>2, <1>4, ResetDoes
  <1>5. ASSUME Set(w, [rec EXCEPT !.pc = "claim"]) PROVE OnlyMoved(w, "claim")
    BY <1>1, <1>5, StepMoves DEF Stage
  <1>6. ASSUME rec.job = "prepare"
        PROVE  /\ rec.job = "prepare" /\ row.gen = rec.gen
               /\ Moved(w, "claim") /\ SameFind(w) /\ SameUse(w) /\ SameSource(w)
               /\ worker'[w].job = rec.job /\ worker'[w].had = rec.had
               /\ \/ /\ IsNew(rec) /\ row.gen < MaxGen /\ worker'[w].gen = row.gen + 1
                     /\ RowIs("provisioning", id, row.gen + 1, None)
                  \/ /\ ~IsNew(rec) /\ row.transition = None /\ worker'[w].gen = rec.gen
                     /\ RowIs("provisioning", id, row.gen, None)
               /\ UNCHANGED << lock, run >>
    <2>1. row.gen = rec.gen /\ UNCHANGED << lock, run >>
      BY <1>6 DEF Settle
    <2>2. CASE IsNew(rec)
      <3> DEFINE a == [rec EXCEPT !.pc = "claim", !.gen = @ + 1]
      <3>1. ResetTo(id) /\ Set(w, a)
        BY <1>6, <2>2 DEF Settle
      <3>2. row.gen < MaxGen /\ row.gen + 1 \in Gen
        BY <1>1, <1>4, <3>1 DEF RowType, Gen, WorkspaceFilesAssumption
      <3>3. /\ a \in Activity /\ a.pc = "claim" /\ a.gen = row.gen + 1 /\ a.job = rec.job
            /\ a.had = rec.had /\ a.stored = rec.stored /\ a.loc = rec.loc /\ a.disp = rec.disp
            /\ a.used = rec.used
        BY <1>1, <2>1, <3>2 DEF Activity, Stage
      <3> HIDE DEF a
      <3>4. Moved(w, "claim") /\ worker'[w] = a
        BY <1>1, <3>1, <3>3, WorkerMoves DEF Moved, Rest
      <3>5. SameFind(w) /\ SameUse(w) /\ SameSource(w)
        BY <3>3, <3>4 DEF SameFind, SameUse, SameSource
      <3> QED BY <1>4, <1>6, <2>1, <2>2, <3>1, <3>2, <3>3, <3>4, <3>5
    <2>3. CASE ~IsNew(rec)
      <3>1. /\ row.transition = None /\ Set(w, [rec EXCEPT !.pc = "claim"])
            /\ row' = [row EXCEPT !.state = "provisioning", !.provider = id]
        BY <1>6, <2>3 DEF Settle
      <3>2. OnlyMoved(w, "claim")
        BY <1>5, <3>1
      <3>3. RowIs("provisioning", id, row.gen, None)
        BY <1>1, <1>2, <3>1 DEF RowIs, RowTyped, RowType
      <3> QED BY <1>6, <2>1, <2>3, <3>1, <3>2, <3>3 DEF OnlyMoved, SameTask
    <2> QED BY <2>2, <2>3
  <1>7. ASSUME rec.job = "wake"
        PROVE  /\ row.gen = rec.gen /\ Over(w) /\ run' = run
               /\ \/ /\ IsNew(rec) /\ row.gen < MaxGen
                     /\ RowIs("provisioning", id, row.gen + 1, None)
                  \/ /\ ~IsNew(rec) /\ row.transition = None
                     /\ RowIs("running", id, row.gen, None)
    <2>1. row.gen = rec.gen /\ Over(w) /\ run' = run
      BY <1>7 DEF Settle
    <2>2. CASE IsNew(rec)
      BY <1>4, <1>7, <2>1, <2>2 DEF Settle
    <2>3. CASE ~IsNew(rec)
      <3>1. row.transition = None /\ row' = [row EXCEPT !.state = "running", !.provider = id]
        BY <1>7, <2>3 DEF Settle
      <3> QED BY <1>1, <1>2, <2>1, <2>3, <3>1 DEF RowIs, RowTyped, RowType
    <2> QED BY <2>2, <2>3
  <1>8. ASSUME rec.job = "execute", rec.disp = "replaced"
        PROVE  row' = row /\ Unprepare /\ Over(w)
    BY <1>8 DEF Settle
  <1>9. ASSUME rec.job = "execute", rec.disp # "replaced"
        PROVE  /\ OnlyMoved(w, "claim") /\ UNCHANGED << lock, run >>
               /\ \/ id = rec.had /\ row' = row
                  \/ id # rec.had /\ RowIs(row.state, id, row.gen, row.transition)
    <2>1. /\ Set(w, [rec EXCEPT !.pc = "claim"]) /\ UNCHANGED << lock, run >>
          /\ row' = IF id # rec.had THEN [row EXCEPT !.provider = id] ELSE row
      BY <1>9 DEF Settle, NeedsRecord
    <2> QED BY <1>1, <1>2, <1>5, <2>1 DEF RowIs, RowTyped, RowType
  <1>10. rec.job \in {"prepare", "wake", "execute"}
    BY DEF Settle
  <1> HIDE DEF rec, id
  <1> QED BY <1>2, <1>3, <1>6, <1>7, <1>8, <1>9, <1>10 DEF rec, id

LEMMA FinishDoes ==
  ASSUME WorkspaceFilesAssumption, Safe, NEW w \in Worker, Finish(w)
  PROVE  /\ Dropped(w) /\ lock' \in Worker \cup {None} /\ (lock # w => lock' = lock)
         /\ \/ /\ worker[w].job = "prepare" /\ MayUpdate(w)
               /\ RowIs("running", row.provider, row.gen, row.transition)
               /\ run' = IF run = "active" THEN "prepared" ELSE run
            \/ worker[w].job # "prepare" /\ row' = row /\ run' = run
  <1>1. Over(w) /\ WorkerTyped /\ OthersTyped /\ row \in RowType
    BY DEF Finish, Safe, RowTyped
  <1>2. Dropped(w) /\ lock' \in Worker \cup {None} /\ (lock # w => lock' = lock)
    BY <1>1, OverDrops
  <1>3. CASE worker[w].job = "prepare"
    <2>1. /\ MayUpdate(w) /\ row' = [row EXCEPT !.state = "running"]
          /\ run' = IF run = "active" THEN "prepared" ELSE run
      BY <1>3 DEF Finish
    <2> QED BY <1>1, <1>2, <1>3, <2>1 DEF RowIs, RowTyped, RowType
  <1>4. CASE worker[w].job # "prepare"
    BY <1>2, <1>4 DEF Finish
  <1> QED BY <1>3, <1>4

LEMMA UnresolvedDoes ==
  ASSUME WorkspaceFilesAssumption, Safe, NEW w \in Worker, Unresolved(w)
  PROVE  /\ Moved(w, "quarantine") /\ worker'[w].job = "replace"
         /\ worker'[w].gen = worker[w].gen /\ worker'[w].loc = worker[w].loc
         /\ lock' \in Worker \cup {None} /\ (lock # w => lock' = lock)
  <1> DEFINE a == [worker[w] EXCEPT !.pc = "quarantine", !.job = "replace"]
  <1>1. worker[w] \in Activity /\ WorkerTyped /\ OthersTyped
    BY DEF Safe, WorkerTyped
  <1>2. /\ a \in Activity /\ a.pc = "quarantine" /\ a.job = "replace" /\ a.gen = worker[w].gen
        /\ a.loc = worker[w].loc
    BY <1>1 DEF Activity, Stage, Job
  <1> HIDE DEF a
  <1>3. Set(w, a) /\ lock' = IF lock = w THEN None ELSE lock
    BY DEF a, Unresolved
  <1>4. Moved(w, "quarantine") /\ worker'[w] = a
    BY <1>1, <1>2, <1>3, WorkerMoves DEF Moved, Rest
  <1> QED BY <1>1, <1>2, <1>3, <1>4 DEF OthersTyped

LEMMA QuarantineDoes ==
  ASSUME WorkspaceFilesAssumption, Safe, NEW w \in Worker, Quarantine(w)
  PROVE  /\ OnlyMoved(w, "mutate")
         /\ \/ row.transition # None /\ row' = row
            \/ row.transition = None /\ RowIs("quarantined", row.provider, row.gen, None)
  <1>1. OnlyMoved(w, "mutate")
    BY StepMoves DEF Quarantine, Safe, Stage
  <1>2. row \in RowType
    BY DEF Safe, RowTyped
  <1>3. row' = IF row.transition = None THEN [row EXCEPT !.state = "quarantined"] ELSE row
    BY DEF Quarantine
  <1> QED BY <1>1, <1>2, <1>3 DEF RowIs, RowTyped, RowType

LEMMA ClaimDoes ==
  ASSUME Safe, NEW w \in Worker, Claim(w)
  PROVE  OnlyMoved(w, "working")
  BY StepMoves DEF Claim, Safe, Stage

LEMMA DoWriteDoes ==
  ASSUME Safe, NEW w \in Worker, DoWrite(w)
  PROVE  \E n \in Write :
           LET b == worker[w].used IN
           /\ b \in Box
           /\ written' = [written EXCEPT ![row.gen] = @ \cup {n}]
           /\ BoxIs(b, "running", box[b].from, box[b].snap, box[b].files \cup {n})
  <1> DEFINE b == worker[w].used
  <1>1. b \in Box /\ box[b] \in Sandbox /\ box[b].phase = "running"
    BY DEF Safe, JobsFit, Fits, DoWrite, At, BoxTyped
  <1>2. PICK n \in Write : /\ written' = [written EXCEPT ![row.gen] = @ \cup {n}]
                           /\ box' = [box EXCEPT ![b].files = @ \cup {n}]
    BY DEF DoWrite
  <1>3. BoxIs(b, "running", box[b].from, box[b].snap, box[b].files \cup {n})
    BY <1>1, <1>2 DEF BoxIs, OtherBoxes, BoxTyped, Sandbox, Safe
  <1> QED BY <1>1, <1>2, <1>3

LEMMA ProviderDoes ==
  ASSUME BoxTyped, NEW b \in Box, Land(b) \/ End(b) \/ LoseSnapshot(b) \/ Forget(b)
  PROVE  \/ /\ box[b].phase = "asked" /\ Running = {}
            /\ \E w \in Worker : worker[w].pc = "asked" /\ worker[w].used = b
            /\ BoxIs(b, IF Docker THEN "finished" ELSE "running", box[b].from, box[b].snap, box[b].files)
         \/ /\ box[b].phase = "running"
            /\ BoxIs(b, "finished", box[b].from, ~Docker, box[b].files)
         \/ /\ "expire" \in Faults /\ box[b].snap
            /\ BoxIs(b, box[b].phase, box[b].from, FALSE, box[b].files)
         \/ /\ "forget" \in Faults /\ box[b].phase = "finished"
            /\ BoxIs(b, "gone", box[b].from, FALSE, box[b].files)
  <1>1. box[b] \in Sandbox
    BY DEF BoxTyped
  <1>2. CASE Land(b)
    BY <1>1, <1>2 DEF Land, BoxIs, OtherBoxes, BoxTyped, Sandbox, Phase
  <1>3. CASE End(b)
    <2> DEFINE x == [box[b] EXCEPT !.phase = "finished", !.snap = ~Docker, !.ending = FALSE]
    <2>1. box' = [box EXCEPT ![b] = x] /\ box[b].phase = "running"
      BY <1>3 DEF End, BoxTyped
    <2>2. /\ x \in Sandbox /\ x.phase = "finished" /\ x.from = box[b].from
          /\ x.snap = ~Docker /\ x.files = box[b].files
      BY <1>1 DEF Sandbox, Phase
    <2> HIDE DEF x
    <2> QED BY <2>1, <2>2, BoxChanges DEF BoxIs, OtherBoxes
  <1>4. CASE LoseSnapshot(b)
    BY <1>1, <1>4 DEF LoseSnapshot, BoxIs, OtherBoxes, BoxTyped, Sandbox, Phase
  <1>5. CASE Forget(b)
    <2> DEFINE x == [box[b] EXCEPT !.phase = "gone", !.snap = FALSE]
    <2>1. box' = [box EXCEPT ![b] = x] /\ "forget" \in Faults /\ box[b].phase = "finished"
      BY <1>5 DEF Forget, BoxTyped
    <2>2. /\ x \in Sandbox /\ x.phase = "gone" /\ x.from = box[b].from
          /\ x.snap = FALSE /\ x.files = box[b].files
      BY <1>1 DEF Sandbox, Phase
    <2> HIDE DEF x
    <2> QED BY <2>1, <2>2, BoxChanges DEF BoxIs, OtherBoxes
  <1> QED BY <1>2, <1>3, <1>4, <1>5

-----------------------------------------------------------------------------
(***************************************************************************)
(* No step of anybody disturbs it.                                         *)
(***************************************************************************)
LEMMA IdleIsIdle == Idle.pc = "idle" /\ Idle.job = None
  BY DEF Idle

LEMMA OthersFit ==
  ASSUME JobsFit, NEW w \in Worker, Rest(w), Fits(w)'
  PROVE  JobsFit'
  BY DEF JobsFit, Fits, Rest

LEMMA SafeBegin ==
  ASSUME WorkspaceFilesAssumption, Safe, NEW w \in Worker, NEW job \in Job, Begin(w, job) PROVE Safe'
  <1>1. RowTyped'
    BY BeginDoes, Zenon DEF Begin, Safe, RowTyped, RowIs
  <1>2. BoxTyped'
    BY DEF Begin, Safe, BoxTyped
  <1>3. WorkerTyped'
    BY BeginDoes, Zenon DEF Begin, Safe, WorkerTyped, OnlyMoved, Moved, Dropped
  <1>4. OthersTyped'
    BY BeginDoes, ConstantsFit, Zenon DEF Begin, Safe, OthersTyped
  <1>5. JobsFit'
    <2>1. Moved(w, FirstStep(job)) /\ worker'[w].job = job /\ MayBegin(job)
      BY BeginDoes, Zenon DEF Begin
    <2>2. Rest(w) /\ Fits(w)'
      BY <2>1 DEF Moved, FirstStep, MayBegin, Fits, Cleaning
    <2> QED BY <2>2, OthersFit DEF Safe
  <1>6. CleanupSparesRuns'
    BY BeginDoes, Zenon DEF Begin, At, Safe, CleanupSparesRuns, Moved, Rest, FirstStep, MayBegin, Active
  <1> QED BY <1>1, <1>2, <1>3, <1>4, <1>5, <1>6 DEF Safe

LEMMA SafeFail ==
  ASSUME WorkspaceFilesAssumption, Safe, NEW w \in Worker, Fail(w) PROVE Safe'
  <1>1. RowTyped'
    BY DEF Fail, Safe, RowTyped
  <1>2. BoxTyped'
    BY DEF Fail, Safe, BoxTyped
  <1>3. WorkerTyped'
    BY OverDrops DEF Fail, Safe, WorkerTyped, OnlyMoved, Moved, Dropped
  <1>4. OthersTyped'
    BY OverDrops, ConstantsFit DEF Fail, Safe, OthersTyped
  <1>5. JobsFit'
    <2>1. Rest(w) /\ Fits(w)'
      BY OverDrops, IdleIsIdle DEF Fail, Safe, Fits, Dropped
    <2> QED BY <2>1, OthersFit DEF Safe
  <1>6. CleanupSparesRuns'
    BY OverDrops, IdleIsIdle DEF Fail, Safe, CleanupSparesRuns, Active, Dropped, Rest
  <1> QED BY <1>1, <1>2, <1>3, <1>4, <1>5, <1>6 DEF Safe

LEMMA SafeLoseLock ==
  ASSUME WorkspaceFilesAssumption, Safe, NEW w \in Worker, LoseLock(w) PROVE Safe'
  <1>1. RowTyped'
    BY DEF LoseLock, Safe, RowTyped
  <1>2. BoxTyped'
    BY DEF LoseLock, Safe, BoxTyped
  <1>3. WorkerTyped'
    BY DEF LoseLock, Safe, WorkerTyped
  <1>4. OthersTyped'
    BY ConstantsFit DEF LoseLock, Safe, OthersTyped
  <1>5. JobsFit'
    BY DEF LoseLock, Safe, JobsFit, Fits
  <1>6. CleanupSparesRuns'
    BY DEF LoseLock, Safe, CleanupSparesRuns, Active
  <1> QED BY <1>1, <1>2, <1>3, <1>4, <1>5, <1>6 DEF Safe

LEMMA SafeRecover ==
  ASSUME WorkspaceFilesAssumption, Safe, NEW w \in Worker, Recover(w) PROVE Safe'
  <1>1. RowTyped'
    BY RecoverDoes DEF Recover, Safe, RowTyped, RowIs
  <1>2. BoxTyped'
    BY DEF Recover, Safe, BoxTyped
  <1>3. WorkerTyped'
    BY RecoverDoes DEF Recover, Safe, WorkerTyped, OnlyMoved, Moved, Dropped
  <1>4. OthersTyped'
    BY RecoverDoes, ConstantsFit DEF Recover, Safe, OthersTyped
  <1>5. JobsFit'
    <2>1. Rest(w) /\ Fits(w)'
      BY RecoverDoes DEF Recover, At, Safe, JobsFit, Fits, OnlyMoved, Moved, SameTask
    <2> QED BY <2>1, OthersFit DEF Safe
  <1>6. CleanupSparesRuns'
    BY RecoverDoes DEF Recover, Safe, CleanupSparesRuns, Active, OnlyMoved, Moved, Rest
  <1> QED BY <1>1, <1>2, <1>3, <1>4, <1>5, <1>6 DEF Safe

LEMMA SafeMutate ==
  ASSUME WorkspaceFilesAssumption, Safe, NEW w \in Worker, Mutate(w) PROVE Safe'
  <1>1. RowTyped'
    BY MutateDoes, Zenon DEF Mutate, Safe, RowTyped, RowIs
  <1>2. BoxTyped'
    BY MutateDoes, Zenon DEF Mutate, Safe, BoxTyped, BoxIs
  <1>3. WorkerTyped'
    BY MutateDoes, Zenon DEF Mutate, Safe, WorkerTyped, OnlyMoved, Moved, Dropped
  <1>4. OthersTyped'
    BY MutateDoes, ConstantsFit, Zenon DEF Mutate, Safe, OthersTyped
  <1>5. JobsFit'
    <2>1. Located(row.provider) \subseteq Box
      BY DEF Located, Running, Present
    <2>2. Rest(w) /\ Fits(w)'
      BY <2>1, MutateDoes DEF Fits, Moved, SameTask, Cleaning, Job
    <2> QED BY <2>2, OthersFit DEF Safe
  <1>6. CleanupSparesRuns'
    BY MutateDoes, Zenon DEF Mutate, At, Safe, CleanupSparesRuns, Active, Moved, Rest, SameTask,
       MayClean
  <1> QED BY <1>1, <1>2, <1>3, <1>4, <1>5, <1>6 DEF Safe

LEMMA SafeStopped ==
  ASSUME WorkspaceFilesAssumption, Safe, NEW w \in Worker, Stopped(w) PROVE Safe'
  <1>1. RowTyped'
    BY DEF Stopped, Safe, RowTyped
  <1>2. BoxTyped'
    BY StoppedDoes, Zenon DEF Stopped, Safe, BoxTyped, BoxIs
  <1>3. WorkerTyped'
    BY StoppedDoes DEF Stopped, Safe, WorkerTyped, OnlyMoved, Moved, Dropped
  <1>4. OthersTyped'
    BY StoppedDoes, ConstantsFit DEF Stopped, Safe, OthersTyped
  <1>5. JobsFit'
    <2>1. worker[w].pc = "stopping" /\ Fits(w)
      BY DEF Stopped, At, Safe, JobsFit
    <2>2. Rest(w) /\ Fits(w)'
      BY <2>1, StoppedDoes DEF Fits, OnlyMoved, Moved, SameTask, SameFind, Cleaning, Job
    <2> QED BY <2>2, OthersFit DEF Safe
  <1>6. CleanupSparesRuns'
    BY StoppedDoes DEF Stopped, At, Safe, CleanupSparesRuns, Active, OnlyMoved, Moved, Rest,
       SameTask
  <1> QED BY <1>1, <1>2, <1>3, <1>4, <1>5, <1>6 DEF Safe

LEMMA SafeRecord ==
  ASSUME WorkspaceFilesAssumption, Safe, NEW w \in Worker, Record(w) PROVE Safe'
  <1>1. RowTyped'
    BY RecordDoes, Zenon DEF Record, Safe, RowTyped, RowIs
  <1>2. BoxTyped'
    BY DEF Record, Safe, BoxTyped
  <1>3. WorkerTyped'
    BY RecordDoes, Zenon DEF Record, Safe, WorkerTyped, OnlyMoved, Moved, Dropped
  <1>4. OthersTyped'
    BY RecordDoes, ConstantsFit, Zenon DEF Record, Safe, OthersTyped
  <1>5. JobsFit'
    <2>1. Rest(w) /\ Fits(w)'
      BY RecordDoes, IdleIsIdle DEF Fits, Dropped
    <2> QED BY <2>1, OthersFit DEF Safe
  <1>6. CleanupSparesRuns'
    BY RecordDoes, IdleIsIdle, Zenon DEF Record, Safe, CleanupSparesRuns, Active, Dropped, Rest
  <1> QED BY <1>1, <1>2, <1>3, <1>4, <1>5, <1>6 DEF Safe

LEMMA SafeProvision ==
  ASSUME WorkspaceFilesAssumption, Safe, NEW w \in Worker, Provision(w) PROVE Safe'
  <1>1. RowTyped'
    BY ProvisionDoes, Zenon DEF Provision, Safe, RowTyped, RowIs
  <1>2. BoxTyped'
    BY DEF Provision, Safe, BoxTyped
  <1>3. WorkerTyped'
    BY ProvisionDoes, Zenon DEF Provision, Safe, WorkerTyped, OnlyMoved, Moved, Dropped
  <1>4. OthersTyped'
    BY ProvisionDoes, ConstantsFit, Zenon DEF Provision, Safe, OthersTyped
  <1>5. JobsFit'
    <2>1. Rest(w) /\ Fits(w)'
      BY ProvisionDoes, Zenon DEF Provision, At, Safe, JobsFit, Fits, OnlyMoved, Moved, SameTask
    <2> QED BY <2>1, OthersFit DEF Safe
  <1>6. CleanupSparesRuns'
    BY ProvisionDoes, Zenon DEF Provision, Safe, CleanupSparesRuns, Active, OnlyMoved, Moved, Rest
  <1> QED BY <1>1, <1>2, <1>3, <1>4, <1>5, <1>6 DEF Safe

LEMMA SafeResolve ==
  ASSUME WorkspaceFilesAssumption, Safe, NEW w \in Worker, Resolve(w) PROVE Safe'
  <1>1. RowTyped'
    BY Zenon DEF Resolve, Safe, RowTyped
  <1>2. BoxTyped'
    BY Zenon DEF Resolve, Safe, BoxTyped
  <1>3. WorkerTyped'
    BY ResolveDoes, Zenon DEF Resolve, Safe, WorkerTyped, OnlyMoved, Moved, Dropped
  <1>4. OthersTyped'
    BY ResolveDoes, ConstantsFit, Zenon DEF Resolve, Safe, OthersTyped
  <1>5. JobsFit'
    <2>1. Rest(w) /\ Fits(w)'
      BY ResolveDoes, Zenon DEF Resolve, At, Safe, JobsFit, Fits, Moved, SameTask
    <2> QED BY <2>1, OthersFit DEF Safe
  <1>6. CleanupSparesRuns'
    BY ResolveDoes, Zenon DEF Resolve, Safe, CleanupSparesRuns, Active, Moved, Rest
  <1> QED BY <1>1, <1>2, <1>3, <1>4, <1>5, <1>6 DEF Safe

LEMMA SafeEnsure ==
  ASSUME WorkspaceFilesAssumption, Safe, NEW w \in Worker, Ensure(w) PROVE Safe'
  <1>1. RowTyped'
    BY DEF Ensure, Safe, RowTyped
  <1>2. BoxTyped'
    BY EnsureDoes, Zenon DEF Ensure, Safe, BoxTyped, BoxIs
  <1>3. WorkerTyped'
    BY EnsureDoes, Zenon DEF Ensure, Safe, WorkerTyped, OnlyMoved, Moved, Dropped
  <1>4. OthersTyped'
    BY EnsureDoes, ConstantsFit, Zenon DEF Ensure, Safe, OthersTyped
  <1>5. JobsFit'
    <2>1. Rest(w) /\ Fits(w)'
      BY EnsureDoes, Zenon DEF Ensure, At, Safe, JobsFit, Fits, Job, Moved, Rest, SameTask, SameFind,
         SameUse
    <2> QED BY <2>1, OthersFit DEF Safe
  <1>6. CleanupSparesRuns'
    BY EnsureDoes, Zenon DEF Ensure, At, Safe, JobsFit, Fits, CleanupSparesRuns, Active, Moved, Rest,
       SameTask, SameFind, SameUse
  <1> QED BY <1>1, <1>2, <1>3, <1>4, <1>5, <1>6 DEF Safe

LEMMA SafeCreate ==
  ASSUME WorkspaceFilesAssumption, Safe, NEW w \in Worker, Create(w) PROVE Safe'
  <1>1. RowTyped'
    BY DEF Create, Safe, RowTyped
  <1>2. BoxTyped'
    BY CreateDoes, Zenon DEF Create, Safe, BoxTyped, BoxIs
  <1>3. WorkerTyped'
    BY CreateDoes, Zenon DEF Create, Safe, WorkerTyped, OnlyMoved, Moved, Dropped
  <1>4. OthersTyped'
    BY CreateDoes, ConstantsFit, Zenon DEF Create, Safe, OthersTyped
  <1>5. JobsFit'
    <2>1. Rest(w) /\ Fits(w)'
      BY CreateDoes, Zenon DEF Create, At, Safe, JobsFit, Fits, Moved, SameTask
    <2> QED BY <2>1, OthersFit DEF Safe
  <1>6. CleanupSparesRuns'
    BY CreateDoes, Zenon DEF Create, Safe, CleanupSparesRuns, Active, Moved, Rest
  <1> QED BY <1>1, <1>2, <1>3, <1>4, <1>5, <1>6 DEF Safe

LEMMA SafeCreated ==
  ASSUME WorkspaceFilesAssumption, Safe, NEW w \in Worker, Created(w) PROVE Safe'
  <1>1. RowTyped'
    BY DEF Created, Safe, RowTyped
  <1>2. BoxTyped'
    BY CreatedDoes, Zenon DEF Created, Safe, BoxTyped, BoxIs
  <1>3. WorkerTyped'
    BY CreatedDoes, Zenon DEF Created, Safe, WorkerTyped, OnlyMoved, Moved, Dropped
  <1>4. OthersTyped'
    BY CreatedDoes, ConstantsFit, Zenon DEF Created, Safe, OthersTyped
  <1>5. JobsFit'
    <2>1. Rest(w) /\ Fits(w)'
      BY CreatedDoes, Zenon DEF Created, At, Safe, JobsFit, Fits, Moved, SameTask
    <2> QED BY <2>1, OthersFit DEF Safe
  <1>6. CleanupSparesRuns'
    BY CreatedDoes, Zenon DEF Created, Safe, CleanupSparesRuns, Active, Moved, Rest
  <1> QED BY <1>1, <1>2, <1>3, <1>4, <1>5, <1>6 DEF Safe

LEMMA SafeSettle ==
  ASSUME WorkspaceFilesAssumption, Safe, NEW w \in Worker, Settle(w) PROVE Safe'
  <1>1. RowTyped'
    BY SettleDoes, Zenon DEF Settle, Safe, RowTyped, RowIs
  <1>2. BoxTyped'
    BY DEF Settle, Safe, BoxTyped
  <1>3. WorkerTyped'
    BY SettleDoes, Zenon DEF Settle, Safe, WorkerTyped, OnlyMoved, Moved, Dropped
  <1>4. OthersTyped'
    BY SettleDoes, ConstantsFit, Zenon DEF Settle, Safe, OthersTyped, Unprepare
  <1>5. JobsFit'
    <2>1. Rest(w) /\ Fits(w)'
      BY SettleDoes, IdleIsIdle DEF Fits, OnlyMoved, Moved, Dropped, SameTask, SameUse
    <2> QED BY <2>1, OthersFit DEF Safe
  <1>6. CleanupSparesRuns'
    BY SettleDoes, IdleIsIdle DEF Safe, CleanupSparesRuns, OnlyMoved, Moved, Dropped, Rest,
       Unprepare, Active
  <1> QED BY <1>1, <1>2, <1>3, <1>4, <1>5, <1>6 DEF Safe

LEMMA SafeClaim ==
  ASSUME WorkspaceFilesAssumption, Safe, NEW w \in Worker, Claim(w) PROVE Safe'
  <1>1. RowTyped'
    BY DEF Claim, Safe, RowTyped
  <1>2. BoxTyped'
    BY DEF Claim, Safe, BoxTyped
  <1>3. WorkerTyped'
    BY ClaimDoes DEF Claim, Safe, WorkerTyped, OnlyMoved, Moved, Dropped
  <1>4. OthersTyped'
    BY ClaimDoes, ConstantsFit DEF Claim, Safe, OthersTyped
  <1>5. JobsFit'
    <2>1. Rest(w) /\ Fits(w)'
      BY ClaimDoes DEF Claim, At, Safe, JobsFit, Fits, OnlyMoved, Moved, SameTask, SameUse
    <2> QED BY <2>1, OthersFit DEF Safe
  <1>6. CleanupSparesRuns'
    BY ClaimDoes DEF Claim, Safe, CleanupSparesRuns, OnlyMoved, Moved, Rest
  <1> QED BY <1>1, <1>2, <1>3, <1>4, <1>5, <1>6 DEF Safe

LEMMA SafeDoWrite ==
  ASSUME WorkspaceFilesAssumption, Safe, NEW w \in Worker, DoWrite(w) PROVE Safe'
  <1>1. RowTyped'
    BY DEF DoWrite, Safe, RowTyped
  <1>2. BoxTyped'
    BY DoWriteDoes DEF DoWrite, Safe, BoxTyped, BoxIs
  <1>3. WorkerTyped'
    BY DEF DoWrite, Safe, WorkerTyped
  <1>4. OthersTyped'
    BY DoWriteDoes, ConstantsFit DEF DoWrite, Safe, OthersTyped, RowTyped, RowType, Gen
  <1>5. JobsFit'
    BY DoWriteDoes DEF DoWrite, Safe, JobsFit, Fits
  <1>6. CleanupSparesRuns'
    BY DoWriteDoes DEF DoWrite, Safe, CleanupSparesRuns, Active
  <1> QED BY <1>1, <1>2, <1>3, <1>4, <1>5, <1>6 DEF Safe

LEMMA SafeFinish ==
  ASSUME WorkspaceFilesAssumption, Safe, NEW w \in Worker, Finish(w) PROVE Safe'
  <1>1. RowTyped'
    BY FinishDoes DEF Finish, Safe, RowTyped, RowIs
  <1>2. BoxTyped'
    BY DEF Finish, Safe, BoxTyped
  <1>3. WorkerTyped'
    BY FinishDoes DEF Finish, Safe, WorkerTyped, OnlyMoved, Moved, Dropped
  <1>4. OthersTyped'
    BY FinishDoes, ConstantsFit DEF Finish, Safe, OthersTyped
  <1>5. JobsFit'
    <2>1. Rest(w) /\ Fits(w)'
      BY FinishDoes, IdleIsIdle DEF Fits, Dropped
    <2> QED BY <2>1, OthersFit DEF Safe
  <1>6. CleanupSparesRuns'
    BY FinishDoes, IdleIsIdle DEF Safe, CleanupSparesRuns, Active, Dropped, Rest
  <1> QED BY <1>1, <1>2, <1>3, <1>4, <1>5, <1>6 DEF Safe

LEMMA SafeUnresolved ==
  ASSUME WorkspaceFilesAssumption, Safe, NEW w \in Worker, Unresolved(w) PROVE Safe'
  <1>1. RowTyped'
    BY DEF Unresolved, Safe, RowTyped
  <1>2. BoxTyped'
    BY DEF Unresolved, Safe, BoxTyped
  <1>3. WorkerTyped'
    BY UnresolvedDoes, Zenon DEF Unresolved, Safe, WorkerTyped, OnlyMoved, Moved, Dropped
  <1>4. OthersTyped'
    BY UnresolvedDoes, ConstantsFit, Zenon DEF Unresolved, Safe, OthersTyped, Unprepare
  <1>5. JobsFit'
    <2>1. Rest(w) /\ Fits(w)'
      BY UnresolvedDoes DEF Fits, Moved
    <2> QED BY <2>1, OthersFit DEF Safe
  <1>6. CleanupSparesRuns'
    BY UnresolvedDoes, Zenon DEF Unresolved, Safe, CleanupSparesRuns, Moved, Rest, Unprepare, Active
  <1> QED BY <1>1, <1>2, <1>3, <1>4, <1>5, <1>6 DEF Safe

LEMMA SafeQuarantine ==
  ASSUME WorkspaceFilesAssumption, Safe, NEW w \in Worker, Quarantine(w) PROVE Safe'
  <1>1. RowTyped'
    BY QuarantineDoes DEF Quarantine, Safe, RowTyped, RowIs
  <1>2. BoxTyped'
    BY DEF Quarantine, Safe, BoxTyped
  <1>3. WorkerTyped'
    BY QuarantineDoes DEF Quarantine, Safe, WorkerTyped, OnlyMoved, Moved, Dropped
  <1>4. OthersTyped'
    BY QuarantineDoes, ConstantsFit DEF Quarantine, Safe, OthersTyped
  <1>5. JobsFit'
    <2>1. Rest(w) /\ Fits(w)'
      BY QuarantineDoes DEF Quarantine, At, Safe, JobsFit, Fits, OnlyMoved, Moved, SameTask
    <2> QED BY <2>1, OthersFit DEF Safe
  <1>6. CleanupSparesRuns'
    BY QuarantineDoes DEF Quarantine, Safe, CleanupSparesRuns, Active, OnlyMoved, Moved, Rest
  <1> QED BY <1>1, <1>2, <1>3, <1>4, <1>5, <1>6 DEF Safe

LEMMA SafeProvider ==
  ASSUME WorkspaceFilesAssumption, Safe, NEW b \in Box, Land(b) \/ End(b) \/ LoseSnapshot(b) \/ Forget(b) PROVE Safe'
  <1>1. RowTyped'
    BY DEF Land, End, LoseSnapshot, Forget, Safe, RowTyped
  <1>2. BoxTyped'
    BY ProviderDoes, Zenon DEF Land, End, LoseSnapshot, Forget, Safe, BoxTyped, BoxIs
  <1>3. WorkerTyped'
    BY DEF Land, End, LoseSnapshot, Forget, Safe, WorkerTyped
  <1>4. OthersTyped'
    BY ProviderDoes, Zenon DEF Land, End, LoseSnapshot, Forget, Safe, OthersTyped
  <1>5. JobsFit'
    BY ProviderDoes, Zenon DEF Land, End, LoseSnapshot, Forget, Safe, JobsFit, Fits
  <1>6. CleanupSparesRuns'
    BY ProviderDoes, Zenon DEF Land, End, LoseSnapshot, Forget, Safe, CleanupSparesRuns, Active
  <1> QED BY <1>1, <1>2, <1>3, <1>4, <1>5, <1>6 DEF Safe

LEMMA SafeRunChanges ==
  ASSUME WorkspaceFilesAssumption, Safe, RunChanges PROVE Safe'
  <1>1. RowTyped'
    BY DEF RunChanges, Safe, RowTyped
  <1>2. BoxTyped'
    BY DEF RunChanges, Safe, BoxTyped
  <1>3. WorkerTyped'
    BY DEF RunChanges, Safe, WorkerTyped
  <1>4. OthersTyped'
    BY ConstantsFit DEF RunChanges, Safe, OthersTyped
  <1>5. JobsFit'
    BY DEF RunChanges, Safe, JobsFit, Fits
  <1>6. CleanupSparesRuns'
    BY DEF RunChanges, Safe, CleanupSparesRuns, Active, RowFree
  <1> QED BY <1>1, <1>2, <1>3, <1>4, <1>5, <1>6 DEF Safe

LEMMA SafeKept ==
  ASSUME WorkspaceFilesAssumption, Safe, [Next]_vars
  PROVE  Safe'
  <1>1. CASE UNCHANGED vars
    BY <1>1 DEF vars, Safe, RowTyped, BoxTyped, WorkerTyped, OthersTyped, JobsFit, Fits,
       CleanupSparesRuns, Active
  <1>2. CASE \E w \in Worker : Step(w)
    BY <1>2, SafeFail, SafeLoseLock, SafeRecover, SafeMutate, SafeStopped, SafeRecord,
       SafeProvision, SafeResolve, SafeEnsure, SafeCreate, SafeCreated, SafeSettle, SafeClaim,
       SafeDoWrite, SafeFinish, SafeUnresolved, SafeQuarantine DEF Step
  <1>3. CASE \E w \in Worker : \E job \in Job : Begin(w, job)
    BY <1>3, SafeBegin
  <1>4. CASE \E b \in Box : Land(b) \/ End(b) \/ LoseSnapshot(b) \/ Forget(b)
    BY <1>4, SafeProvider
  <1>5. CASE RunChanges
    BY <1>5, SafeRunChanges
  <1> QED BY <1>1, <1>2, <1>3, <1>4, <1>5 DEF Next, Moves

LEMMA SafeAtFirst ==
  ASSUME WorkspaceFilesAssumption, Init
  PROVE  Safe
  <1>1. RowTyped /\ BoxTyped /\ WorkerTyped /\ OthersTyped
    BY ConstantsFit DEF Init, RowTyped, RowType, BoxTyped, WorkerTyped, OthersTyped
  <1>2. JobsFit /\ CleanupSparesRuns
    BY IdleIsIdle DEF Init, JobsFit, Fits, CleanupSparesRuns
  <1> QED BY <1>1, <1>2 DEF Safe

LEMMA SafeAlways ==
  ASSUME WorkspaceFilesAssumption
  PROVE  Spec => []Safe
  <1>1. Init => Safe
    BY SafeAtFirst
  <1>2. Safe /\ [Next]_vars => Safe'
    BY SafeKept
  <1> QED BY <1>1, <1>2, PTL DEF Spec

\* While a pause or a deletion ends a sandbox no run is active, whatever the
\* database does with the locks and the provider with the sandboxes
\* (cleanupBlockReason under the lock of the row).
THEOREM CleanupsSpareRuns ==
  ASSUME WorkspaceFilesAssumption
  PROVE  Spec => []CleanupSparesRuns
  <1>1. Safe => CleanupSparesRuns
    BY DEF Safe
  <1> QED BY <1>1, SafeAlways, PTL
-----------------------------------------------------------------------------
(***************************************************************************)
(* What holds as long as the database keeps the locks.                     *)
(***************************************************************************)
Asleep(w) == worker[w].pc \in {"idle", "quarantine"}

LockHeld == \A w \in Worker : Asleep(w) \/ (lock = w /\ worker[w].gen = row.gen)

\* A Docker container is there until it is removed, a Modal sandbox until it ends.
Beside == IF Docker THEN Present ELSE Running

Boxes ==
  /\ \A b \in Box : box[b].snap => box[b].phase = "finished" /\ ~Docker
  /\ \A b, c \in Box : b \in Beside /\ c \in Beside => b = c

\* What an activity knows of the row and of the sandboxes.
Knows(w) ==
  LET a == worker[w] IN
  /\ a.pc \in {"claim", "working"} => row.provider = IdOf(a.used)
  /\ a.job = "execute" /\ a.pc \in {"resolve", "ensure", "stopping", "create", "asked", "settle"} =>
       row.provider = a.had
  /\ a.pc \in {"ensure", "stopping"} => Beside \subseteq {a.loc}
  /\ a.pc = "stopping" /\ Docker => a.job \in Cleaning \cup {"replace"}
  /\ a.pc = "create" => Beside = {}
  /\ a.pc = "asked" => Beside \subseteq {a.used}
  /\ a.pc = "mutate" /\ a.job \in Cleaning /\ ~Docker => Running \subseteq {row.provider}
  /\ a.pc = "record" => Running = {}
  /\ a.pc \in {"stopping", "record"} /\ a.job \in Cleaning /\ ~Docker /\ a.loc # None =>
       row.provider = a.loc
  /\ a.pc = "record" /\ a.job \in Cleaning /\ (a.loc = None \/ a.job = "delete") =>
       /\ Docker => Present = {}
       /\ \A b \in Box : b = row.provider => ~box[b].snap

One == LockHeld /\ Boxes /\ \A w \in Worker : Knows(w)

\* Who acts while it has the lock, or while nobody has it, acts alone.
LEMMA OthersSleep ==
  ASSUME WorkspaceFilesAssumption, One, JobsFit', NEW w \in Worker, Rest(w),
         lock = None \/ ~Asleep(w)
  PROVE  \A v \in Worker : v # w => Asleep(v) /\ Asleep(v)' /\ Knows(v)'
  <1>1. \A v \in Worker : v # w => Asleep(v) /\ Asleep(v)'
    BY DEF WorkspaceFilesAssumption, One, LockHeld, Asleep, Rest
  <1>2. \A v \in Worker : Asleep(v)' => Knows(v)'
    BY IdleIsIdle DEF JobsFit, Fits, Asleep, Knows
  <1> QED BY <1>1, <1>2

LEMMA OneActs ==
  ASSUME WorkspaceFilesAssumption, One, JobsFit', NEW w \in Worker, Rest(w),
         lock = None \/ ~Asleep(w),
         Asleep(w)' \/ (lock' = w /\ worker'[w].gen = row'.gen),
         Boxes', Knows(w)'
  PROVE  One'
  BY OthersSleep DEF One, LockHeld, Asleep

LEMMA BoxesMove ==
  ASSUME BoxTyped, NEW b \in Box, OtherBoxes(b)
  PROVE  /\ Running' \subseteq Running \cup {b} /\ Present' \subseteq Present \cup {b}
         /\ Running \subseteq Running' \cup {b} /\ Present \subseteq Present' \cup {b}
         /\ b \in Running <=> box[b].phase = "running"
         /\ b \in Running' <=> box'[b].phase = "running"
         /\ b \in Present <=> box[b].phase \in {"running", "finished"}
         /\ b \in Present' <=> box'[b].phase \in {"running", "finished"}
  BY DEF OtherBoxes, Running, Present

LEMMA BoxesStay ==
  ASSUME NEW b \in Box, BoxIs(b, box[b].phase, box[b].from, box[b].snap, box[b].files) \/ box' = box,
         BoxTyped
  PROVE  /\ Running' = Running /\ Present' = Present /\ Beside' = Beside
         /\ \A c \in Box : box'[c].snap = box[c].snap
         /\ Boxes => Boxes'
  <1>1. \A c \in Box : box'[c].phase = box[c].phase /\ box'[c].snap = box[c].snap
    BY DEF BoxIs, OtherBoxes
  <1>2. Running' = Running /\ Present' = Present
    BY <1>1 DEF Running, Present
  <1> QED BY <1>1, <1>2 DEF Beside, Boxes

LEMMA OneBegin ==
  ASSUME WorkspaceFilesAssumption, Safe, Safe', One, NEW w \in Worker, NEW job \in Job, Begin(w, job)
  PROVE  One'
  <1>1. Rest(w) /\ (lock = None \/ ~Asleep(w))
    BY BeginDoes, Zenon DEF Begin, Moved
  <1>2. Asleep(w)' \/ (lock' = w /\ worker'[w].gen = row'.gen)
    BY BeginDoes, IdleIsIdle, Zenon DEF Begin, RowIs
  <1>3. Boxes'
    BY BeginDoes, Zenon DEF Begin, At, One, Boxes, Knows, Beside, Running, Present
  <1>4. Knows(w)'
    BY BeginDoes, IdleIsIdle, Zenon DEF Begin, Knows, Moved
  <1> QED BY <1>1, <1>2, <1>3, <1>4, OneActs DEF Safe

LEMMA OneFail ==
  ASSUME WorkspaceFilesAssumption, Safe, Safe', One, NEW w \in Worker, Fail(w)
  PROVE  One'
  <1>1. /\ Dropped(w) /\ lock' \in Worker \cup {None}
        /\ (lock = w => lock' = None) /\ (lock # w => lock' = lock)
        /\ UNCHANGED << row, box >>
    BY OverDrops DEF Fail, Safe
  <1>2. \A v \in Worker : v # w => worker'[v] = worker[v]
    BY <1>1 DEF Dropped, Rest
  <1>3. LockHeld'
    BY <1>1, <1>2, IdleIsIdle DEF One, LockHeld, Asleep, Dropped
  <1>4. Boxes'
    BY <1>1 DEF One, Boxes, Beside, Running, Present
  <1>5. ASSUME NEW v \in Worker PROVE Knows(v)'
    <2>1. CASE v = w
      BY <1>1, <2>1, IdleIsIdle DEF Dropped, Knows
    <2>2. CASE v # w
      <3>1. worker'[v] = worker[v] /\ Knows(v)
        BY <1>2, <2>2 DEF One
      <3> QED BY <1>1, <3>1 DEF Knows, Beside, Running, Present
    <2> QED BY <2>1, <2>2
  <1> QED BY <1>3, <1>4, <1>5 DEF One

LEMMA OneRecover ==
  ASSUME WorkspaceFilesAssumption, Safe, Safe', One, NEW w \in Worker, Recover(w)
  PROVE  One'
  <1>1. Rest(w) /\ (lock = None \/ ~Asleep(w))
    BY RecoverDoes DEF Recover, At, Asleep, OnlyMoved, Moved
  <1>2. Asleep(w)' \/ (lock' = w /\ worker'[w].gen = row'.gen)
    BY RecoverDoes DEF Recover, At, One, LockHeld, Asleep, OnlyMoved, SameTask, RowIs
  <1>3. box' = box /\ Boxes'
    BY DEF Recover, One, Boxes, Beside, Running, Present
  <1>4. Knows(w)'
    <2>1. OnlyMoved(w, "mutate") /\ Running' = Running
      BY <1>3, RecoverDoes DEF Running
    <2>2. ~Docker => Running \subseteq {row'.provider}
      <3>1. CASE Located(worker[w].stored) = {}
        BY <3>1 DEF Located, Running
      <3>2. CASE \E b \in Located(worker[w].stored) : row'.provider = IdOf(b)
        BY <3>2 DEF Located, Running, One, Boxes, Beside, IdOf
      <3> QED BY <3>1, <3>2, RecoverDoes DEF RowIs
    <2>3. worker'[w].job # "execute"
      BY <2>1 DEF OnlyMoved, Moved, Safe, JobsFit, Fits, Cleaning
    <2> QED BY <2>1, <2>2, <2>3 DEF OnlyMoved, Moved, Knows
  <1> QED BY <1>1, <1>2, <1>3, <1>4, OneActs DEF Safe

LEMMA OneMutate ==
  ASSUME WorkspaceFilesAssumption, Safe, Safe', One, NEW w \in Worker, Mutate(w)
  PROVE  One'
  <1>1. Rest(w) /\ (lock = None \/ ~Asleep(w))
    BY MutateDoes, Zenon DEF Mutate, At, Asleep, Moved
  <1>2. Asleep(w)' \/ (lock' = w /\ worker'[w].gen = row'.gen)
    BY MutateDoes, Zenon DEF Mutate, At, One, LockHeld, Asleep, SameTask, RowIs
  <1>3. Boxes'
    <2>1. box' = box \/ \E b \in Box : BoxIs(b, box[b].phase, box[b].from, box[b].snap, box[b].files)
      BY MutateDoes DEF Located, Running, Present
    <2>2. CASE box' = box
      BY <2>2 DEF One, Boxes, Beside, Running, Present
    <2> QED BY <2>1, <2>2, BoxesStay DEF One, Safe
  <1>4. Knows(w)'
    <2>1. CASE Moved(w, "provision") /\ worker'[w].job = "prepare"
      BY <2>1 DEF Moved, Knows
    <2>2. CASE /\ Located(row.provider) = {} /\ Moved(w, "record") /\ worker'[w].loc = None
               /\ box' = box /\ row' = row
      <3>1. Running' = {} /\ (Docker => Present' = {})
        BY <2>2 DEF Located, Running, Present
      <3>2. ~Docker => row.provider \notin Present
        BY <2>2 DEF Located, Running, Present
      <3>3. \A b \in Box : b = row'.provider => ~box'[b].snap
        BY <2>2, <3>2 DEF One, Boxes, Present
      <3>4. worker'[w].pc = "record" /\ worker'[w].loc = None
        BY <2>2 DEF Moved
      <3> QED BY <3>1, <3>3, <3>4 DEF Knows
    <2>3. CASE /\ worker[w].job \in Cleaning \cup {"replace"} /\ worker'[w].job = worker[w].job
               /\ row' = row
               /\ \E b \in Located(row.provider) :
                    /\ Moved(w, "stopping") /\ worker'[w].loc = b
                    /\ BoxIs(b, box[b].phase, box[b].from, box[b].snap, box[b].files)
      <3>1. PICK b \in Located(row.provider) :
              /\ Moved(w, "stopping") /\ worker'[w].loc = b
              /\ BoxIs(b, box[b].phase, box[b].from, box[b].snap, box[b].files)
        BY <2>3
      <3>2. b \in Box /\ Beside' = Beside
        <4>1. b \in Box
          BY DEF Located, Running, Present
        <4> QED BY <3>1, <4>1, BoxesStay DEF Safe
      <3>3. Beside \subseteq {b}
        BY DEF One, Boxes, Beside, Located, Running, Present
      <3>4. worker[w].job \in Cleaning /\ ~Docker => row.provider = b
        BY Zenon DEF Mutate, At, One, Knows, Located
      <3>5. worker'[w].pc = "stopping" /\ worker'[w].job # "execute"
        BY <2>3, <3>1 DEF Moved, Cleaning
      <3> QED BY <2>3, <3>1, <3>2, <3>3, <3>4, <3>5 DEF Knows
    <2> QED BY <2>1, <2>2, <2>3, MutateDoes DEF SameTask
  <1> QED BY <1>1, <1>2, <1>3, <1>4, OneActs DEF Safe

LEMMA OneStopped ==
  ASSUME WorkspaceFilesAssumption, Safe, Safe', One, NEW w \in Worker, Stopped(w)
  PROVE  One'
  <1>1. Rest(w) /\ (lock = None \/ ~Asleep(w))
    BY StoppedDoes DEF Stopped, At, Asleep, OnlyMoved, Moved
  <1>2. Asleep(w)' \/ (lock' = w /\ worker'[w].gen = row'.gen)
    BY StoppedDoes DEF Stopped, At, One, LockHeld, Asleep, OnlyMoved, SameTask
  <1>3. Boxes'
    <2>1. CASE box' = box
      BY <2>1 DEF One, Boxes, Beside, Running, Present
    <2>2. CASE \E b \in Box : /\ box[b].phase = "finished" /\ OtherBoxes(b)
                             /\ ~box'[b].snap /\ box'[b].phase \in {"finished", "gone"}
      BY <2>2, BoxesMove DEF One, Safe, Boxes, Beside, OtherBoxes
    <2> QED BY <2>1, <2>2, StoppedDoes DEF BoxIs
  <1>4. Knows(w)'
    <2> DEFINE b == worker[w].loc
    <2>1. /\ worker[w].pc = "stopping" /\ Knows(w) /\ row' = row /\ BoxTyped
          /\ SameTask(w) /\ worker'[w].loc = b /\ b \in Box /\ box[b].phase = "finished"
          /\ worker'[w].had = worker[w].had
          /\ worker'[w].pc = IF worker[w].job \in Cleaning \cup {"replace"} THEN "record" ELSE "create"
      BY StoppedDoes DEF Stopped, At, One, Safe, OnlyMoved, Moved, SameFind, SameTask
    <2>2. Beside \subseteq {b} /\ b \notin Running /\ Running \subseteq Beside
      BY <2>1 DEF Knows, Running, Present, Beside
    <2>3. /\ box' = box \/ (OtherBoxes(b) /\ box'[b].phase # "running")
          /\ Erases(worker[w].job) =>
               OtherBoxes(b) /\ ~box'[b].snap /\ box'[b].phase = IF Docker THEN "gone" ELSE "finished"
      BY <2>1, StoppedDoes DEF BoxIs
    <2>4. Running' = {}
      BY <2>1, <2>2, <2>3, BoxesMove DEF Running
    <2>5. Docker /\ worker[w].job = "delete" => Present' = {}
      BY <2>1, <2>2, <2>3, BoxesMove DEF Erases, Beside
    <2>6. CASE worker[w].job \in Cleaning \cup {"replace"}
      <3>1. worker[w].job \in Cleaning /\ worker[w].job = "delete" =>
              \A c \in Box : c = row.provider => ~box'[c].snap
        <4>1. CASE Docker
          BY <2>1, <2>3, <4>1, StoppedDoes DEF One, Boxes, Erases, OtherBoxes
        <4>2. CASE ~Docker
          BY <2>1, <2>3, <4>2 DEF Knows, Erases, WorkspaceFilesAssumption
        <4> QED BY <4>1, <4>2
      <3>2. worker'[w].pc = "record" /\ worker'[w].job = worker[w].job /\ worker'[w].job # "execute"
        BY <2>1, <2>6 DEF SameTask, Cleaning
      <3>3. worker'[w].job \in Cleaning /\ ~Docker /\ worker'[w].loc # None => row'.provider = worker'[w].loc
        BY <2>1, <3>2 DEF Knows
      <3>4. worker'[w].loc # None
        BY <2>1 DEF WorkspaceFilesAssumption
      <3> QED BY <2>1, <2>4, <2>5, <3>1, <3>2, <3>3, <3>4 DEF Knows
    <2>7. CASE worker[w].job \notin Cleaning \cup {"replace"}
      <3>1. ~Docker /\ worker'[w].pc = "create" /\ worker'[w].job = worker[w].job
        BY <2>1, <2>7 DEF Knows, SameTask
      <3>2. worker'[w].job = "execute" => row'.provider = worker'[w].had
        BY <2>1, <3>1 DEF Knows
      <3>3. Beside' = {}
        BY <2>4, <3>1 DEF Beside
      <3> QED BY <3>1, <3>2, <3>3 DEF Knows
    <2> QED BY <2>6, <2>7
  <1> QED BY <1>1, <1>2, <1>3, <1>4, OneActs DEF Safe

LEMMA OneRecord ==
  ASSUME WorkspaceFilesAssumption, Safe, Safe', One, NEW w \in Worker, Record(w)
  PROVE  One'
  <1>1. Rest(w) /\ (lock = None \/ ~Asleep(w))
    BY RecordDoes, Zenon DEF Record, At, Asleep, Dropped
  <1>2. Asleep(w)' \/ (lock' = w /\ worker'[w].gen = row'.gen)
    BY RecordDoes, IdleIsIdle DEF Asleep, Dropped
  <1>3. Boxes'
    BY RecordDoes, Zenon DEF Record, One, Boxes, Beside, Running, Present
  <1>4. Knows(w)'
    BY RecordDoes, IdleIsIdle DEF Knows, Dropped
  <1> QED BY <1>1, <1>2, <1>3, <1>4, OneActs DEF Safe

LEMMA OneProvision ==
  ASSUME WorkspaceFilesAssumption, Safe, Safe', One, NEW w \in Worker, Provision(w)
  PROVE  One'
  <1>1. Rest(w) /\ (lock = None \/ ~Asleep(w))
    BY ProvisionDoes, Zenon DEF Provision, At, Asleep, OnlyMoved, Moved
  <1>2. Asleep(w)' \/ (lock' = w /\ worker'[w].gen = row'.gen)
    BY ProvisionDoes, IdleIsIdle, Zenon DEF Provision, At, One, LockHeld, Asleep, OnlyMoved, SameTask,
       RowIs
  <1>3. Boxes'
    BY ProvisionDoes, Zenon DEF Provision, One, Boxes, Beside, Running, Present
  <1>4. Knows(w)'
    BY ProvisionDoes, IdleIsIdle, Zenon DEF Provision, At, Knows, Safe, JobsFit, Fits, OnlyMoved, Moved,
       SameTask
  <1> QED BY <1>1, <1>2, <1>3, <1>4, OneActs DEF Safe

LEMMA OneResolve ==
  ASSUME WorkspaceFilesAssumption, Safe, Safe', One, NEW w \in Worker, Resolve(w)
  PROVE  One'
  <1>1. Rest(w) /\ (lock = None \/ ~Asleep(w))
    BY ResolveDoes, Zenon DEF Resolve, At, Asleep, Moved
  <1>2. Asleep(w)' \/ (lock' = w /\ worker'[w].gen = row'.gen)
    BY ResolveDoes, Zenon DEF Resolve, At, One, LockHeld, Asleep, SameTask
  <1>3. Boxes' /\ Beside' = Beside /\ row' = row
    BY Zenon DEF Resolve, One, Boxes, Beside, Running, Present
  <1>4. Knows(w)'
    <2>1. worker[w].pc = "resolve" /\ Knows(w) /\ SameTask(w)
      BY ResolveDoes, Zenon DEF Resolve, At, One
    <2>2. worker'[w].job = "execute" => row'.provider = worker'[w].had
      BY <1>3, <2>1 DEF Knows, SameTask
    <2>3. CASE Located(worker[w].stored) = {} /\ Moved(w, "create")
      <3>1. Beside = {}
        BY <2>3 DEF Located, Beside, Running, Present
      <3> QED BY <1>3, <2>2, <2>3, <3>1 DEF Knows, Moved
    <2>4. CASE \E b \in Located(worker[w].stored) : Moved(w, "ensure") /\ worker'[w].loc = b
      <3>1. PICK b \in Located(worker[w].stored) : Moved(w, "ensure") /\ worker'[w].loc = b
        BY <2>4
      <3>2. Beside \subseteq {b}
        BY DEF One, Boxes, Beside, Located, Running, Present
      <3> QED BY <1>3, <2>2, <3>1, <3>2 DEF Knows, Moved
    <2> QED BY <2>3, <2>4, ResolveDoes
  <1> QED BY <1>1, <1>2, <1>3, <1>4, OneActs DEF Safe

LEMMA OneEnsure ==
  ASSUME WorkspaceFilesAssumption, Safe, Safe', One, NEW w \in Worker, Ensure(w)
  PROVE  One'
  <1>1. Rest(w) /\ (lock = None \/ ~Asleep(w))
    BY EnsureDoes, Zenon DEF Ensure, At, Asleep, Moved
  <1>2. Asleep(w)' \/ (lock' = w /\ worker'[w].gen = row'.gen)
    BY EnsureDoes, Zenon DEF Ensure, At, One, LockHeld, Asleep, SameTask
  <1> DEFINE b == worker[w].loc
  <1>a. /\ b \in Box /\ BoxTyped /\ row' = row /\ worker[w].pc = "ensure" /\ Knows(w)
        /\ Beside \subseteq {b} /\ worker'[w].loc = b
        /\ worker'[w].job = "execute" => row'.provider = worker'[w].had
    BY EnsureDoes, Zenon DEF Ensure, At, Safe, One, Knows, SameTask, SameFind
  <1>b. CASE /\ b \in Beside \/ (~Docker /\ b \in Running)
             /\ BoxIs(b, "running", box[b].from, box[b].snap, box[b].files)
             /\ Moved(w, "settle") \/ (~Docker /\ Moved(w, "stopping"))
    <2>1. Beside' \subseteq {b}
      BY <1>a, <1>b, BoxesMove DEF BoxIs, Beside
    <2>2. Boxes'
      BY <1>a, <1>b, <2>1 DEF One, Boxes, BoxIs, OtherBoxes, Beside, Running, Present
    <2>3. Knows(w)'
      BY <1>a, <1>b, <2>1, EnsureDoes DEF Knows, Moved, Safe, JobsFit, Fits, Cleaning, SameTask
    <2> QED BY <1>1, <1>2, <2>2, <2>3, OneActs DEF Safe
  <1>c. CASE /\ ~Docker /\ box[b].phase = "finished" /\ Moved(w, "create") /\ box' = box
    <2>1. Beside' = {}
      BY <1>a, <1>c DEF Beside, Running
    <2>2. Boxes'
      BY <1>c DEF One, Boxes, Beside, Running, Present
    <2>3. Knows(w)'
      BY <1>a, <1>c, <2>1 DEF Knows, Moved
    <2> QED BY <1>1, <1>2, <2>2, <2>3, OneActs DEF Safe
  <1> QED BY <1>b, <1>c, EnsureDoes DEF Beside

LEMMA OneCreate ==
  ASSUME WorkspaceFilesAssumption, Safe, Safe', One, NEW w \in Worker, Create(w)
  PROVE  One'
  <1>1. Rest(w) /\ (lock = None \/ ~Asleep(w))
    BY CreateDoes, Zenon DEF Create, At, Asleep, Moved
  <1>2. Asleep(w)' \/ (lock' = w /\ worker'[w].gen = row'.gen)
    BY CreateDoes, Zenon DEF Create, At, One, LockHeld, Asleep, SameTask
  <1>a. PICK b \in Unused : /\ b \in Box /\ Moved(w, "asked") /\ SameTask(w)
                            /\ OtherBoxes(b) /\ box'[b].phase = "asked" /\ ~box'[b].snap
    BY CreateDoes DEF BoxIs
  <1>b. worker[w].pc = "create" /\ Knows(w) /\ row' = row /\ Beside = {}
    BY DEF Create, At, One, Knows
  <1>c. Beside' = {}
    BY <1>a, <1>b, BoxesMove DEF Beside, Safe
  <1>3. Boxes'
    BY <1>a, <1>c DEF One, Boxes, OtherBoxes
  <1>4. Knows(w)'
    BY <1>a, <1>b, <1>c DEF Knows, Moved, SameTask
  <1> QED BY <1>1, <1>2, <1>3, <1>4, OneActs DEF Safe

LEMMA OneCreated ==
  ASSUME WorkspaceFilesAssumption, Safe, Safe', One, NEW w \in Worker, Created(w)
  PROVE  One'
  <1>1. Rest(w) /\ (lock = None \/ ~Asleep(w))
    BY CreatedDoes, Zenon DEF Created, At, Asleep, Moved
  <1>2. Asleep(w)' \/ (lock' = w /\ worker'[w].gen = row'.gen)
    BY CreatedDoes, Zenon DEF Created, At, One, LockHeld, Asleep, SameTask
  <1>a. PICK b \in Box : /\ IF Docker THEN b = worker[w].used /\ box[b].phase = "finished"
                                       ELSE b \in Running
                         /\ Moved(w, "settle") /\ SameTask(w)
                         /\ BoxIs(b, "running", box[b].from, box[b].snap, box[b].files)
    BY CreatedDoes
  <1>b. worker[w].pc = "asked" /\ Knows(w) /\ row' = row /\ Beside \subseteq {worker[w].used}
    BY DEF Created, At, One, Knows
  <1>c. b \in Beside /\ Beside' \subseteq {b} /\ OtherBoxes(b)
    BY <1>a, <1>b, BoxesMove DEF Beside, Safe, BoxIs, Present
  <1>3. Boxes'
    <2>1. ~box[b].snap
      BY <1>a DEF One, Boxes, Running
    <2> QED BY <1>a, <1>c, <2>1 DEF One, Boxes, OtherBoxes, BoxIs
  <1>4. Knows(w)'
    BY <1>a, <1>b DEF Knows, Moved, SameTask
  <1> QED BY <1>1, <1>2, <1>3, <1>4, OneActs DEF Safe

LEMMA OneSettle ==
  ASSUME WorkspaceFilesAssumption, Safe, Safe', One, NEW w \in Worker, Settle(w)
  PROVE  One'
  <1>1. Rest(w) /\ (lock = None \/ ~Asleep(w))
    BY SettleDoes, Zenon DEF Settle, At, Asleep, Moved, Dropped, OnlyMoved
  <1>2. Asleep(w)' \/ (lock' = w /\ worker'[w].gen = row'.gen)
    BY SettleDoes, IdleIsIdle, Zenon DEF Settle, At, One, LockHeld, Asleep, OnlyMoved, SameTask,
       Dropped, RowIs
  <1>3. Boxes'
    BY DEF Settle, One, Boxes, Beside, Running, Present
  <1>4. Knows(w)'
    <2>1. Dropped(w) \/ (Moved(w, "claim") /\ SameUse(w) /\ row'.provider = IdOf(worker[w].used))
      <3>1. worker[w].job = "execute" => row.provider = worker[w].had
        BY DEF Settle, At, One, Knows
      <3> QED BY <3>1, SettleDoes DEF OnlyMoved, RowIs
    <2> QED BY <2>1, IdleIsIdle DEF Dropped, Moved, SameUse, Knows
  <1> QED BY <1>1, <1>2, <1>3, <1>4, OneActs DEF Safe

LEMMA OneClaim ==
  ASSUME WorkspaceFilesAssumption, Safe, Safe', One, NEW w \in Worker, Claim(w)
  PROVE  One'
  <1>1. Rest(w) /\ (lock = None \/ ~Asleep(w))
    BY ClaimDoes DEF Claim, At, Asleep, OnlyMoved, Moved
  <1>2. Asleep(w)' \/ (lock' = w /\ worker'[w].gen = row'.gen)
    BY ClaimDoes, IdleIsIdle DEF Claim, At, One, LockHeld, Asleep, OnlyMoved, SameTask
  <1>3. Boxes'
    BY ClaimDoes DEF Claim, One, Boxes, Beside, Running, Present
  <1>4. Knows(w)'
    BY ClaimDoes, IdleIsIdle DEF Claim, At, One, Knows, OnlyMoved, Moved, SameUse
  <1> QED BY <1>1, <1>2, <1>3, <1>4, OneActs DEF Safe

LEMMA OneDoWrite ==
  ASSUME WorkspaceFilesAssumption, Safe, Safe', One, NEW w \in Worker, DoWrite(w)
  PROVE  One'
  <1>1. Rest(w) /\ (lock = None \/ ~Asleep(w))
    BY DoWriteDoes DEF DoWrite, At, Asleep, Rest
  <1>2. Asleep(w)' \/ (lock' = w /\ worker'[w].gen = row'.gen)
    BY DoWriteDoes, IdleIsIdle DEF DoWrite, One, LockHeld, Asleep
  <1>3. Boxes'
    BY DoWriteDoes DEF DoWrite, At, One, Boxes, Knows, Beside, Running, Present, Safe, BoxIs,
       OtherBoxes
  <1>4. Knows(w)'
    BY DoWriteDoes, IdleIsIdle DEF DoWrite, At, One, Knows
  <1> QED BY <1>1, <1>2, <1>3, <1>4, OneActs DEF Safe

LEMMA OneFinish ==
  ASSUME WorkspaceFilesAssumption, Safe, Safe', One, NEW w \in Worker, Finish(w)
  PROVE  One'
  <1>1. Rest(w) /\ (lock = None \/ ~Asleep(w))
    BY FinishDoes DEF Finish, At, Asleep, Dropped
  <1>2. Asleep(w)' \/ (lock' = w /\ worker'[w].gen = row'.gen)
    BY FinishDoes, IdleIsIdle DEF Asleep, Dropped
  <1>3. Boxes'
    BY FinishDoes DEF Finish, One, Boxes, Beside, Running, Present
  <1>4. Knows(w)'
    BY FinishDoes, IdleIsIdle DEF Knows, Dropped
  <1> QED BY <1>1, <1>2, <1>3, <1>4, OneActs DEF Safe

LEMMA OneUnresolved ==
  ASSUME WorkspaceFilesAssumption, Safe, Safe', One, NEW w \in Worker, Unresolved(w)
  PROVE  One'
  <1>1. Rest(w) /\ (lock = None \/ ~Asleep(w))
    BY UnresolvedDoes, Zenon DEF Unresolved, At, Asleep, Moved
  <1>2. Asleep(w)' \/ (lock' = w /\ worker'[w].gen = row'.gen)
    BY UnresolvedDoes, IdleIsIdle DEF Asleep, Moved
  <1>3. Boxes'
    BY UnresolvedDoes, Zenon DEF Unresolved, One, Boxes, Beside, Running, Present
  <1>4. Knows(w)'
    BY UnresolvedDoes, IdleIsIdle DEF Knows, Moved
  <1> QED BY <1>1, <1>2, <1>3, <1>4, OneActs DEF Safe

LEMMA OneQuarantine ==
  ASSUME WorkspaceFilesAssumption, Safe, Safe', One, NEW w \in Worker, Quarantine(w)
  PROVE  One'
  <1>1. Rest(w) /\ (lock = None \/ ~Asleep(w))
    BY QuarantineDoes DEF Quarantine, OnlyMoved, Moved
  <1>2. Asleep(w)' \/ (lock' = w /\ worker'[w].gen = row'.gen)
    BY QuarantineDoes, IdleIsIdle DEF Quarantine, OnlyMoved, SameTask
  <1>3. Boxes'
    BY QuarantineDoes DEF Quarantine, One, Boxes, Beside, Running, Present
  <1>4. Knows(w)'
    BY QuarantineDoes, IdleIsIdle DEF Quarantine, At, Knows, Safe, JobsFit, Fits, Cleaning,
       OnlyMoved, Moved, SameTask
  <1> QED BY <1>1, <1>2, <1>3, <1>4, OneActs DEF Safe

LEMMA OneProvider ==
  ASSUME WorkspaceFilesAssumption, Safe, Safe', One, NEW b \in Box,
         Land(b) \/ End(b) \/ LoseSnapshot(b) \/ Forget(b)
  PROVE  One'
  <1>1. BoxTyped /\ row' = row /\ worker' = worker /\ lock' = lock
    BY DEF Safe, Land, End, LoseSnapshot, Forget
  <1>2. LockHeld'
    BY <1>1 DEF One, LockHeld, Asleep
  <1>3. CASE /\ box[b].phase = "asked" /\ Running = {}
             /\ \E w \in Worker : worker[w].pc = "asked" /\ worker[w].used = b
             /\ BoxIs(b, IF Docker THEN "finished" ELSE "running", box[b].from, box[b].snap, box[b].files)
    <2>1. PICK w \in Worker : worker[w].pc = "asked" /\ worker[w].used = b
      BY <1>3
    <2>2. Beside' \subseteq {b} /\ ~box[b].snap /\ OtherBoxes(b)
      BY <1>1, <1>3, <2>1, BoxesMove DEF One, Knows, Boxes, Beside, BoxIs
    <2>3. Boxes'
      BY <1>3, <2>2 DEF One, Boxes, OtherBoxes, BoxIs
    <2>4. Knows(w)'
      BY <1>1, <2>1, <2>2 DEF Knows, One
    <2>5. \A v \in Worker : v # w => Asleep(v)
      BY <2>1 DEF One, LockHeld, Asleep
    <2>6. \A v \in Worker : v # w => Knows(v)'
      BY <1>1, <2>5 DEF Safe, JobsFit, Fits, Asleep, Knows
    <2> QED BY <1>2, <2>3, <2>4, <2>6 DEF One
  <1>4. CASE /\ OtherBoxes(b)
             /\ b \notin Beside => b \notin Beside'
             /\ b \notin Running => b \notin Running'
             /\ b \notin Present => b \notin Present'
             /\ box'[b].snap => ~Docker /\ box'[b].phase = "finished"
             /\ box'[b].snap => box[b].snap \/ b \in Running
    <2>1. Beside' \subseteq Beside /\ Running' \subseteq Running /\ Present' \subseteq Present
      BY <1>1, <1>4, BoxesMove DEF Beside
    <2>2. Boxes'
      BY <1>4, <2>1 DEF One, Boxes, OtherBoxes
    <2>3. ASSUME NEW w \in Worker PROVE Knows(w)'
      <3>1. Knows(w) /\ worker'[w] = worker[w]
        BY <1>1 DEF One
      <3>2. \A c \in Box : box'[c].snap => box[c].snap \/ c \in Running
        BY <1>4 DEF OtherBoxes
      <3> QED BY <1>1, <2>1, <3>1, <3>2 DEF Knows
    <2> QED BY <1>2, <2>2, <2>3 DEF One
  <1>5. ASSUME box[b].phase = "running", BoxIs(b, "finished", box[b].from, ~Docker, box[b].files)
        PROVE  One'
    BY <1>4, <1>5, <1>1, BoxesMove DEF BoxIs, Beside
  <1>6. ASSUME box[b].snap, BoxIs(b, box[b].phase, box[b].from, FALSE, box[b].files)
        PROVE  One'
    BY <1>4, <1>6, <1>1, BoxesMove DEF BoxIs, Beside
  <1>7. ASSUME box[b].phase = "finished", BoxIs(b, "gone", box[b].from, FALSE, box[b].files)
        PROVE  One'
    BY <1>4, <1>7, <1>1, BoxesMove DEF BoxIs, Beside
  <1> QED BY <1>1, <1>3, <1>5, <1>6, <1>7, ProviderDoes

LEMMA OneRunChanges ==
  ASSUME One, RunChanges
  PROVE  One'
  BY DEF RunChanges, One, LockHeld, Asleep, Boxes, Knows, Beside, Running, Present

LEMMA OneKept ==
  ASSUME WorkspaceFilesAssumption, "lock" \notin Faults \/ ~dropped', Safe, Safe', One, [Next]_vars
  PROVE  One'
  <1>1. CASE UNCHANGED vars
    BY <1>1 DEF vars, One, LockHeld, Asleep, Boxes, Knows, Beside, Running, Present
  <1>l. ASSUME NEW w \in Worker, LoseLock(w), Next PROVE FALSE
    <2>1. Drops /\ "lock" \in Faults
      BY <1>l DEF LoseLock, Drops, WorkspaceFilesAssumption
    <2> QED BY <1>l, <2>1 DEF Next
  <1>2. CASE Next /\ \E w \in Worker : Step(w)
    BY <1>2, <1>l, OneFail, OneRecover, OneMutate, OneStopped, OneRecord, OneProvision, OneResolve,
       OneEnsure, OneCreate, OneCreated, OneSettle, OneClaim, OneDoWrite, OneFinish,
       OneUnresolved, OneQuarantine DEF Step
  <1>3. CASE \E w \in Worker : \E job \in Job : Begin(w, job)
    BY <1>3, OneBegin
  <1>4. CASE \E b \in Box : Land(b) \/ End(b) \/ LoseSnapshot(b) \/ Forget(b)
    BY <1>4, OneProvider
  <1>5. CASE RunChanges
    BY <1>5, OneRunChanges
  <1> QED BY <1>1, <1>2, <1>3, <1>4, <1>5 DEF Next, Moves

LEMMA OneAtFirst ==
  ASSUME Init
  PROVE  One
  BY IdleIsIdle DEF Init, One, LockHeld, Asleep, Boxes, Knows, Beside, Running, Present, NoBox

LEMMA OneAlways ==
  ASSUME WorkspaceFilesAssumption, "lock" \notin Faults
  PROVE  Spec => [](Safe /\ One)
  <1>1. Init => Safe /\ One
    BY SafeAtFirst, OneAtFirst
  <1>2. Safe /\ One /\ [Next]_vars => (Safe /\ One)'
    BY SafeKept, OneKept
  <1> QED BY <1>1, <1>2, PTL DEF Spec

HistoryTyped == taken \in BOOLEAN /\ dropped \in BOOLEAN

LEMMA HistoryAlways == Spec => []HistoryTyped
  <1>1. Init => HistoryTyped
    BY DEF Init, HistoryTyped
  <1>2. HistoryTyped /\ [Next]_vars => HistoryTyped'
    BY DEF HistoryTyped, Next, vars
  <1> QED BY <1>1, <1>2, PTL DEF Spec

\* The types, and that no two sandboxes run (modal.ts and docker.ts, with the
\* advisory lock of activity-scope.ts).
THEOREM FilesAreTyped ==
  ASSUME WorkspaceFilesAssumption, "lock" \notin Faults
  PROVE  Spec => []TypeOK
  <1>1. ASSUME Safe, One, HistoryTyped PROVE TypeOK
    <2>1. Running \subseteq Beside
      BY DEF Running, Present, Beside
    <2>2. Running = {} \/ \E b \in Box : Running = {b}
      BY <1>1, <2>1 DEF One, Boxes, Running
    <2>3. Cardinality(Running) <= 1
      <3>1. CASE Running = {}
        BY <3>1, FS_EmptySet
      <3>2. CASE \E b \in Box : Running = {b}
        <4>1. PICK b \in Box : Running = {b}
          BY <3>2
        <4>2. Cardinality({b}) = 1
          BY FS_Singleton
        <4> QED BY <4>1, <4>2
      <3> QED BY <2>2, <3>1, <3>2
    <2>4. \A b \in Box :
            /\ box[b].phase \in {"unused", "asked", "running", "finished", "gone"}
            /\ box[b].from \in Box \cup {None} /\ box[b].snap \in BOOLEAN
            /\ box[b].ending \in BOOLEAN /\ box[b].files \subseteq Write
      BY <1>1 DEF Safe, BoxTyped, Sandbox, Phase
    <2>5. \A w \in Worker :
            /\ worker[w].job \in Job \cup {None} /\ worker[w].gen \in Gen
            /\ worker[w].pc = "idle" <=> worker[w] = Idle
            /\ worker[w].pc \in {"asked", "working"} => worker[w].used \in Box
      BY <1>1, IdleIsIdle DEF Safe, WorkerTyped, Activity, JobsFit, Fits
    <2> QED BY <1>1, <2>3, <2>4, <2>5
       DEF Safe, RowTyped, RowType, OthersTyped, Running, HistoryTyped, TypeOK
  <1> QED BY <1>1, OneAlways, HistoryAlways, PTL

\* Commands run in the sandbox the row names, so that a pause captures their
\* files (prepareWorkspace and resolveWorkspace record the provider id before
\* the attempt is claimed).
THEOREM CommandsRunWhereRecorded ==
  ASSUME WorkspaceFilesAssumption, "lock" \notin Faults
  PROVE  Spec => []RunsWhereRecorded
  <1>1. One => RunsWhereRecorded
    BY DEF One, Knows, RunsWhereRecorded
  <1> QED BY <1>1, OneAlways, PTL

LEMMA OnlyCleanupsEnd ==
  ASSUME WorkspaceFilesAssumption, Safe, [Next]_vars,
         row'.state \in {"paused", "deleted"}, row'.state # row.state
  PROVE  \E w \in Worker : Record(w)
  <1>1. CASE UNCHANGED vars
    BY <1>1 DEF vars
  <1>2. CASE \E w \in Worker : Step(w)
    <2> SUFFICES ASSUME NEW w \in Worker, Step(w), ~Record(w) PROVE FALSE
      BY <1>2
    <2>1. ~(Recover(w) \/ Mutate(w) \/ Provision(w))
      BY RecoverDoes, MutateDoes, ProvisionDoes DEF RowIs
    <2>2. ~(Settle(w) \/ Finish(w) \/ Quarantine(w))
      BY SettleDoes, FinishDoes, QuarantineDoes DEF RowIs
    <2>3. row' # row
      OBVIOUS
    <2> QED BY <2>1, <2>2, <2>3, Zenon DEF Step, Fail, LoseLock, Stopped, Resolve, Ensure, Create,
       Created, Claim, DoWrite, Unresolved
  <1>3. ASSUME NEW w \in Worker, NEW job \in Job, Begin(w, job)
        PROVE  FALSE
    BY <1>3, BeginDoes
  <1>4. CASE RunChanges \/ \E b \in Box : Land(b) \/ End(b) \/ LoseSnapshot(b) \/ Forget(b)
    BY <1>4, Zenon DEF RunChanges, Land, End, LoseSnapshot, Forget
  <1> QED BY <1>1, <1>2, <1>3, <1>4 DEF Next, Moves

LEMMA RecordEnds ==
  ASSUME WorkspaceFilesAssumption, Safe, One, NEW w \in Worker, Record(w),
         row'.state \in {"paused", "deleted"}, row'.state # row.state
  PROVE  /\ Running = {}
         /\ row'.state = "deleted" =>
              /\ Docker => Present = {}
              /\ \A b \in Box : b = row.provider => ~box[b].snap
  <1>1. worker[w].pc = "record" /\ Knows(w)
    BY DEF Record, At, One
  <1>2. worker[w].job \in Cleaning
    BY RecordDoes DEF RowIs
  <1>3. row'.state = "deleted" => worker[w].loc = None \/ worker[w].job = "delete"
    BY <1>2, RecordDoes DEF RowIs, Cleaning
  <1> QED BY <1>1, <1>2, <1>3 DEF Knows

\* When a workspace is recorded as paused nothing runs any more
\* (terminate waits for the end, cleanupWorkspace records it afterwards).
THEOREM PausedWorkspacesEnded ==
  ASSUME WorkspaceFilesAssumption, "lock" \notin Faults
  PROVE  Spec => [][PausedHasEnded]_vars
  <1>1. ASSUME Safe, One, [Next]_vars PROVE [PausedHasEnded]_vars
    BY <1>1, OnlyCleanupsEnd, RecordEnds DEF PausedHasEnded
  <1> QED BY <1>1, OneAlways, PTL DEF Spec

\* A workspace that is recorded as deleted has left no running sandbox, no
\* container and no snapshot of the sandbox its row named (lifecycle of
\* modal.ts and docker.ts, cleanupWorkspace).
THEOREM DeletedWorkspacesAreGone ==
  ASSUME WorkspaceFilesAssumption, "lock" \notin Faults
  PROVE  Spec => [][DeletedIsGone]_vars
  <1>1. ASSUME Safe, One, [Next]_vars PROVE [DeletedIsGone]_vars
    BY <1>1, OnlyCleanupsEnd, RecordEnds DEF DeletedIsGone
  <1> QED BY <1>1, OneAlways, PTL DEF Spec
-----------------------------------------------------------------------------
(***************************************************************************)
(* What holds in Modal as long as nothing but an activity fails.           *)
(***************************************************************************)
Good(b)   == written[row.gen] \subseteq box[b].files
Usable(b) == box[b].phase = "running" \/ box[b].snap

\* An empty sandbox takes the place of the one the row names.
Replaces(w) == worker[w].pc \in {"asked", "settle"} /\ worker[w].disp = "replaced"

\* The thread is being deleted, and nobody prepares its workspace any more.
Closed == deleting /\ \A w \in Worker : worker[w].job \in {None, "replace", "delete"}

Kept ==
  /\ row.provider # Name
  /\ row.provider \in Box => row.provider \in Present /\ Good(row.provider)
  /\ row.provider = None => row.state # "paused" /\ (written[row.gen] = {} \/ Closed)
  /\ \A b \in Running : Good(b) \/ \E w \in Worker : Replaces(w) /\ worker[w].used = b
  /\ \A g \in Gen : g > row.gen => written[g] = {}
  /\ deleting => run = "none"

\* A run that is prepared finds its sandbox, or the snapshot of it.
Prepared ==
  run = "prepared" =>
    /\ row.transition = None
    /\ row.state = "running" => row.provider \in Box /\ Usable(row.provider)

Carries(w) ==
  LET a == worker[w] IN
  /\ a.pc = "recover" => a.stored = row.provider
  /\ a.job \in {"prepare", "wake"} /\ a.pc \in {"provision", "resolve", "ensure", "stopping", "create"} =>
       a.stored = row.provider
  /\ a.job \in {"prepare", "wake", "execute"} /\ a.pc \in {"ensure", "stopping", "create"} /\ a.loc # None =>
       a.loc \in Present /\ Good(a.loc)
  /\ a.pc = "create" /\ a.loc # None => box[a.loc].phase = "finished"
  /\ a.pc \in {"asked", "settle"} /\ a.disp # "replaced" => Good(a.used)
  /\ a.pc \in {"settle", "claim", "working"} => Usable(a.used)
  /\ a.job = "execute" =>
       /\ a.pc = "resolve" => row.provider \in Box /\ Usable(row.provider) /\ a.stored = row.provider
       /\ a.pc \in {"ensure", "stopping", "create"} =>
            a.loc \in Box /\ Usable(a.loc) /\ a.disp = "existing"
       /\ a.pc \in {"asked", "settle"} => a.disp # "replaced"
  /\ a.job \in {"delete", "replace"} /\ a.pc \in {"recover", "mutate", "stopping"} =>
       row.state = "quarantined" \/ row.transition # None
  /\ a.pc = "record" /\ a.loc = None => row.provider = None
  /\ a.job = "delete" => deleting

Whole == Kept /\ Prepared /\ \A w \in Worker : Carries(w)

Careful == ~Docker /\ Faults = {}

LEMMA WholeActs ==
  ASSUME WorkspaceFilesAssumption, One, JobsFit', NEW w \in Worker, Rest(w),
         lock = None \/ ~Asleep(w), Kept', Prepared', Carries(w)'
  PROVE  Whole'
  <1>1. \A v \in Worker : v # w => Asleep(v)'
    BY OthersSleep
  <1>2. \A v \in Worker : Asleep(v)' => Carries(v)'
    BY IdleIsIdle DEF WorkspaceFilesAssumption, Job, JobsFit, Fits, Asleep, Carries
  <1> QED BY <1>1, <1>2 DEF Whole

\* Where nobody replaces a sandbox, all that run are good.
LEMMA RunningIsGood ==
  ASSUME WorkspaceFilesAssumption, One, Kept, NEW w \in Worker, ~Asleep(w), ~Replaces(w)
  PROVE  \A b \in Running : Good(b)
  BY DEF One, LockHeld, Asleep, Kept, Replaces

\* What is located for the row is good.
LEMMA LocatedIsGood ==
  ASSUME WorkspaceFilesAssumption, Careful, One, Kept, NEW w \in Worker, ~Asleep(w), ~Replaces(w),
         NEW b \in Located(row.provider)
  PROVE  /\ b \in Box /\ b \in Present /\ Good(b)
         /\ row.provider \in Box /\ Usable(row.provider) => Usable(b)
  <1>1. b \in Running \/ (b = row.provider /\ b \in Present)
    BY DEF Careful, Located
  <1>2. b \in Box /\ b \in Present
    BY <1>1 DEF Running, Present
  <1>3. Good(b)
    BY <1>1, <1>2, RunningIsGood DEF Kept
  <1> QED BY <1>1, <1>2, <1>3 DEF Usable, Running

LEMMA ClosedStays ==
  ASSUME NEW w \in Worker, Rest(w), deleting' = deleting, Closed,
         worker'[w].job \in {worker[w].job, None, "replace"}
  PROVE  Closed'
  BY DEF Closed, Rest

\* A step that changes neither sandboxes nor what was written in them.
LEMMA KeptStays ==
  ASSUME Kept, UNCHANGED << box, deleting, written >>, \A b \in Running : Good(b),
         row'.provider = row.provider, row'.gen = row.gen,
         row'.state = "paused" => row.state = "paused", deleting => run' = "none",
         Closed => Closed'
  PROVE  Kept'
  <1>1. Running' = Running /\ Present' = Present
    BY DEF Running, Present
  <1>2. \A b \in Running' : Good(b)'
    BY <1>1 DEF Good
  <1> QED BY <1>1, <1>2 DEF Kept, Good

LEMMA PreparedStays ==
  ASSUME Prepared, box' = box, row'.provider = row.provider, row'.transition = row.transition,
         row'.state = "running" => row.state = "running", run' = "prepared" => run = "prepared"
  PROVE  Prepared'
  BY DEF Prepared, Usable


\* Nothing was written yet in a new generation.
LEMMA NewIsEmpty ==
  ASSUME WorkspaceFilesAssumption, RowTyped, Kept, row.gen < MaxGen, written' = written,
         row'.gen = row.gen + 1
  PROVE  /\ written'[row'.gen] = {}
         /\ \A g \in Gen : g > row'.gen => written'[g] = {}
         /\ \A b : Good(b)'
  <1>1. row.gen \in Nat /\ MaxGen \in Nat /\ row.gen >= 1 /\ row.gen + 1 \in Gen
    BY DEF WorkspaceFilesAssumption, RowTyped, RowType, Gen
  <1>2. ASSUME NEW g \in Gen, g >= row.gen + 1 PROVE written[g] = {}
    <2>1. g \in Nat
      BY DEF Gen
    <2>2. g > row.gen
      BY <1>1, <1>2, <2>1
    <2> QED BY <2>2 DEF Kept
  <1>3. row.gen + 1 >= row.gen + 1
    BY <1>1
  <1>4. written'[row'.gen] = {}
    BY <1>1, <1>2, <1>3
  <1>5. ASSUME NEW g \in Gen, g > row'.gen PROVE written'[g] = {}
    <2>1. g \in Nat
      BY DEF Gen
    <2>2. g >= row.gen + 1
      BY <1>1, <1>5, <2>1
    <2> QED BY <1>2, <2>2
  <1> QED BY <1>4, <1>5 DEF Good

LEMMA WholeBegin ==
  ASSUME WorkspaceFilesAssumption, Careful, Safe, Safe', One, Whole,
         NEW w \in Worker, NEW job \in Job, Begin(w, job)
  PROVE  Whole'
  <1>1. Rest(w) /\ (lock = None \/ ~Asleep(w))
    BY BeginDoes, Zenon DEF Begin, Moved
  <1>2. /\ UNCHANGED << box, owner, deleting, written >> /\ lock = None /\ MayBegin(job)
        /\ run' = IF job = "prepare" THEN "active" ELSE run
        /\ row'.provider = row.provider /\ row'.gen = row.gen
        /\ row'.transition = IF job \in Cleaning THEN job ELSE row.transition
        /\ row'.state # row.state => row'.state = "provisioning"
    BY BeginDoes, Zenon DEF Begin, RowIs
  <1>3. /\ Running' = Running /\ Present' = Present
        /\ \A b \in Box : (Good(b) <=> Good(b)') /\ (Usable(b) <=> Usable(b)')
    BY <1>2 DEF Running, Present, Good, Usable
  <1>4. /\ worker'[w].job = job /\ worker'[w].stored = row.provider
        /\ worker'[w].pc = FirstStep(job) /\ FirstStep(job) \in {"recover", "provision", "resolve"}
    BY BeginDoes DEF Moved
  <1>k. Kept'
    <2>1. row'.provider = None => row'.state # "paused" /\ (written'[row'.gen] = {} \/ Closed')
      <3>1. SUFFICES ASSUME row.provider = None, written[row.gen] # {} PROVE Closed'
        BY <1>2 DEF Whole, Kept
      <3>2. Closed /\ run = "none" /\ row.state # "paused"
        BY <3>1 DEF Whole, Kept, Closed
      <3>3. job = "delete"
        BY <1>2, <3>2 DEF MayBegin, Active, Closed
      <3> QED BY <1>1, <1>2, <1>4, <3>2, <3>3 DEF Closed, Rest
    <2>2. \A b \in Running' : Good(b)'
      <3>1. \A v \in Worker : ~Replaces(v)
        BY <1>2 DEF One, LockHeld, Asleep, Replaces, WorkspaceFilesAssumption
      <3> QED BY <1>2, <1>3, <3>1 DEF Whole, Kept, Good
    <2>3. deleting' => run' = "none"
      BY <1>2 DEF Whole, Kept, MayBegin, Active
    <2> QED BY <1>2, <1>3, <2>1, <2>2, <2>3 DEF Whole, Kept
  <1>p. Prepared'
    <2>1. run' = "prepared" => run = "prepared" /\ job \notin Cleaning /\ job # "prepare"
      BY <1>2 DEF MayBegin, Whole, Kept, Cleaning
    <2> QED BY <1>2, <1>3, <2>1 DEF Whole, Prepared
  <1>c. Carries(w)'
    <2>1. job = "execute" => row.provider \in Box /\ Usable(row.provider)
      BY <1>2 DEF MayBegin, Whole, Prepared
    <2>2. job = "delete" => deleting
      BY <1>2 DEF MayBegin
    <2>3. job # "replace"
      BY <1>2 DEF MayBegin
    <2>4. row'.transition # None \/ job # "delete"
      BY <1>2 DEF Cleaning, WorkspaceFilesAssumption, Job
    <2> QED BY <1>2, <1>3, <1>4, <2>1, <2>2, <2>3, <2>4 DEF Carries
  <1> QED BY <1>1, <1>k, <1>p, <1>c, WholeActs DEF Safe

LEMMA WholeFail ==
  ASSUME WorkspaceFilesAssumption, Careful, Safe, Safe', One, Whole,
         NEW w \in Worker, Fail(w)
  PROVE  Whole'
  <1>1. Dropped(w) /\ UNCHANGED << row, box, run, deleting, written >>
    BY OverDrops DEF Fail, Safe
  <1>2. ~Replaces(w)
    BY DEF Fail, Careful, Replaces
  <1>3. /\ Running' = Running /\ Present' = Present
        /\ \A b \in Box : (Good(b) <=> Good(b)') /\ (Usable(b) <=> Usable(b)')
    BY <1>1 DEF Running, Present, Good, Usable
  <1>4. \A v \in Worker : v # w => worker'[v] = worker[v]
    BY <1>1 DEF Dropped, Rest
  <1>5. worker'[w].job = None /\ worker'[w].pc = "idle"
    BY <1>1, IdleIsIdle DEF Dropped
  <1>6. \A v \in Worker : Replaces(v) => v # w /\ Replaces(v)' /\ worker'[v].used = worker[v].used
    BY <1>2, <1>4 DEF Replaces
  <1>7. Closed => Closed'
    BY <1>1, <1>4, <1>5 DEF Closed
  <1>k. Kept'
    <2>1. \A b \in Running' : Good(b)' \/ \E v \in Worker : Replaces(v)' /\ worker'[v].used = b
      <3> SUFFICES ASSUME NEW b \in Running, ~Good(b)
                   PROVE  \E v \in Worker : Replaces(v)' /\ worker'[v].used = b
        BY <1>3 DEF Running
      <3> QED BY <1>6 DEF Whole, Kept
    <2>2. row'.provider \in Box => row'.provider \in Present' /\ Good(row.provider)'
      BY <1>1, <1>3 DEF Whole, Kept, Good
    <2> QED BY <1>1, <1>7, <2>1, <2>2 DEF Whole, Kept
  <1>p. Prepared'
    BY <1>1, <1>3 DEF Whole, Prepared
  <1>c. ASSUME NEW v \in Worker PROVE Carries(v)'
    <2>1. CASE v = w
      BY <1>5, <2>1 DEF Carries, WorkspaceFilesAssumption, Job
    <2>2. CASE v # w
      <3>1. worker'[v] = worker[v] /\ Carries(v)
        BY <1>4, <2>2 DEF Whole
      <3>2. Good(worker[v].loc) <=> Good(worker[v].loc)'
        BY <1>1, <1>4, <2>2 DEF Good
      <3>3. Good(worker[v].used) <=> Good(worker[v].used)'
        BY <1>1, <1>4, <2>2 DEF Good
      <3>4. Usable(worker[v].loc) <=> Usable(worker[v].loc)'
        BY <1>1, <1>4, <2>2 DEF Usable
      <3>5. Usable(worker[v].used) <=> Usable(worker[v].used)'
        BY <1>1, <1>4, <2>2 DEF Usable
      <3>6. Usable(row.provider) <=> Usable(row.provider)'
        BY <1>1 DEF Usable
      <3> QED BY <1>1, <1>3, <3>1, <3>2, <3>3, <3>4, <3>5, <3>6 DEF Carries
    <2> QED BY <2>1, <2>2
  <1> QED BY <1>k, <1>p, <1>c DEF Whole

LEMMA WholeRecover ==
  ASSUME WorkspaceFilesAssumption, Careful, Safe, Safe', One, Whole,
         NEW w \in Worker, Recover(w)
  PROVE  Whole'
  <1>1. Rest(w) /\ (lock = None \/ ~Asleep(w))
    BY RecoverDoes DEF Recover, At, Asleep, OnlyMoved, Moved
  <1>2. /\ UNCHANGED << box, run, deleting, written >> /\ worker[w].pc = "recover"
        /\ OnlyMoved(w, "mutate") /\ worker[w].stored = row.provider
        /\ worker[w].job \in Cleaning \cup {"prepare"} /\ Carries(w)
    BY RecoverDoes DEF Recover, At, Safe, JobsFit, Fits, Whole, Carries
  <1>3. /\ row'.state = row.state /\ row'.gen = row.gen /\ row'.transition = row.transition
        /\ row'.provider = row.provider \/ row'.provider \in Located(row.provider)
    BY <1>2, RecoverDoes DEF RowIs, IdOf, Careful
  <1>4. /\ Running' = Running /\ Present' = Present
        /\ \A b \in Box : (Good(b) <=> Good(b)') /\ (Usable(b) <=> Usable(b)')
    BY <1>2, <1>3 DEF Running, Present, Good, Usable
  <1>5. ~Replaces(w) /\ ~Asleep(w)
    BY <1>2 DEF Replaces, Asleep
  <1>6. \A b \in Located(row.provider) :
          /\ b \in Box /\ b \in Present /\ Good(b)
          /\ row.provider \in Box /\ Usable(row.provider) => Usable(b)
    BY <1>5, LocatedIsGood DEF Whole
  <1>7. \A b \in Running : Good(b)
    BY <1>5, RunningIsGood DEF Whole
  <1>8. Closed => Closed'
    BY <1>2 DEF Closed, OnlyMoved, Moved, Rest, SameTask
  <1>9. None \notin Box /\ Name \notin Box
    BY DEF WorkspaceFilesAssumption
  <1>k. Kept'
    <2>1. row'.provider \in Box => row'.provider \in Present' /\ Good(row.provider)'
      BY <1>2, <1>3, <1>4, <1>6 DEF Whole, Kept, Good
    <2>2. \A b \in Running' : Good(b)'
      BY <1>4, <1>7 DEF Running
    <2>3. row'.provider = None => row.provider = None
      BY <1>3, <1>6, <1>9
    <2>4. row'.provider # Name
      BY <1>3, <1>6, <1>9 DEF Whole, Kept
    <2> QED BY <1>2, <1>3, <1>8, <2>1, <2>2, <2>3, <2>4 DEF Whole, Kept
  <1>p. Prepared'
    BY <1>2, <1>3, <1>4, <1>6 DEF Whole, Prepared
  <1>c. Carries(w)'
    BY <1>2, <1>3 DEF Carries, OnlyMoved, Moved, SameTask, Cleaning
  <1> QED BY <1>1, <1>k, <1>p, <1>c, WholeActs DEF Safe

LEMMA WholeMutate ==
  ASSUME WorkspaceFilesAssumption, Careful, Safe, Safe', One, Whole,
         NEW w \in Worker, Mutate(w)
  PROVE  Whole'
  <1>1. Rest(w) /\ (lock = None \/ ~Asleep(w))
    BY MutateDoes, Zenon DEF Mutate, At, Asleep, Moved
  <1>2. /\ UNCHANGED << run, deleting, written >> /\ worker[w].pc = "mutate" /\ Carries(w)
        /\ worker'[w].job = worker[w].job /\ ~Replaces(w) /\ ~Asleep(w)
    BY MutateDoes, Zenon DEF Mutate, At, Whole, SameTask, Replaces, Asleep
  <1>3. \A b \in Running : Good(b)
    BY <1>2, RunningIsGood DEF Whole
  <1>4. Closed => Closed'
    BY <1>1, <1>2, ClosedStays
  <1>5. row'.provider = row.provider /\ row'.gen = row.gen /\ row'.state = row.state
    BY MutateDoes DEF RowIs
  <1>6. CASE /\ worker[w].job = "prepare" /\ row.transition = "pause" /\ row'.transition = None
             /\ Moved(w, "provision") /\ worker'[w].stored = row.provider /\ box' = box
    <2>1. Kept'
      BY <1>2, <1>3, <1>4, <1>5, <1>6, KeptStays DEF Whole, Kept
    <2>2. Prepared'
      BY <1>2, <1>6 DEF Whole, Prepared, WorkspaceFilesAssumption, Job
    <2>3. Carries(w)'
      BY <1>2, <1>5, <1>6 DEF Moved, Carries
    <2> QED BY <1>1, <2>1, <2>2, <2>3, WholeActs DEF Safe
  <1>7. CASE /\ row' = row /\ Located(row.provider) = {} /\ Moved(w, "record")
             /\ worker'[w].loc = None /\ box' = box
    <2>1. Kept'
      BY <1>2, <1>3, <1>4, <1>5, <1>7, KeptStays DEF Whole, Kept
    <2>2. Prepared'
      BY <1>2, <1>7, PreparedStays DEF Whole
    <2>3. row.provider \notin Box
      BY <1>7 DEF Whole, Kept, Located, Careful, Present
    <2>4. row.provider = None
      BY <2>3 DEF Safe, RowTyped, RowType, Id, Whole, Kept
    <2>5. Carries(w)'
      BY <1>2, <1>7, <2>4 DEF Moved, Carries
    <2> QED BY <1>1, <2>1, <2>2, <2>5, WholeActs DEF Safe
  <1>8. ASSUME NEW b \in Located(row.provider), row' = row, Moved(w, "stopping"),
               worker[w].job \in Cleaning \cup {"replace"},
               BoxIs(b, box[b].phase, box[b].from, box[b].snap, box[b].files)
        PROVE  Whole'
    <2>1. b \in Box
      BY DEF Located, Running, Present
    <2>2. \A c \in Box : /\ box'[c].phase = box[c].phase /\ box'[c].snap = box[c].snap
                         /\ box'[c].files = box[c].files
      BY <1>8, <2>1 DEF BoxIs, OtherBoxes
    <2>3. Running' = Running /\ Present' = Present
      BY <2>2 DEF Running, Present
    <2>4. Kept'
      <3>1. \A c \in Running' : Good(c)'
        BY <1>2, <1>3, <1>8, <2>2, <2>3 DEF Good, Running
      <3>2. row.provider \in Box => row.provider \in Present' /\ Good(row.provider)'
        BY <1>2, <1>8, <2>2, <2>3 DEF Whole, Kept, Good
      <3> QED BY <1>2, <1>4, <1>8, <3>1, <3>2 DEF Whole, Kept, Good
    <2>5. Prepared'
      BY <1>2, <1>8, <2>2 DEF Whole, Prepared, Usable
    <2>6. Carries(w)'
      BY <1>2, <1>8 DEF Moved, Carries, Cleaning
    <2> QED BY <1>1, <2>4, <2>5, <2>6, WholeActs DEF Safe
  <1> QED BY <1>6, <1>7, <1>8, MutateDoes DEF RowIs

LEMMA WholeStopped ==
  ASSUME WorkspaceFilesAssumption, Careful, Safe, Safe', One, Whole,
         NEW w \in Worker, Stopped(w)
  PROVE  Whole'
  <1>1. Rest(w) /\ (lock = None \/ ~Asleep(w))
    BY StoppedDoes DEF Stopped, At, Asleep, OnlyMoved, Moved
  <1> DEFINE b == worker[w].loc
  <1>2. /\ UNCHANGED << row, run, deleting, written >> /\ worker[w].pc = "stopping" /\ Carries(w)
        /\ worker'[w].job = worker[w].job /\ worker'[w].loc = b /\ worker'[w].disp = worker[w].disp
        /\ worker'[w].stored = worker[w].stored /\ ~Replaces(w) /\ ~Asleep(w)
        /\ worker'[w].pc = IF worker[w].job \in Cleaning \cup {"replace"} THEN "record" ELSE "create"
    BY StoppedDoes DEF Stopped, At, Whole, OnlyMoved, Moved, SameTask, SameFind, SameSource,
       Replaces, Asleep
  <1>3. /\ b \in Box /\ box[b].phase = "finished"
        /\ box' = box \/ /\ worker[w].job \in {"delete", "replace"}
                         /\ BoxIs(b, "finished", box[b].from, FALSE, box[b].files)
    BY StoppedDoes DEF Careful, Erases
  <1>4. /\ \A c \in Box : box'[c].phase = box[c].phase /\ box'[c].files = box[c].files
        /\ \A c \in Box : c # b \/ worker[w].job \notin {"delete", "replace"} => box'[c].snap = box[c].snap
    BY <1>3 DEF BoxIs, OtherBoxes
  <1>5. Running' = Running /\ Present' = Present
    BY <1>4 DEF Running, Present
  <1>6. Closed => Closed'
    BY <1>1, <1>2, ClosedStays
  <1>k. Kept'
    <2>1. \A c \in Running' : Good(c)'
      <3>1. \A c \in Running : Good(c)
        BY <1>2, RunningIsGood DEF Whole
      <3> QED BY <1>2, <1>4, <1>5, <3>1 DEF Good, Running
    <2>2. row.provider \in Box => row.provider \in Present' /\ Good(row.provider)'
      BY <1>2, <1>4, <1>5 DEF Whole, Kept, Good
    <2> QED BY <1>2, <1>6, <2>1, <2>2 DEF Whole, Kept, Good
  <1>p. Prepared'
    <2> SUFFICES ASSUME run = "prepared", row.state = "running", row.transition = None
                 PROVE  row.provider \in Box /\ Usable(row.provider)'
      BY <1>2 DEF Whole, Prepared
    <2>1. row.provider \in Box /\ Usable(row.provider) /\ worker[w].job \notin {"delete", "replace"}
      BY <1>2 DEF Whole, Prepared, Carries
    <2> QED BY <1>2, <1>4, <2>1 DEF Usable
  <1>c. Carries(w)'
    <2>1. CASE worker[w].job \in Cleaning \cup {"replace"}
      BY <1>2, <1>3, <2>1 DEF Carries, Cleaning, WorkspaceFilesAssumption
    <2>2. CASE worker[w].job \notin Cleaning \cup {"replace"}
      <3>1. worker'[w].pc = "create" /\ worker[w].job \notin {"delete", "replace"}
        BY <1>2, <2>2 DEF Cleaning
      <3>2. box'[b].phase = "finished" /\ (Usable(b) => Usable(b)') /\ (Good(b) => Good(b)')
        BY <1>2, <1>3, <1>4, <3>1 DEF Usable, Good
      <3>3. b \in Present => b \in Present'
        BY <1>5
      <3> QED BY <1>2, <1>3, <3>1, <3>2, <3>3 DEF Carries, Usable, Good
    <2> QED BY <2>1, <2>2
  <1> QED BY <1>1, <1>k, <1>p, <1>c, WholeActs DEF Safe

LEMMA WholeRecord ==
  ASSUME WorkspaceFilesAssumption, Careful, Safe, Safe', One, Whole,
         NEW w \in Worker, Record(w)
  PROVE  Whole'
  <1>1. Rest(w) /\ (lock = None \/ ~Asleep(w))
    BY RecordDoes, Zenon DEF Record, At, Asleep, Dropped
  <1>2. /\ UNCHANGED << box, run, deleting, written >> /\ worker[w].pc = "record"
        /\ Knows(w) /\ Carries(w) /\ worker'[w] = Idle /\ ~Replaces(w) /\ ~Asleep(w)
    BY RecordDoes, Zenon DEF Record, At, Whole, One, Dropped, Replaces, Asleep
  <1>3. \A b \in Running : Good(b)
    BY <1>2, RunningIsGood DEF Whole
  <1>4. Closed => Closed'
    BY <1>1, <1>2, IdleIsIdle, ClosedStays
  <1>c. Carries(w)'
    BY <1>2, IdleIsIdle DEF Carries, WorkspaceFilesAssumption, Job
  <1>5. CASE row' = row
    <2>1. Kept'
      BY <1>2, <1>3, <1>4, <1>5, KeptStays DEF Whole, Kept
    <2>2. Prepared'
      BY <1>2, <1>5, PreparedStays DEF Whole
    <2> QED BY <1>1, <1>c, <2>1, <2>2, WholeActs DEF Safe
  <1>6. CASE row.gen < MaxGen /\ RowIs("provisioning", None, row.gen + 1, None)
    <2>3. Kept'
      <3>1. /\ row'.provider = None /\ row'.gen = row.gen + 1 /\ row'.state = "provisioning"
            /\ None \notin Box /\ None # Name
        BY <1>6 DEF RowIs, WorkspaceFilesAssumption
      <3>2. /\ written'[row'.gen] = {} /\ \A g \in Gen : g > row'.gen => written'[g] = {}
            /\ \A b : Good(b)'
        BY <1>2, <1>6, <3>1, NewIsEmpty DEF Safe, Whole
      <3> QED BY <1>2, <3>1, <3>2 DEF Whole, Kept
    <2>4. Prepared'
      BY <1>6 DEF RowIs, Prepared
    <2> QED BY <1>1, <1>c, <2>3, <2>4, WholeActs DEF Safe
  <1>7. CASE /\ worker[w].job \in Cleaning
             /\ worker[w].loc = None \/ worker[w].job = "delete"
             /\ RowIs("deleted", None, row.gen, None)
    <2>1. row'.provider = None /\ row'.state = "deleted" /\ row'.gen = row.gen
      BY <1>7 DEF RowIs
    <2>2. written[row.gen] = {} \/ Closed'
      <3>1. CASE worker[w].loc = None
        BY <1>2, <1>4, <3>1 DEF Carries, Whole, Kept
      <3>2. CASE worker[w].job = "delete"
        <4>1. deleting
          BY <1>2, <3>2 DEF Carries
        <4>2. \A v \in Worker : v # w => Asleep(v)'
          BY <1>1, OthersSleep DEF Safe
        <4>3. \A v \in Worker : Asleep(v)' => worker'[v].job \in {None, "replace"}
          BY IdleIsIdle DEF Safe, JobsFit, Fits, Asleep
        <4> QED BY <1>2, <4>1, <4>2, <4>3, IdleIsIdle DEF Closed
      <3> QED BY <1>7, <3>1, <3>2
    <2>3. Kept'
      <3>1. None \notin Box /\ None # Name
        BY DEF WorkspaceFilesAssumption
      <3>2. \A b \in Running' : Good(b)'
        BY <1>2, <1>3, <2>1 DEF Good, Running
      <3> QED BY <1>2, <2>1, <2>2, <3>1, <3>2 DEF Whole, Kept
    <2>4. Prepared'
      BY <1>7 DEF RowIs, Prepared
    <2> QED BY <1>1, <1>c, <2>3, <2>4, WholeActs DEF Safe
  <1>8. CASE /\ worker[w].job \in Cleaning /\ worker[w].loc # None /\ worker[w].loc \in Box
             /\ RowIs("paused", IdOf(worker[w].loc), row.gen, None)
    <2>1. row'.provider = row.provider /\ row.provider \in Box /\ row'.gen = row.gen /\ row'.state = "paused"
      BY <1>2, <1>8 DEF Knows, RowIs, IdOf, Careful
    <2>2. Kept'
      BY <1>2, <1>3, <2>1 DEF Whole, Kept, Good, Running, Present, WorkspaceFilesAssumption
    <2>3. Prepared'
      BY <1>8 DEF RowIs, Prepared
    <2> QED BY <1>1, <1>c, <2>2, <2>3, WholeActs DEF Safe
  <1> QED BY <1>5, <1>6, <1>7, <1>8, RecordDoes

LEMMA WholeProvision ==
  ASSUME WorkspaceFilesAssumption, Careful, Safe, Safe', One, Whole,
         NEW w \in Worker, Provision(w)
  PROVE  Whole'
  <1>1. Rest(w) /\ (lock = None \/ ~Asleep(w))
    BY ProvisionDoes, Zenon DEF Provision, At, Asleep, OnlyMoved, Moved
  <1>2. /\ UNCHANGED << box, run, deleting, written >> /\ worker[w].pc = "provision" /\ Carries(w)
        /\ worker[w].job = "prepare" /\ OnlyMoved(w, "resolve") /\ ~Replaces(w) /\ ~Asleep(w)
    BY ProvisionDoes, Zenon DEF Provision, At, Safe, JobsFit, Fits, Whole, Replaces, Asleep
  <1>3. /\ row'.provider = row.provider /\ row'.gen = row.gen /\ row'.transition = row.transition
        /\ row'.state # row.state => row'.state = "provisioning"
    BY <1>2, ProvisionDoes DEF Carries, RowIs
  <1>4. \A b \in Running : Good(b)
    BY <1>2, RunningIsGood DEF Whole
  <1>5. Closed => Closed'
    BY <1>1, <1>2, ClosedStays DEF OnlyMoved, SameTask
  <1>k. Kept'
    BY <1>2, <1>3, <1>4, <1>5, KeptStays DEF Whole, Kept
  <1>p. Prepared'
    BY <1>2, <1>3, PreparedStays DEF Whole
  <1>c. Carries(w)'
    BY <1>2, <1>3 DEF OnlyMoved, Moved, SameTask, SameSource, Carries
  <1> QED BY <1>1, <1>k, <1>p, <1>c, WholeActs DEF Safe

LEMMA WholeResolve ==
  ASSUME WorkspaceFilesAssumption, Careful, Safe, Safe', One, Whole,
         NEW w \in Worker, Resolve(w)
  PROVE  Whole'
  <1>1. Rest(w) /\ (lock = None \/ ~Asleep(w))
    BY ResolveDoes, Zenon DEF Resolve, At, Asleep, Moved
  <1>2. /\ UNCHANGED << row, box, run, deleting, written >> /\ worker[w].pc = "resolve" /\ Carries(w)
        /\ worker'[w].job = worker[w].job /\ worker[w].job \in {"prepare", "execute", "wake"}
        /\ worker[w].stored = row.provider /\ ~Replaces(w) /\ ~Asleep(w)
    BY ResolveDoes, Zenon DEF Resolve, At, Safe, JobsFit, Fits, Whole, Carries, SameTask, Replaces,
       Asleep
  <1>3. \A b \in Running : Good(b)
    BY <1>2, RunningIsGood DEF Whole
  <1>4. Closed => Closed'
    BY <1>1, <1>2, ClosedStays
  <1>k. Kept'
    BY <1>2, <1>3, <1>4, KeptStays DEF Whole, Kept
  <1>p. Prepared'
    BY <1>2, PreparedStays DEF Whole
  <1>c. Carries(w)'
    <2>1. CASE /\ Moved(w, "create") /\ worker[w].job # "execute" /\ SameSource(w)
               /\ worker'[w].loc = None
      BY <1>2, <2>1 DEF Moved, SameSource, Carries
    <2>2. ASSUME NEW b \in Located(worker[w].stored), Moved(w, "ensure"), worker'[w].loc = b,
                 worker'[w].stored = IF worker[w].job = "execute" THEN IdOf(b) ELSE worker[w].stored,
                 worker'[w].disp = IF Continues(b, worker'[w].stored) THEN "existing" ELSE "replaced"
          PROVE  Carries(w)'
      <3>1. /\ b \in Box /\ b \in Present /\ Good(b)
            /\ row.provider \in Box /\ Usable(row.provider) => Usable(b)
        BY <1>2, LocatedIsGood DEF Whole
      <3>2. worker[w].job = "execute" => Usable(b) /\ worker'[w].disp = "existing"
        BY <1>2, <2>2, <3>1 DEF Carries, Continues, IdOf, Careful
      <3>3. b \in Present' /\ Good(b)' /\ (Usable(b) => Usable(b)')
        BY <1>2, <3>1 DEF Present, Good, Usable
      <3> QED BY <1>2, <2>2, <3>1, <3>2, <3>3 DEF Moved, Carries, Good, Usable
    <2> QED BY <2>1, <2>2, ResolveDoes
  <1> QED BY <1>1, <1>k, <1>p, <1>c, WholeActs DEF Safe

LEMMA WholeEnsure ==
  ASSUME WorkspaceFilesAssumption, Careful, Safe, Safe', One, Whole,
         NEW w \in Worker, Ensure(w)
  PROVE  Whole'
  <1>1. Rest(w) /\ (lock = None \/ ~Asleep(w))
    BY EnsureDoes, Zenon DEF Ensure, At, Asleep, Moved
  <1> DEFINE b == worker[w].loc
  <1>2. /\ UNCHANGED << row, run, deleting, written >> /\ worker[w].pc = "ensure" /\ Carries(w)
        /\ worker'[w].job = worker[w].job /\ worker[w].job \in {"prepare", "execute", "wake"}
        /\ worker'[w].loc = b /\ worker'[w].disp = worker[w].disp
        /\ worker'[w].stored = worker[w].stored /\ ~Replaces(w) /\ ~Asleep(w)
        /\ b \in Box /\ b \in Present /\ Good(b)
    BY EnsureDoes, Zenon DEF Ensure, At, Safe, JobsFit, Fits, Whole, Carries, SameTask, SameFind,
       SameSource, Replaces, Asleep, WorkspaceFilesAssumption
  <1>3. /\ \A c \in Box : /\ box'[c].phase = box[c].phase /\ box'[c].snap = box[c].snap
                          /\ box'[c].files = box[c].files
        /\ \/ b \in Running /\ Moved(w, "settle") /\ worker'[w].used = b
           \/ b \in Running /\ Moved(w, "stopping")
           \/ box[b].phase = "finished" /\ Moved(w, "create")
    BY <1>2, EnsureDoes DEF Careful, BoxIs, OtherBoxes, Running
  <1>4. Closed => Closed'
    BY <1>1, <1>2, ClosedStays
  <1>5. Running' = Running /\ Present' = Present
    BY <1>3 DEF Running, Present
  <1>k. Kept'
    <2>1. \A c \in Running' : Good(c)'
      <3>1. \A c \in Running : Good(c)
        BY <1>2, RunningIsGood DEF Whole
      <3> QED BY <1>2, <1>3, <1>5, <3>1 DEF Good, Running
    <2>2. row.provider \in Box => row.provider \in Present' /\ Good(row.provider)'
      BY <1>2, <1>3, <1>5 DEF Whole, Kept, Good
    <2> QED BY <1>2, <1>4, <2>1, <2>2 DEF Whole, Kept, Good
  <1>p. Prepared'
    BY <1>2, <1>3 DEF Whole, Prepared, Usable
  <1>c. Carries(w)'
    <2>1. b \in Present' /\ Good(b)' /\ (Usable(b) => Usable(b)') /\ (b \in Running => Usable(b)')
      BY <1>2, <1>3, <1>5 DEF Good, Usable, Running
    <2>2. worker[w].job = "execute" => Usable(b) /\ worker[w].disp = "existing"
      BY <1>2 DEF Carries
    <2>3. CASE b \in Running /\ Moved(w, "settle") /\ worker'[w].used = b
      BY <1>2, <2>1, <2>2, <2>3 DEF Moved, Carries, Good, Usable
    <2>4. CASE b \in Running /\ Moved(w, "stopping")
      BY <1>2, <2>1, <2>2, <2>4 DEF Moved, Carries, Good, Usable
    <2>5. CASE box[b].phase = "finished" /\ Moved(w, "create")
      BY <1>2, <1>3, <2>1, <2>2, <2>5 DEF Moved, Carries, Good, Usable
    <2> QED BY <1>3, <2>3, <2>4, <2>5
  <1> QED BY <1>1, <1>k, <1>p, <1>c, WholeActs DEF Safe

LEMMA WholeCreate ==
  ASSUME WorkspaceFilesAssumption, Careful, Safe, Safe', One, Whole,
         NEW w \in Worker, Create(w)
  PROVE  Whole'
  <1>1. Rest(w) /\ (lock = None \/ ~Asleep(w))
    BY CreateDoes, Zenon DEF Create, At, Asleep, Moved
  <1> DEFINE restored == worker[w].loc # None /\ box[worker[w].loc].snap
  <1>2. /\ UNCHANGED << row, run, deleting, written >> /\ worker[w].pc = "create" /\ Carries(w)
        /\ worker'[w].job = worker[w].job /\ worker[w].job \in {"prepare", "execute", "wake"}
        /\ ~Replaces(w) /\ ~Asleep(w) /\ Running = {}
    BY CreateDoes, Zenon DEF Create, At, Safe, JobsFit, Fits, Whole, SameTask, Replaces, Asleep, One,
       Knows, Beside, Careful
  <1>3. PICK b \in Box :
          /\ box[b].phase = "unused" /\ Moved(w, "asked") /\ worker'[w].used = b
          /\ worker'[w].disp =
               IF restored THEN (IF worker[w].disp = "replaced" THEN "replaced" ELSE "restored")
               ELSE IF worker[w].stored # None THEN "replaced" ELSE "created"
          /\ OtherBoxes(b) /\ box'[b].phase = "asked" /\ box'[b].snap = FALSE
          /\ box'[b].files = IF restored THEN box[worker[w].loc].files ELSE {}
    BY CreateDoes DEF Unused, BoxIs
  <1>4. Closed => Closed'
    BY <1>1, <1>2, ClosedStays
  <1>5. /\ Running' = {} /\ Present' = Present
        /\ \A c \in Present : box'[c] = box[c]
    BY <1>2, <1>3, BoxesMove DEF Safe, OtherBoxes, Present
  <1>k. Kept'
    <2>1. row.provider \in Box => row.provider \in Present' /\ Good(row.provider)'
      BY <1>2, <1>5 DEF Whole, Kept, Good
    <2> QED BY <1>2, <1>4, <1>5, <2>1 DEF Whole, Kept, Good
  <1>p. Prepared'
    BY <1>2, <1>5 DEF Whole, Kept, Prepared, Usable
  <1>c. Carries(w)'
    <2>1. worker[w].job = "execute" => restored /\ worker'[w].disp = "restored"
      BY <1>2, <1>3 DEF Carries, Usable, WorkspaceFilesAssumption
    <2>2. ASSUME worker'[w].disp # "replaced"
          PROVE  Good(b)'
      <3>1. CASE restored
        BY <1>2, <1>3, <3>1 DEF Carries, Good
      <3>2. CASE ~restored
        <4>1. worker[w].stored = None /\ worker[w].job \in {"prepare", "wake"}
          BY <1>2, <1>3, <2>1, <2>2, <3>2
        <4>2. row.provider = None /\ ~Closed
          BY <1>2, <4>1 DEF Carries, Closed, WorkspaceFilesAssumption, Job
        <4> QED BY <1>2, <4>2 DEF Whole, Kept, Good
      <3> QED BY <3>1, <3>2
    <2> QED BY <1>2, <1>3, <2>1, <2>2 DEF Moved, Carries, Good
  <1> QED BY <1>1, <1>k, <1>p, <1>c, WholeActs DEF Safe

LEMMA WholeCreated ==
  ASSUME WorkspaceFilesAssumption, Careful, Safe, Safe', One, Whole,
         NEW w \in Worker, Created(w)
  PROVE  Whole'
  <1>1. Rest(w) /\ (lock = None \/ ~Asleep(w))
    BY CreatedDoes, Zenon DEF Created, At, Asleep, Moved
  <1> DEFINE b == worker[w].used
  <1>2. /\ UNCHANGED << row, run, deleting, written >> /\ worker[w].pc = "asked" /\ Carries(w)
        /\ worker'[w].job = worker[w].job /\ worker[w].job \in {"prepare", "execute", "wake"}
        /\ worker'[w].disp = worker[w].disp /\ Running \subseteq {b} /\ b \in Box
    BY CreatedDoes, Zenon DEF Created, At, Safe, JobsFit, Fits, Whole, SameTask, SameFind, One, Knows,
       Beside, Careful
  <1>3. /\ b \in Running /\ Moved(w, "settle") /\ worker'[w].used = b
        /\ \A c \in Box : /\ box'[c].phase = box[c].phase /\ box'[c].snap = box[c].snap
                          /\ box'[c].files = box[c].files
    <2>1. PICK c \in Box : /\ c \in Running /\ Moved(w, "settle") /\ worker'[w].used = c
                           /\ BoxIs(c, "running", box[c].from, box[c].snap, box[c].files)
      BY CreatedDoes DEF Careful
    <2>2. c = b
      BY <1>2, <2>1
    <2> QED BY <2>1, <2>2 DEF BoxIs, OtherBoxes, Running
  <1>4. Closed => Closed'
    BY <1>1, <1>2, ClosedStays
  <1>5. Running' = Running /\ Present' = Present
    BY <1>3 DEF Running, Present
  <1>k. Kept'
    <2>1. \A c \in Box : c = b => Good(c)' \/ (Replaces(w)' /\ worker'[w].used = c)
      BY <1>2, <1>3 DEF Carries, Replaces, Moved, Good
    <2>2. row.provider \in Box => row.provider \in Present' /\ Good(row.provider)'
      BY <1>2, <1>3, <1>5 DEF Whole, Kept, Good
    <2>3. \A c \in Running' : Good(c)' \/ \E v \in Worker : Replaces(v)' /\ worker'[v].used = c
      BY <1>2, <1>5, <2>1 DEF Running
    <2> QED BY <1>2, <1>4, <2>2, <2>3 DEF Whole, Kept, Good
  <1>p. Prepared'
    BY <1>2, <1>3 DEF Whole, Prepared, Usable
  <1>c. Carries(w)'
    BY <1>2, <1>3 DEF Moved, Carries, Good, Usable, Running
  <1> QED BY <1>1, <1>k, <1>p, <1>c, WholeActs DEF Safe

LEMMA WholeSettle ==
  ASSUME WorkspaceFilesAssumption, Careful, Safe, Safe', One, Whole,
         NEW w \in Worker, Settle(w)
  PROVE  Whole'
  <1>1. Rest(w) /\ (lock = None \/ ~Asleep(w))
    BY SettleDoes, Zenon DEF Settle, At, Asleep, Moved, Dropped, OnlyMoved
  <1> DEFINE b == worker[w].used
  <1>2. /\ UNCHANGED << box, deleting, written >> /\ worker[w].pc = "settle" /\ Carries(w)
        /\ b \in Box /\ IdOf(b) = b /\ Usable(b) /\ b \in Present /\ row.gen \in Gen
        /\ worker[w].disp # "replaced" => Good(b) /\ ~Replaces(w)
        /\ ~Asleep(w) /\ None \notin Box /\ Name \notin Box
    BY DEF Settle, At, Safe, JobsFit, Fits, Whole, One, Boxes, Carries, IdOf, Careful, Usable,
       Present, RowTyped, RowType, Replaces, Asleep, WorkspaceFilesAssumption
  <1>3. worker[w].disp # "replaced" => \A c \in Running : Good(c)
    BY <1>2, RunningIsGood DEF Whole
  <1>4. Running' = Running /\ Present' = Present /\ \A c \in Box : Usable(c) <=> Usable(c)'
    BY <1>2 DEF Running, Present, Usable
  <1>5. worker'[w].job \in {worker[w].job, None}
    BY SettleDoes, IdleIsIdle DEF Dropped, OnlyMoved, SameTask
  <1>6. Closed => Closed'
    BY <1>1, <1>2, <1>5, ClosedStays
  <1>c. Carries(w)'
    <2>1. CASE Dropped(w)
      BY <2>1, IdleIsIdle DEF Dropped, Carries, WorkspaceFilesAssumption, Job
    <2>2. CASE Moved(w, "claim") /\ SameUse(w) /\ worker'[w].job = worker[w].job
      BY <1>2, <1>4, <2>2 DEF Moved, SameUse, Carries, Usable
    <2> QED BY <2>1, <2>2, SettleDoes DEF OnlyMoved, SameTask
  <1>7. deleting' => run' = "none"
    <2>1. run' = run \/ Unprepare
      BY SettleDoes
    <2> QED BY <1>2, <2>1 DEF Whole, Kept, Unprepare
  <1>8. ASSUME row.gen < MaxGen, RowIs("provisioning", b, row.gen + 1, None)
        PROVE  Kept' /\ Prepared'
    <2>1. /\ row'.provider = b /\ row'.gen = row.gen + 1 /\ row'.state = "provisioning"
          /\ row'.transition = None
      BY <1>8 DEF RowIs
    <2>2. /\ written'[row'.gen] = {} /\ \A g \in Gen : g > row'.gen => written'[g] = {}
          /\ \A c : Good(c)'
      BY <1>2, <1>8, <2>1, NewIsEmpty DEF Safe, Whole
    <2>3. row'.provider \in Present'
      BY <1>2, <1>4, <2>1
    <2>4. Kept'
      BY <1>2, <1>7, <2>1, <2>2, <2>3 DEF Kept
    <2> QED BY <2>1, <2>4 DEF Prepared
  <1>9. ASSUME worker[w].disp # "replaced", row'.provider = b, row'.gen = row.gen,
               run' = run, row'.transition = row.transition,
               row'.state \in {"provisioning", "running", row.state},
               row'.state = "running" => row.state = "running" \/ Usable(b)
        PROVE  Kept' /\ Prepared'
    <2>1. \A c \in Box : Good(c) => Good(c)'
      BY <1>2, <1>9 DEF Good
    <2>2. \A c \in Running' : Good(c)'
      BY <1>3, <1>4, <1>9, <2>1 DEF Running
    <2>3. Good(row.provider)'
      BY <1>2, <1>9, <2>1 DEF Good
    <2>4. Kept'
      BY <1>2, <1>4, <1>7, <1>9, <2>2, <2>3 DEF Whole, Kept
    <2>5. Usable(row.provider)'
      BY <1>2, <1>4, <1>9 DEF Usable
    <2>6. Prepared'
      BY <1>2, <1>9, <2>5 DEF Whole, Prepared
    <2> QED BY <2>4, <2>6
  <1>10. Kept' /\ Prepared'
    <2>1. worker[w].job = "execute" => worker[w].disp # "replaced" /\ row.provider = worker[w].had
      BY <1>2 DEF Carries, One, Knows
    <2> QED BY <1>2, <1>8, <1>9, <2>1, SettleDoes DEF IsNew, RowIs
  <1> QED BY <1>1, <1>10, <1>c, WholeActs DEF Safe

LEMMA WholeClaim ==
  ASSUME WorkspaceFilesAssumption, Careful, Safe, Safe', One, Whole,
         NEW w \in Worker, Claim(w)
  PROVE  Whole'
  <1>1. Rest(w) /\ (lock = None \/ ~Asleep(w))
    BY ClaimDoes DEF Claim, At, Asleep, OnlyMoved, Moved
  <1>2. /\ UNCHANGED << row, box, run, deleting, written >> /\ worker[w].pc = "claim" /\ Carries(w)
        /\ OnlyMoved(w, "working") /\ worker[w].job \in {"prepare", "execute"}
        /\ ~Replaces(w) /\ ~Asleep(w)
    BY ClaimDoes DEF Claim, At, Safe, JobsFit, Fits, Whole, Replaces, Asleep
  <1>3. \A b \in Running : Good(b)
    BY <1>2, RunningIsGood DEF Whole
  <1>4. Closed => Closed'
    BY <1>1, <1>2, ClosedStays DEF OnlyMoved, SameTask
  <1>k. Kept'
    BY <1>2, <1>3, <1>4, KeptStays DEF Whole, Kept
  <1>p. Prepared'
    BY <1>2, PreparedStays DEF Whole
  <1>c. Carries(w)'
    BY <1>2 DEF OnlyMoved, Moved, SameTask, SameUse, Carries, Usable
  <1> QED BY <1>1, <1>k, <1>p, <1>c, WholeActs DEF Safe

LEMMA WholeDoWrite ==
  ASSUME WorkspaceFilesAssumption, Careful, Safe, Safe', One, Whole,
         NEW w \in Worker, DoWrite(w)
  PROVE  Whole'
  <1> DEFINE b == worker[w].used
  <1>1. Rest(w) /\ (lock = None \/ ~Asleep(w))
    BY DEF DoWrite, At, Asleep, Rest
  <1>2. /\ UNCHANGED << row, worker, run, deleting >> /\ worker[w].pc = "working" /\ Carries(w)
        /\ row.provider = b /\ b \in Box /\ box[b].phase = "running" /\ row.gen \in Gen
        /\ ~Replaces(w) /\ ~Asleep(w) /\ Good(b) /\ None \notin Box
    BY DEF DoWrite, At, Safe, JobsFit, Fits, RowTyped, RowType, Whole, Kept, One, Knows, IdOf,
       Replaces, Asleep, WorkspaceFilesAssumption
  <1>3. PICK n \in Write : /\ written' = [written EXCEPT ![row.gen] = @ \cup {n}]
                           /\ BoxIs(b, "running", box[b].from, box[b].snap, box[b].files \cup {n})
    BY DoWriteDoes
  <1>4. \A c \in Box : box'[c].phase = box[c].phase /\ box'[c].snap = box[c].snap
    BY <1>2, <1>3 DEF BoxIs, OtherBoxes
  <1>5. Running' = Running /\ Present' = Present /\ Running \subseteq {b}
    BY <1>2, <1>4 DEF Running, Present, One, Boxes, Beside, Careful
  <1>6. /\ written'[row.gen] = written[row.gen] \cup {n}
        /\ \A g \in Gen : g # row.gen => written'[g] = written[g]
    BY <1>2, <1>3 DEF Safe, OthersTyped
  <1>7. \A c \in Box : c = b => Good(c)'
    BY <1>2, <1>3, <1>6 DEF BoxIs, Good
  <1>8. Closed => Closed'
    BY <1>2 DEF Closed
  <1>k. Kept'
    <2>1. \A g \in Gen : g > row.gen => written'[g] = {}
      <3>1. \A g \in Gen : g > row.gen => g # row.gen
        BY <1>2 DEF Gen
      <3> QED BY <1>6, <3>1 DEF Whole, Kept
    <2>2. Good(row.provider)' /\ row.provider \in Present'
      BY <1>2, <1>5, <1>7 DEF Good, Present
    <2>3. \A c \in Running' : Good(c)'
      BY <1>2, <1>5, <1>7
    <2> QED BY <1>2, <2>1, <2>2, <2>3 DEF Whole, Kept
  <1>p. Prepared'
    BY <1>2, <1>4 DEF Whole, Prepared, Usable
  <1>c. Carries(w)'
    <2>1. worker[w].job \in {"prepare", "execute"}
      BY <1>2 DEF Safe, JobsFit, Fits
    <2> QED BY <1>2, <1>4, <2>1 DEF Carries, Usable
  <1> QED BY <1>1, <1>k, <1>p, <1>c, WholeActs DEF Safe

LEMMA WholeFinish ==
  ASSUME WorkspaceFilesAssumption, Careful, Safe, Safe', One, Whole,
         NEW w \in Worker, Finish(w)
  PROVE  Whole'
  <1>1. Rest(w) /\ (lock = None \/ ~Asleep(w))
    BY FinishDoes DEF Finish, At, Asleep, Dropped
  <1>2. /\ UNCHANGED << box, deleting, written >> /\ worker[w].pc = "working" /\ Carries(w)
        /\ row.provider = worker[w].used /\ worker[w].used \in Box /\ Usable(worker[w].used)
        /\ ~Replaces(w) /\ ~Asleep(w) /\ worker'[w] = Idle
    BY FinishDoes DEF Finish, At, Safe, JobsFit, Fits, Whole, Carries, One, Knows, IdOf, Careful,
       Replaces, Asleep, Dropped
  <1>3. \A b \in Running : Good(b)
    BY <1>2, RunningIsGood DEF Whole
  <1>4. Closed => Closed'
    BY <1>1, <1>2, IdleIsIdle, ClosedStays
  <1>c. Carries(w)'
    BY <1>2, IdleIsIdle DEF Carries, WorkspaceFilesAssumption, Job
  <1>5. /\ row'.provider = row.provider /\ row'.gen = row.gen /\ row'.transition = row.transition
        /\ row'.state = "paused" => row.state = "paused"
        /\ run' = run \/ run = "active"
        /\ row.transition = None \/ (row' = row /\ run' = run)
    BY FinishDoes DEF RowIs, MayUpdate
  <1>k. Kept'
    <2>1. deleting => run' = "none"
      BY <1>5 DEF Whole, Kept
    <2> QED BY <1>2, <1>3, <1>4, <1>5, <2>1, KeptStays DEF Whole
  <1>p. Prepared'
    BY <1>2, <1>5 DEF Whole, Prepared, Usable
  <1> QED BY <1>1, <1>k, <1>p, <1>c, WholeActs DEF Safe

LEMMA WholeUnresolved ==
  ASSUME WorkspaceFilesAssumption, Careful, Safe, Safe', One, Whole,
         NEW w \in Worker, Unresolved(w)
  PROVE  Whole'
  <1>1. Rest(w) /\ (lock = None \/ ~Asleep(w))
    BY UnresolvedDoes, Zenon DEF Unresolved, At, Asleep, Moved
  <1>2. /\ UNCHANGED << row, box, deleting, written >> /\ worker[w].pc = "working"
        /\ ~Replaces(w) /\ ~Asleep(w) /\ Unprepare
        /\ worker'[w].pc = "quarantine" /\ worker'[w].job = "replace"
    BY UnresolvedDoes, Zenon DEF Unresolved, At, Replaces, Asleep, Moved
  <1>3. \A b \in Running : Good(b)
    BY <1>2, RunningIsGood DEF Whole
  <1>4. Closed => Closed'
    BY <1>1, <1>2, ClosedStays
  <1>k. Kept'
    BY <1>2, <1>3, <1>4, KeptStays DEF Whole, Kept, Unprepare
  <1>p. Prepared'
    BY <1>2 DEF Prepared, Unprepare
  <1>c. Carries(w)'
    BY <1>2 DEF Carries
  <1> QED BY <1>1, <1>k, <1>p, <1>c, WholeActs DEF Safe

LEMMA WholeQuarantine ==
  ASSUME WorkspaceFilesAssumption, Careful, Safe, Safe', One, Whole,
         NEW w \in Worker, Quarantine(w)
  PROVE  Whole'
  <1>1. Rest(w) /\ lock = None
    BY QuarantineDoes DEF Quarantine, OnlyMoved, Moved
  <1>2. /\ UNCHANGED << box, run, deleting, written >> /\ worker[w].job = "replace"
        /\ worker'[w].pc = "mutate" /\ worker'[w].job = "replace"
    BY QuarantineDoes DEF Quarantine, At, Safe, JobsFit, Fits, OnlyMoved, Moved, SameTask
  <1>3. \A b \in Running : Good(b)
    <2>1. \A v \in Worker : ~Replaces(v)
      BY <1>1 DEF One, LockHeld, Asleep, Replaces, WorkspaceFilesAssumption
    <2> QED BY <2>1 DEF Whole, Kept
  <1>4. Closed => Closed'
    BY <1>1, <1>2, ClosedStays
  <1>5. /\ row'.provider = row.provider /\ row'.gen = row.gen /\ row'.transition = row.transition
        /\ row' = row \/ row'.state = "quarantined"
        /\ row'.transition # None \/ row'.state = "quarantined"
    BY QuarantineDoes DEF RowIs
  <1>k. Kept'
    BY <1>2, <1>3, <1>4, <1>5, KeptStays DEF Whole, Kept
  <1>p. Prepared'
    BY <1>2, <1>5, PreparedStays DEF Whole
  <1>c. Carries(w)'
    BY <1>2, <1>5 DEF Carries
  <1> QED BY <1>1, <1>k, <1>p, <1>c, WholeActs DEF Safe

LEMMA WholeProvider ==
  ASSUME WorkspaceFilesAssumption, Careful, Safe, Safe', One, Whole,
         NEW b \in Box, Land(b) \/ End(b) \/ LoseSnapshot(b) \/ Forget(b)
  PROVE  Whole'
  <1>1. UNCHANGED << row, worker, run, deleting, written >>
    BY DEF Land, End, LoseSnapshot, Forget
  <1>2. \/ /\ box[b].phase = "asked" /\ Running = {}
           /\ \E w \in Worker : worker[w].pc = "asked" /\ worker[w].used = b
           /\ BoxIs(b, "running", box[b].from, box[b].snap, box[b].files)
        \/ /\ box[b].phase = "running"
           /\ BoxIs(b, "finished", box[b].from, TRUE, box[b].files)
    BY ProviderDoes DEF Careful, Safe
  <1>3. \A c \in Box : Good(c) <=> Good(c)'
    BY <1>1, <1>2 DEF BoxIs, OtherBoxes, Good
  <1>4. \A c \in Box : Usable(c) => Usable(c)'
    BY <1>2 DEF BoxIs, OtherBoxes, Usable
  <1>5. \A c \in Box : /\ c \in Present => c \in Present'
                       /\ box[c].phase = "finished" => box'[c].phase = "finished"
    BY <1>2 DEF BoxIs, OtherBoxes, Present
  <1>6. Closed => Closed'
    BY <1>1 DEF Closed
  <1>k. Kept'
    <2>1. ASSUME NEW c \in Running'
          PROVE  Good(c) \/ \E w \in Worker : Replaces(w) /\ worker[w].used = c
      <3>1. CASE c \in Running
        BY <3>1 DEF Whole, Kept
      <3>2. CASE c \notin Running
        <4>1. PICK w \in Worker : worker[w].pc = "asked" /\ worker[w].used = c
          BY <1>2, <3>2 DEF BoxIs, OtherBoxes, Running
        <4> QED BY <4>1 DEF Whole, Carries, Replaces
      <3> QED BY <3>1, <3>2
    <2>2. \A w \in Worker : Replaces(w) => Replaces(w)' /\ worker'[w].used = worker[w].used
      BY <1>1 DEF Replaces
    <2>3. \A c \in Running' : Good(c)' \/ \E w \in Worker : Replaces(w)' /\ worker'[w].used = c
      <3> SUFFICES ASSUME NEW c \in Running'
                   PROVE  Good(c)' \/ \E w \in Worker : Replaces(w)' /\ worker'[w].used = c
        OBVIOUS
      <3>1. c \in Box
        BY DEF Running
      <3> QED BY <1>3, <2>1, <2>2, <3>1
    <2>4. ASSUME NEW c \in Box, row.provider = c PROVE c \in Present' /\ Good(c)'
      <3>1. c \in Present /\ Good(c)
        BY <2>4 DEF Whole, Kept, Good
      <3> QED BY <1>3, <1>5, <3>1
    <2>5. row.provider \in Box => row.provider \in Present' /\ Good(row.provider)'
      BY <1>1, <2>4 DEF Good
    <2> QED BY <1>1, <1>6, <2>3, <2>5 DEF Whole, Kept
  <1>p. Prepared'
    <2>1. ASSUME NEW c \in Box, row.provider = c, Usable(c) PROVE Usable(c)'
      BY <1>4, <2>1
    <2> QED BY <1>1, <2>1 DEF Whole, Prepared, Usable
  <1>c. ASSUME NEW w \in Worker PROVE Carries(w)'
    <2> DEFINE a == worker[w]
    <2>1. Carries(w) /\ worker' = worker /\ row' = row /\ deleting' = deleting
      BY <1>1 DEF Whole
    <2>2. a.pc \in {"asked", "settle", "claim", "working"} => a.used \in Box
      BY DEF Safe, JobsFit, Fits
    <2>3. a.used \in Box => (Good(a.used) <=> Good(a.used)') /\ (Usable(a.used) => Usable(a.used)')
      <3> SUFFICES ASSUME NEW c \in Box, c = a.used
                   PROVE  (Good(a.used) <=> Good(a.used)') /\ (Usable(a.used) => Usable(a.used)')
        OBVIOUS
      <3>1. (Good(c) <=> Good(c)') /\ (Usable(c) => Usable(c)')
        BY <1>3, <1>4
      <3> QED BY <2>1, <3>1 DEF Good, Usable
    <2>4. a.loc \in Box => /\ Good(a.loc) <=> Good(a.loc)'
                           /\ Usable(a.loc) => Usable(a.loc)'
                           /\ a.loc \in Present => a.loc \in Present'
                           /\ box[a.loc].phase = "finished" => box'[a.loc].phase = "finished"
      <3> SUFFICES ASSUME NEW c \in Box, c = a.loc
                   PROVE  /\ Good(a.loc) <=> Good(a.loc)'
                          /\ Usable(a.loc) => Usable(a.loc)'
                          /\ a.loc \in Present => a.loc \in Present'
                          /\ box[a.loc].phase = "finished" => box'[a.loc].phase = "finished"
        OBVIOUS
      <3>1. (Good(c) <=> Good(c)') /\ (Usable(c) => Usable(c)')
        BY <1>3, <1>4
      <3>2. /\ Good(a.loc) <=> Good(a.loc)'
            /\ Usable(a.loc) => Usable(a.loc)'
        BY <2>1, <3>1 DEF Good, Usable
      <3>3. /\ c \in Present => c \in Present'
            /\ box[c].phase = "finished" => box'[c].phase = "finished"
        BY <1>5
      <3> QED BY <3>2, <3>3
    <2>5. a.loc # None => a.loc \in Box
      BY DEF Safe, WorkerTyped, Activity
    <2>6. row.provider \in Box => (Usable(row.provider) => Usable(row.provider)')
      <3> SUFFICES ASSUME NEW c \in Box, c = row.provider
                   PROVE  Usable(row.provider) => Usable(row.provider)'
        OBVIOUS
      <3>1. Usable(c) => Usable(c)'
        BY <1>4
      <3> QED BY <1>1, <3>1 DEF Usable
    <2> QED BY <2>1, <2>2, <2>3, <2>4, <2>5, <2>6 DEF Carries
  <1> QED BY <1>k, <1>p, <1>c DEF Whole

LEMMA WholeRunChanges ==
  ASSUME WorkspaceFilesAssumption, Careful, Safe, Safe', One, Whole,
         RunChanges
  PROVE  Whole'
  <1>1. /\ UNCHANGED << row, box, worker, written >> /\ run' # "prepared"
        /\ deleting => deleting' /\ run' = "none"
        /\ deleting' => run' = "none"
    BY DEF RunChanges, Active, Whole, Kept
  <1>2. /\ Running' = Running /\ Present' = Present
        /\ \A b \in Box : (Good(b) <=> Good(b)') /\ (Usable(b) <=> Usable(b)')
        /\ Closed => Closed'
    BY <1>1 DEF Running, Present, Good, Usable, Closed
  <1>k. Kept'
    BY <1>1, <1>2 DEF Whole, Kept, Good, Running, Replaces
  <1>p. Prepared'
    BY <1>1 DEF Prepared
  <1>c. \A w \in Worker : Carries(w)'
    BY <1>1 DEF Whole, Carries, Good, Usable, Present
  <1> QED BY <1>k, <1>p, <1>c DEF Whole

LEMMA WholeKept ==
  ASSUME WorkspaceFilesAssumption, Careful, Safe, Safe', One, Whole, [Next]_vars
  PROVE  Whole'
  <1>1. CASE UNCHANGED vars
    BY <1>1 DEF vars, Whole, Kept, Prepared, Carries, Good, Usable, Replaces, Closed, Running,
       Present
  <1>2. CASE \E w \in Worker : Step(w)
    BY <1>2, WholeFail, WholeRecover, WholeMutate, WholeStopped, WholeRecord, WholeProvision,
       WholeResolve, WholeEnsure, WholeCreate, WholeCreated, WholeSettle, WholeClaim, WholeDoWrite,
       WholeFinish, WholeUnresolved, WholeQuarantine DEF Step, LoseLock, Careful
  <1>3. CASE \E w \in Worker : \E job \in Job : Begin(w, job)
    BY <1>3, WholeBegin
  <1>4. CASE \E b \in Box : Land(b) \/ End(b) \/ LoseSnapshot(b) \/ Forget(b)
    BY <1>4, WholeProvider
  <1>5. CASE RunChanges
    BY <1>5, WholeRunChanges
  <1> QED BY <1>1, <1>2, <1>3, <1>4, <1>5 DEF Next, Moves

LEMMA WholeAtFirst ==
  ASSUME WorkspaceFilesAssumption, Init
  PROVE  Whole
  <1>1. Kept /\ Prepared
    BY ConstantsFit DEF Init, Kept, Prepared, Running, NoBox, WorkspaceFilesAssumption
  <1>2. \A w \in Worker : Carries(w)
    BY IdleIsIdle DEF Init, Carries, WorkspaceFilesAssumption, Job
  <1> QED BY <1>1, <1>2 DEF Whole

-----------------------------------------------------------------------------
(***************************************************************************)
(* What holds in Modal whatever is lost, until the row takes over another  *)
(* sandbox: files only grow, and a restored sandbox has those of the one   *)
(* it was made from, which never runs again.                               *)
(***************************************************************************)
Past == {"finished", "gone"}

Named   == row.provider \in Box => Good(row.provider)
Later   == \A g \in Gen : g > row.gen => written[g] = {}
Fresh   == \A b \in Box : box[b].phase = "unused" => box[b].files = {}
Lineage ==
  \A b \in Box : box[b].from # None =>
    box[box[b].from].phase \in Past /\ box[box[b].from].files \subseteq box[b].files

Inherited == Named /\ Later /\ Fresh /\ Lineage

\* What a step may do to the sandboxes, beside creating or writing.
PlacesKept ==
  \A b \in Box :
    /\ box'[b].files = box[b].files /\ box'[b].from = box[b].from
    /\ box[b].phase \in Past => box'[b].phase \in Past
    /\ box'[b].phase = "unused" => box[b].phase = "unused"

OnlyRow   == box' = box /\ written' = written /\ row'.gen \in {row.gen, row.gen + 1}
OnlyBoxes == PlacesKept /\ written' = written /\ row' = row

LEMMA BoxesOnly ==
  ASSUME BoxTyped, NEW b \in Box, NEW phase, NEW snap,
         BoxIs(b, phase, box[b].from, snap, box[b].files),
         box[b].phase \in Past => phase \in Past,
         phase = "unused" => box[b].phase = "unused",
         written' = written, row' = row
  PROVE  OnlyBoxes
  BY DEF BoxIs, OtherBoxes, OnlyBoxes, PlacesKept

LEMMA MovesAre ==
  ASSUME WorkspaceFilesAssumption, ~Docker, Safe, Moves
  PROVE  OnlyRow \/ OnlyBoxes \/ \E w \in Worker : Create(w) \/ DoWrite(w)
  <1>t. BoxTyped /\ row \in RowType
    BY DEF Safe, RowTyped
  <1>1. ASSUME NEW w \in Worker, Step(w), ~Create(w), ~DoWrite(w) PROVE OnlyRow \/ OnlyBoxes
    <2>1. CASE Fail(w) \/ LoseLock(w) \/ Resolve(w) \/ Claim(w) \/ Unresolved(w)
      BY <2>1, Zenon DEF Fail, LoseLock, Resolve, Claim, Unresolved, OnlyRow
    <2>2. CASE Recover(w) \/ Provision(w) \/ Finish(w) \/ Quarantine(w)
      BY <2>2, RecoverDoes, ProvisionDoes, FinishDoes, QuarantineDoes
         DEF RowIs, OnlyRow, Recover, Provision, Finish, Quarantine
    <2>3. CASE Record(w) \/ Settle(w)
      BY <2>3, RecordDoes, SettleDoes DEF RowIs, OnlyRow, Record, Settle
    <2>4. CASE Mutate(w)
      <3>1. written' = written
        BY <2>4 DEF Mutate
      <3>2. CASE box' = box /\ row'.gen = row.gen
        BY <3>1, <3>2 DEF OnlyRow
      <3>3. CASE /\ row' = row
                 /\ \E b \in Located(row.provider) :
                      BoxIs(b, box[b].phase, box[b].from, box[b].snap, box[b].files)
        <4>1. PICK b \in Box : BoxIs(b, box[b].phase, box[b].from, box[b].snap, box[b].files)
          BY <3>3 DEF Located, Running, Present
        <4> QED BY <1>t, <3>1, <3>3, <4>1, BoxesOnly
      <3> QED BY <2>4, <3>2, <3>3, MutateDoes DEF RowIs
    <2>5. CASE Stopped(w)
      <3>1. written' = written /\ row' = row
        BY <2>5 DEF Stopped
      <3>2. CASE box' = box
        BY <3>1, <3>2 DEF OnlyRow
      <3>3. CASE \E b \in Box : box[b].phase = "finished"
                                /\ BoxIs(b, "finished", box[b].from, FALSE, box[b].files)
        BY <1>t, <3>1, <3>3, BoxesOnly DEF Past
      <3> QED BY <2>5, <3>2, <3>3, StoppedDoes
    <2>6. CASE Ensure(w) \/ Created(w)
      <3>1. written' = written /\ row' = row
        BY <2>6 DEF Ensure, Created
      <3>2. CASE box' = box
        BY <3>1, <3>2 DEF OnlyRow
      <3>3. CASE \E b \in Running : b \in Box /\ BoxIs(b, "running", box[b].from, box[b].snap, box[b].files)
        <4>1. PICK b \in Box : /\ box[b].phase = "running"
                               /\ BoxIs(b, "running", box[b].from, box[b].snap, box[b].files)
          BY <3>3 DEF Running
        <4> QED BY <1>t, <3>1, <4>1, BoxesOnly DEF Past
      <3>4. CASE Ensure(w)
        BY <3>2, <3>3, <3>4, EnsureDoes
      <3>5. CASE Created(w)
        BY <3>3, <3>5, CreatedDoes
      <3> QED BY <2>6, <3>4, <3>5
    <2> QED BY <1>1, <2>1, <2>2, <2>3, <2>4, <2>5, <2>6 DEF Step
  <1>2. ASSUME NEW w \in Worker, NEW job \in Job, Begin(w, job) PROVE OnlyRow
    BY <1>2, BeginDoes, Zenon DEF Begin, RowIs, OnlyRow
  <1>3. ASSUME NEW b \in Box, Land(b) \/ End(b) \/ LoseSnapshot(b) \/ Forget(b) PROVE OnlyBoxes
    <2>1. written' = written /\ row' = row
      BY <1>3 DEF Land, End, LoseSnapshot, Forget
    <2>2. CASE box[b].phase = "asked" /\ BoxIs(b, "running", box[b].from, box[b].snap, box[b].files)
      BY <1>t, <2>1, <2>2, BoxesOnly DEF Past
    <2>3. CASE box[b].phase = "running" /\ BoxIs(b, "finished", box[b].from, ~Docker, box[b].files)
      BY <1>t, <2>1, <2>3, BoxesOnly DEF Past
    <2>4. CASE BoxIs(b, box[b].phase, box[b].from, FALSE, box[b].files)
      BY <1>t, <2>1, <2>4, BoxesOnly
    <2>5. CASE BoxIs(b, "gone", box[b].from, FALSE, box[b].files)
      <3>1. "gone" \in Past /\ "gone" # "unused"
        BY DEF Past
      <3> QED BY <1>t, <2>1, <2>5, <3>1, BoxesOnly
    <2> QED BY <1>t, <1>3, <2>2, <2>3, <2>4, <2>5, ProviderDoes
  <1>4. CASE RunChanges
    BY <1>4 DEF RunChanges, OnlyRow
  <1> QED BY <1>1, <1>2, <1>3, <1>4 DEF Moves

\* A sandbox has the files of all those it descends from.
LEMMA DescentKeepsFiles ==
  ASSUME BoxTyped, Lineage, NEW c \in Box, NEW p \in Box, Descends(c, p)
  PROVE  box[p].files \subseteq box[c].files
  <1> DEFINE S == {b \in Box : box[b].files \subseteq box[c].files}
  <1>1. c \in S /\ S \in SUBSET Box
    OBVIOUS
  <1>2. \A b \in S : box[b].from \in S \cup {None}
    BY DEF BoxTyped, Sandbox, Lineage
  <1>3. p \in S
    <2> HIDE DEF S
    <2> QED BY <1>1, <1>2 DEF Descends
  <1> QED BY <1>3

LEMMA InheritedByRow ==
  ASSUME WorkspaceFilesAssumption, Safe, Safe', Inherited, OnlyRow, ~TakesOver
  PROVE  Inherited'
  <1>1. row \in RowType /\ row' \in RowType /\ BoxTyped
    BY DEF Safe, RowTyped
  <1>2. Fresh' /\ Lineage'
    BY DEF Inherited, OnlyRow, Fresh, Lineage
  <1>3. CASE row'.gen = row.gen + 1
    <2>1. row.gen \in Nat /\ row'.gen \in Gen /\ row'.gen \in Nat /\ \A g \in Gen : g \in Nat
      BY <1>1 DEF RowType, Gen
    <2>2. ASSUME NEW g \in Gen, g >= row'.gen PROVE written'[g] = {}
      <3>1. g \in Nat /\ g > row.gen
        BY <1>3, <2>1, <2>2
      <3> QED BY <3>1 DEF Inherited, Later, OnlyRow
    <2>3. written'[row'.gen] = {}
      <3>1. row'.gen >= row'.gen
        BY <2>1
      <3> QED BY <2>1, <2>2, <3>1
    <2>4. Later'
      <3>1. \A g \in Gen : g > row'.gen => g >= row'.gen
        BY <2>1
      <3> QED BY <2>2, <3>1 DEF Later
    <2>5. Named'
      BY <2>3 DEF Named, Good
    <2> QED BY <1>2, <2>4, <2>5 DEF Inherited
  <1>4. CASE row'.gen = row.gen
    <2>1. Later'
      BY <1>4 DEF Inherited, Later, OnlyRow
    <2>2. ASSUME row'.provider \in Box PROVE written[row.gen] \subseteq box[row'.provider].files
      <3>1. CASE row'.provider = row.provider
        BY <2>2, <3>1 DEF Inherited, Named, Good
      <3>2. CASE row'.provider # row.provider /\ row.provider = None
        BY <1>4, <2>2, <3>2 DEF TakesOver
      <3>3. CASE row'.provider # row.provider /\ row.provider # None
        <4>1. Descends(row'.provider, row.provider)
          BY <1>4, <2>2, <3>3 DEF TakesOver
        <4>2. row.provider \in Box
          BY <1>1, <2>2, <4>1 DEF Descends, BoxTyped, Sandbox
        <4>3. box[row.provider].files \subseteq box[row'.provider].files
          BY <1>1, <2>2, <4>1, <4>2, DescentKeepsFiles DEF Inherited
        <4> QED BY <4>2, <4>3 DEF Inherited, Named, Good
      <3> QED BY <3>1, <3>2, <3>3
    <2>3. Named'
      BY <1>4, <2>2 DEF Named, Good, OnlyRow
    <2> QED BY <1>2, <2>1, <2>3 DEF Inherited
  <1> QED BY <1>3, <1>4 DEF OnlyRow

LEMMA InheritedByBoxes ==
  ASSUME Safe, Inherited, OnlyBoxes
  PROVE  Inherited'
  <1>1. \A b \in Box : box[b].from \in Box \cup {None}
    BY DEF Safe, BoxTyped, Sandbox
  <1>2. Named' /\ Later'
    BY DEF Inherited, Named, Good, Later, OnlyBoxes, PlacesKept
  <1>3. Fresh'
    BY DEF Inherited, Fresh, OnlyBoxes, PlacesKept
  <1>4. Lineage'
    BY <1>1 DEF Inherited, Lineage, OnlyBoxes, PlacesKept
  <1> QED BY <1>2, <1>3, <1>4 DEF Inherited

LEMMA InheritedByCreate ==
  ASSUME WorkspaceFilesAssumption, Safe, One, Inherited, NEW w \in Worker, Create(w)
  PROVE  Inherited'
  <1> DEFINE loc == worker[w].loc
             restored == loc # None /\ box[loc].snap
  <1>1. PICK b \in Unused :
          /\ b \in Box
          /\ BoxIs(b, "asked", IF restored THEN loc ELSE None, FALSE,
                   IF restored THEN box[loc].files ELSE {})
    BY CreateDoes
  <1>2. row' = row /\ written' = written
    BY DEF Create
  <1>3. /\ box[b].phase = "unused" /\ box[b].files = {}
        /\ \A c \in Box : c # b => box'[c] = box[c]
        /\ box'[b].phase = "asked"
    BY <1>1 DEF Unused, Inherited, Fresh, BoxIs, OtherBoxes
  <1>4. \A c \in Box : box[c].from \in Box \cup {None} /\ box[c].from # b
    BY <1>1, <1>3 DEF Safe, BoxTyped, Sandbox, Inherited, Lineage, Past, WorkspaceFilesAssumption
  <1>5. restored => loc \in Box /\ loc # b /\ box[loc].phase = "finished"
    <2>1. loc \in Box \cup {None}
      BY DEF Safe, WorkerTyped, Activity
    <2> QED BY <1>3, <2>1 DEF One, Boxes
  <1>6. Named' /\ Later'
    BY <1>2, <1>3 DEF Inherited, Named, Good, Later
  <1>7. Fresh'
    BY <1>3 DEF Inherited, Fresh
  <1>8. ASSUME NEW c \in Box, box'[c].from # None
        PROVE  box'[box'[c].from].phase \in Past /\ box'[box'[c].from].files \subseteq box'[c].files
    <2>1. CASE c = b
      <3>1. box'[b].from = (IF restored THEN loc ELSE None)
            /\ box'[b].files = (IF restored THEN box[loc].files ELSE {})
        BY <1>1 DEF BoxIs
      <3>2. restored
        BY <1>8, <2>1, <3>1
      <3> HIDE DEF restored, loc
      <3> QED BY <1>3, <1>5, <2>1, <3>1, <3>2 DEF Past
    <2>2. CASE c # b
      BY <1>3, <1>4, <1>8, <2>2 DEF Inherited, Lineage
    <2> QED BY <2>1, <2>2
  <1> QED BY <1>6, <1>7, <1>8 DEF Inherited, Lineage

LEMMA InheritedByWrite ==
  ASSUME WorkspaceFilesAssumption, ~Docker, Safe, One, Inherited, NEW w \in Worker, DoWrite(w)
  PROVE  Inherited'
  <1> DEFINE b == worker[w].used
  <1>1. /\ b \in Box /\ box[b].phase = "running" /\ row' = row /\ row.provider = b
        /\ row.gen \in Gen
    BY DEF DoWrite, At, Safe, JobsFit, Fits, One, Knows, IdOf, RowTyped, RowType
  <1>2. PICK n \in Write :
          /\ written' = [written EXCEPT ![row.gen] = @ \cup {n}]
          /\ BoxIs(b, "running", box[b].from, box[b].snap, box[b].files \cup {n})
    BY DoWriteDoes
  <1>3. /\ box'[b].files = box[b].files \cup {n} /\ box'[b].from = box[b].from
        /\ box'[b].phase = "running"
        /\ \A c \in Box : c # b => box'[c] = box[c]
    BY <1>2 DEF BoxIs, OtherBoxes
  <1>4. \A c \in Box : box[c].from \in Box \cup {None} /\ box[c].from # b
    BY <1>1 DEF Safe, BoxTyped, Sandbox, Inherited, Lineage, Past, WorkspaceFilesAssumption
  <1>5. /\ written'[row.gen] = written[row.gen] \cup {n}
        /\ \A g \in Gen : g # row.gen => written'[g] = written[g]
    BY <1>1, <1>2 DEF Safe, OthersTyped
  <1> HIDE DEF b
  <1>6. Named'
    BY <1>1, <1>3, <1>5 DEF Inherited, Named, Good
  <1>7. Later'
    <2>1. \A g \in Gen : g > row.gen => g # row.gen
      BY <1>1, ConstantsFit
    <2> QED BY <1>1, <1>5, <2>1 DEF Inherited, Later
  <1>8. Fresh'
    BY <1>1, <1>3 DEF Inherited, Fresh
  <1>9. Lineage'
    BY <1>1, <1>3, <1>4 DEF Inherited, Lineage
  <1> QED BY <1>6, <1>7, <1>8, <1>9 DEF Inherited

LEMMA InheritedKept ==
  ASSUME WorkspaceFilesAssumption, ~Docker, Safe, Safe', One, Inherited, [Next]_vars, ~taken'
  PROVE  Inherited'
  <1>1. CASE UNCHANGED vars
    BY <1>1 DEF vars, Inherited, Named, Good, Later, Fresh, Lineage
  <1>2. CASE Next
    <2>1. Moves /\ ~TakesOver
      BY <1>2 DEF Next
    <2> QED BY <2>1, MovesAre, InheritedByRow, InheritedByBoxes, InheritedByCreate, InheritedByWrite
  <1> QED BY <1>1, <1>2

LEMMA InheritedAtFirst ==
  ASSUME WorkspaceFilesAssumption, Init
  PROVE  Inherited
  BY DEF Init, Inherited, Named, Good, Later, Fresh, Lineage, NoBox, WorkspaceFilesAssumption

\* In Modal an attempt finds everything that was written in its generation, unless,
\* with some of the faults, an activity lost its lock or the row took over a sandbox
\* that does not continue the one it named.  Without a fault nothing is lost, though
\* activities fail anywhere (prepareWorkspace, resolveWorkspace and wakeWorkspace over
\* ensure of modal.ts; docs/backend-contract.md: "A replacement filesystem receives a
\* new generation and a durable reset event").
THEOREM NothingIsLost ==
  ASSUME WorkspaceFilesAssumption, ~Docker
  PROVE  Spec => [](LostByTakeover /\ (Faults = {} => NothingLostSilently))
  <1>r. ASSUME Safe, One, Named PROVE NothingLostSilently
    <2> SUFFICES ASSUME NEW w \in Worker, worker[w].pc = "working"
                 PROVE  written[row.gen] \subseteq box[worker[w].used].files
      BY DEF NothingLostSilently
    <2>1. row.provider = worker[w].used /\ worker[w].used \in Box
      BY <1>r DEF Safe, JobsFit, Fits, One, Knows, IdOf
    <2> QED BY <1>r, <2>1 DEF Named, Good
  <1>1. Spec => []LostByTakeover
    <2> DEFINE I == HistoryTyped /\ Safe /\ (taken \/ dropped \/ (One /\ Inherited))
    <2>1. Init => I
      BY SafeAtFirst, OneAtFirst, InheritedAtFirst DEF Init, HistoryTyped
    <2>2. I /\ [Next]_vars => I'
      <3> SUFFICES ASSUME I, [Next]_vars PROVE I'
        OBVIOUS
      <3>1. Safe' /\ HistoryTyped'
        BY SafeKept DEF HistoryTyped, Next, vars
      <3>2. taken => taken'
        BY DEF Next, vars
      <3>3. dropped => dropped'
        BY DEF Next, vars
      <3>4. ASSUME ~taken', ~dropped' PROVE One' /\ Inherited'
        BY <3>1, <3>2, <3>3, <3>4, OneKept, InheritedKept
      <3> QED BY <3>1, <3>4
    <2>3. I => LostByTakeover
      BY <1>r DEF LostByTakeover, Inherited
    <2> QED BY <2>1, <2>2, <2>3, PTL DEF Spec
  <1>2. ASSUME Faults = {} PROVE Spec => []NothingLostSilently
    <2>1. Init => Safe /\ One /\ Whole
      BY SafeAtFirst, OneAtFirst, WholeAtFirst
    <2>2. Safe /\ One /\ Whole /\ [Next]_vars => (Safe /\ One /\ Whole)'
      BY <1>2, SafeKept, OneKept, WholeKept DEF Careful
    <2>3. Safe /\ One /\ Whole => NothingLostSilently
      BY <1>r DEF Whole, Kept, Named
    <2> QED BY <2>1, <2>2, <2>3, PTL DEF Spec
  <1>3. CASE Faults = {}
    <2>1. Spec => []NothingLostSilently
      BY <1>2, <1>3
    <2>2. NothingLostSilently => (Faults = {} => NothingLostSilently)
      OBVIOUS
    <2> QED BY <1>1, <2>1, <2>2, PTL
  <1>4. CASE Faults # {}
    <2>1. LostByTakeover => LostByTakeover /\ (Faults = {} => NothingLostSilently)
      BY <1>4
    <2> QED BY <1>1, <2>1, PTL
  <1> QED BY <1>3, <1>4
=============================================================================
