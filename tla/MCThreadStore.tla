---------------------------- MODULE MCThreadStore ---------------------------
(***************************************************************************)
(* Small instances of ThreadStore for TLC.  A behaviour has one focus and  *)
(* stays in it: a focus leaves out actions on rows that the properties of  *)
(* its run do not read, and a run of several foci visits the union of      *)
(* their states.                                                           *)
(***************************************************************************)
EXTENDS ThreadProperties, TLC

VARIABLE focus

focusVars == << vars, focus >>

StartWorkspace == \E t \in Thread : CreateWorkspace(t)

\* All that can happen to one message, without Git operations and with one
\* generation of its workspace.
StoreFocus ==
  \/ SubmitNext \/ RunNext \/ QuestionNext \/ DeletionNext \/ DispatchNext
  \/ \E r \in Message, a \in Attempt :
       \/ CheckWaits(r, a) \/ ClaimExecution(r, a) \/ OpenSession(r, a)
       \/ SaveTurn(r, a) \/ CompleteRun(r, a)
  \/ \E t \in Thread :
       \/ CreateWorkspace(t) \/ CancelTransition(t) \/ RequestWake(t)
       \/ \E state \in {"provisioning", "running", "quarantined"} : UpdateWorkspace(t, state)
       \/ \E target \in {"paused", "deleted"} : BeginTransition(t, target)
       \/ \E waiting \in Message \cup {None}, missing \in BOOLEAN : Cleanup(t, waiting, missing)

QuestionFocus ==
  SubmitNext \/ RunNext \/ SessionNext \/ QuestionNext \/ StartWorkspace

\* No worker loses its lock: an attempt starts after the others have ended.
LockedFocus ==
  /\ QuestionFocus
  /\ \A r \in Message : \A a, b \in Attempt :
       (session'[r][a].phase = "checked" /\ a # b)
         => session'[r][b].phase \in {"none", "closed"}

Once(S) == Cardinality(S) <= 1

Accepts(n) == Cardinality({m \in Message : message'[m].state # "absent"}) <= n

\* One thread: its queue continues by itself after a run that ends, is restarted
\* by the user after a cancelled one, and late reports of ended runs arrive.
TurnsFocus ==
  /\ SubmitNext \/ QueueNext \/ RunNext \/ DeletionNext \/ StartWorkspace
     \/ \E r \in Message, a \in Attempt :
          CheckWaits(r, a) \/ ClaimExecution(r, a) \/ OpenSession(r, a) \/ CompleteRun(r, a)
  /\ Once({t \in Thread : thread'[t].state # "absent"})
  /\ \A m \in Message : message'[m].state # "absent" => message'[m].mode # "steer"
  /\ \A x \in Attachment : attachment'[x].message = None

\* Two threads with their queues through deletion and purge.
LifeFocus ==
  /\ \/ SubmitNext \/ QueueNext \/ RunNext \/ SessionNext \/ DeletionNext
     \/ StartWorkspace
     \/ \E t \in Thread : BeginTransition(t, "deleted") \/ Cleanup(t, None, FALSE)
  /\ Accepts(2)
  /\ \A t \in Thread : workspace'[t].generation <= 1

\* An approved write of each of two threads, without a queue, attachments and
\* entries.  A reset, a deletion, a cancellation and a lapse happen once each.
GitFocus ==
  /\ \/ SubmitNext \/ RunNext \/ GitNext \/ StartWorkspace
     \/ \E t \in Thread : ResetWorkspace(t) \/ DeleteThread(t)
     \/ \E r \in Message, a \in Attempt :
          CheckWaits(r, a) \/ ClaimExecution(r, a) \/ OpenSession(r, a)
  /\ Accepts(2)
  /\ UNCHANGED << attachment, checkpoint >>
  /\ \A m \in Message : message'[m].state # "pending"
  /\ Once({t \in Thread : workspace'[t].generation = 2})
  /\ Once({t \in Thread : thread'[t].state = "deleted"})
  /\ Once({r \in Message : run'[r].cancel})
  /\ Once({g \in GitOp : gitop'[g].lapsed})
  /\ \A r \in Message : Once({g \in GitOp : gitop'[g].run = r})

\* Two threads and their queues at the admission limit; runs end by cancellation
\* or failure, without sessions.
QueueFocus ==
  /\ SubmitNext \/ QueueNext \/ RunNext
  /\ \A m \in Message :
       message'[m].state # "absent" => message'[m].model = CHOOSE p \in Model : TRUE

\* The steering of one run: a behaviour ends when a second run starts.
SteerFocus ==
  /\ Cardinality({r \in Message : run[r].status # "absent"}) <= 1
  /\ \/ SubmitNext \/ QueueNext \/ RunNext \/ SessionNext
     \/ \E t \in Thread : thread[t].state # "absent" /\ CreateWorkspace(t)
  /\ Cardinality({t \in Thread : thread'[t].state # "absent"}) <= 1

\* The commands of one run, whose message asks for the first model.
CommandFocus ==
  /\ \/ SubmitNext \/ RunNext \/ CommandNext \/ WorkspaceNext
     \/ \E r \in Message, a \in Attempt : ClaimExecution(r, a)
  /\ Accepts(1)
  /\ \A m \in Message :
       message'[m].state # "absent" => message'[m].model = CHOOSE p \in Model : TRUE

StoreStep ==
  /\ \/ focus = "store" /\ StoreFocus
     \/ focus = "locked" /\ LockedFocus
  /\ UNCHANGED focus

LifeStep ==
  /\ \/ focus = "turns" /\ TurnsFocus
     \/ focus = "life" /\ LifeFocus
     \/ focus = "git" /\ GitFocus
  /\ UNCHANGED focus

QueueStep ==
  /\ \/ focus = "queue" /\ QueueFocus
     \/ focus = "steer" /\ SteerFocus
     \/ focus = "command" /\ CommandFocus
  /\ UNCHANGED focus

StoreInit  == Init /\ focus = "store"
LockedInit == Init /\ focus = "locked"
LifeInit   == Init /\ focus \in {"turns", "life", "git"}
QueueInit  == Init /\ focus \in {"queue", "steer", "command"}

StoreSpec  == StoreInit /\ [][StoreStep]_focusVars
LockedSpec == LockedInit /\ [][StoreStep]_focusVars
LifeSpec   == LifeInit /\ [][LifeStep]_focusVars
QueueSpec  == QueueInit /\ [][QueueStep]_focusVars

Symmetry ==
  Permutations(Thread) \cup Permutations(Message) \cup Permutations(Attempt) \cup
  Permutations(Question) \cup Permutations(GitOp) \cup Permutations(Command)
=============================================================================
