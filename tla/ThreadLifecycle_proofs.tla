----------------------- MODULE ThreadLifecycle_proofs -----------------------
(***************************************************************************)
(* The life of a run in the thread store.  First, the store implements     *)
(* RunLifecycle: every transaction is one of its steps or none of its      *)
(* business, so what RunLifecycle_proofs proves of the abstract system     *)
(* holds of the rows.  Then: what is over stays over; and what a run asks  *)
(* of a person, and what it may write.                                     *)
(***************************************************************************)
EXTENDS ThreadStore_proofs

\* RunLifecycle counts with its own copy of Cardinality.
LEMMA SameCardinality ==
  ASSUME NEW S PROVE Lifecycle!Cardinality(S) = Cardinality(S)
  BY DEF Lifecycle!Cardinality, Cardinality

\* The constants of the store serve the abstract system.
LEMMA LifecycleConstants == Lifecycle!LifecycleAssumption
  <1>1. Lifecycle!IsFiniteSet(Message)
    BY FiniteAssumption DEF Lifecycle!IsFiniteSet, IsFiniteSet
  <1> QED BY <1>1, LimitAssumption, NoneAssumption DEF Lifecycle!LifecycleAssumption

(***************************************************************************)
(* Reading the rows as a lifecycle.                                        *)
(***************************************************************************)
\* Phase, on the runs rn.
PhaseOn(rn) ==
  [m \in Message |->
     IF rn[m].status # "absent" THEN rn[m].status
     ELSE IF message[m].state = "pending" THEN "waiting"
     ELSE IF message[m].state \in {"consumed", "removed"} THEN "withdrawn"
     ELSE message[m].state]

\* An empty database is an empty lifecycle.
LEMMA InitLifecycle == Init => Lifecycle!Init
  BY DEF Init, Lifecycle!Init, Life, Home, Phase, NoThread, NoMessage, NoRun

\* At work are the active runs, waiting are the pending messages.
RowsTell ==
  /\ \A m \in Message : IsActive(m) <=> Phase[m] \in {"queued", "running"}
  /\ \A m \in Message : IsActive(m) => Phase[m] = run[m].status
  /\ \A m \in Message : message[m].state = "pending" <=> Phase[m] = "waiting"
  /\ \A m \in Message : message[m].state = "absent" <=> Phase[m] = "absent"
  /\ Lifecycle!WorkIn(Phase) = AllActiveRuns
  /\ \A t \in Thread : Lifecycle!WorkOf(t) = ActiveRuns(t)
  /\ \A t \in Thread : Lifecycle!WaitingOf(t) = PendingMessages(t)

\* In a typed store the rows tell the lifecycle.
LEMMA RowsOfTypedStore == Typed => RowsTell
  <1> SUFFICES ASSUME Typed PROVE RowsTell
    OBVIOUS
  <1>1. \A m \in Message : /\ message[m].state \in {"absent", "plain", "pending", "consumed",
                                                     "started", "removed", "purged"}
                           /\ run[m].status \in {"absent", "queued", "running", "completed",
                                                 "failed", "cancelled"}
                           /\ run[m].status # "absent" <=> message[m].state \in {"plain", "started"}
    BY DEF Typed, TypeOK, MessageRow, RunRow, ActiveStatus, TerminalStatus, References, StartedHasRun
  <1>2. /\ \A m \in Message : IsActive(m) <=> Phase[m] \in {"queued", "running"}
        /\ \A m \in Message : IsActive(m) => Phase[m] = run[m].status
        /\ \A m \in Message : message[m].state = "pending" <=> Phase[m] = "waiting"
        /\ \A m \in Message : message[m].state = "absent" <=> Phase[m] = "absent"
    BY <1>1 DEF IsActive, ActiveStatus, Phase
  <1>3. Lifecycle!WorkIn(Phase) = AllActiveRuns
    BY <1>2 DEF Lifecycle!WorkIn, Lifecycle!Working, AllActiveRuns
  <1>4. \A t \in Thread : Lifecycle!WorkOf(t) = ActiveRuns(t)
    BY <1>3 DEF Lifecycle!WorkOf, Lifecycle!WorkIn, ActiveRuns, AllActiveRuns, Home, ThreadOf
  <1>5. \A t \in Thread : Lifecycle!WaitingOf(t) = PendingMessages(t)
    BY <1>2 DEF Lifecycle!WaitingOf, PendingMessages, Home
  <1> QED BY <1>2, <1>3, <1>4, <1>5 DEF RowsTell

\* The same, as a fact on the rows now and on the rows after a step.
LEMMA ReadRows ==
  ASSUME Typed
  PROVE  /\ \A m \in Message : IsActive(m) <=> Phase[m] \in {"queued", "running"}
         /\ \A m \in Message : IsActive(m) => Phase[m] = run[m].status
         /\ \A m \in Message : message[m].state = "pending" <=> Phase[m] = "waiting"
         /\ \A m \in Message : message[m].state = "absent" <=> Phase[m] = "absent"
         /\ Lifecycle!WorkIn(Phase) = AllActiveRuns
         /\ \A t \in Thread : Lifecycle!WorkOf(t) = ActiveRuns(t)
         /\ \A t \in Thread : Lifecycle!WaitingOf(t) = PendingMessages(t)
  BY RowsOfTypedStore DEF RowsTell

\* So they do after a step.
LEMMA RowsTellNext == Typed' => RowsTell'
  BY RowsOfTypedStore, PTL

\* The admission check of submission.ts counts what the lifecycle counts.
LEMMA RoomIsAdmission ==
  ASSUME Typed
  PROVE  Lifecycle!Room(Phase) <=> Admits(run)
  <1>1. Lifecycle!WorkIn(Phase) = {r \in Message : run[r].status \in ActiveStatus}
    BY ReadRows DEF AllActiveRuns, IsActive
  <1> QED BY <1>1, SameCardinality DEF Lifecycle!Room, Admits

\* A step that touches neither the state of a thread, nor a message's state and
\* thread, nor the status of a run.
LEMMA StoreStutters ==
  ASSUME \A t \in Thread : thread'[t].state = thread[t].state,
         \A m \in Message : message'[m].thread = message[m].thread,
         \A m \in Message : message'[m].state = message[m].state,
         \A r \in Message : run'[r].status = run[r].status
  PROVE  UNCHANGED Lifecycle!lifecycle
  <1>1. Life' = Life
    BY DEF Life
  <1>2. Home' = Home
    BY DEF Home
  <1>3. Phase' = Phase
    BY DEF Phase
  <1> QED BY <1>1, <1>2, <1>3 DEF Lifecycle!lifecycle

(***************************************************************************)
(* The transactions that are steps of the lifecycle.                       *)
(***************************************************************************)
LEMMA SubmitRunAccepts ==
  ASSUME Typed, NEW t \in Thread, NEW m \in Message,
         NEW mode \in {"none", "steer", "queue"}, NEW model \in Model,
         NEW A \in SUBSET Available, SubmitRun(t, m, mode, model, A)
  PROVE  Lifecycle!Accept(t, m)
  <1> DEFINE row == IF mode = "none" THEN NewMessage(t, mode, model, "plain", None)
                                     ELSE NewMessage(t, mode, model, "started", m)
  <1>1. row.thread = t /\ row.state \in {"plain", "started"}
    BY DEF NewMessage
  <1>2. message' = [message EXCEPT ![m] = row]
    BY DEF SubmitRun
  <1> HIDE DEF row
  <1>3. Home' = [Home EXCEPT ![m] = t]
    BY <1>1, <1>2 DEF Home, Typed, TypeOK
  <1>4. Life' = [Life EXCEPT ![t] = "live"]
    BY DEF SubmitRun, Life, Typed, TypeOK, ThreadRow
  <1>5. Phase' = [Phase EXCEPT ![m] = "queued"]
    <2>1. run' = [run EXCEPT ![m] = QueuedRun]
      BY DEF SubmitRun
    <2> QED BY <1>2, <2>1, QueuedRunRow DEF Phase, Typed, TypeOK
  <1>6. Phase[m] = "absent" /\ Life[t] \in {"absent", "live"}
    BY ReadRows DEF SubmitRun, Acceptable, Life
  <1>7. Lifecycle!WorkOf(t) = {} /\ Lifecycle!Room(Phase)
    BY ReadRows, RoomIsAdmission DEF SubmitRun, Idle
  <1> QED BY <1>3, <1>4, <1>5, <1>6, <1>7 DEF Lifecycle!Accept

\* A message that finds a run active is accepted and waits.
LEMMA SubmitPendingAccepts ==
  ASSUME Typed, NEW t \in Thread, NEW m \in Message,
         NEW mode \in {"none", "steer", "queue"}, NEW model \in Model,
         NEW A \in SUBSET Available, SubmitPending(t, m, mode, model, A)
  PROVE  Lifecycle!Accept(t, m)
  <1>1. PICK r \in ActiveRuns(t) :
          message' = [message EXCEPT ![m] = NewMessage(t, mode, model, "pending", r)]
    BY DEF SubmitPending
  <1> DEFINE row == NewMessage(t, mode, model, "pending", r)
  <1>2. row.thread = t /\ row.state = "pending"
    BY DEF NewMessage
  <1>3. message' = [message EXCEPT ![m] = row]
    BY <1>1
  <1> HIDE DEF row
  <1>4. Phase[m] = "absent" /\ run[m].status = "absent"
    BY ReadRows DEF SubmitPending, Acceptable, Typed, References, StartedHasRun
  <1>5. Home' = [Home EXCEPT ![m] = t]
    BY <1>2, <1>3 DEF Home, Typed, TypeOK
  <1>6. Phase' = [Phase EXCEPT ![m] = "waiting"]
    BY <1>2, <1>3, <1>4 DEF Phase, SubmitPending, Typed, TypeOK
  <1>7. Life' = Life /\ Life[t] = "live"
    BY DEF SubmitPending, Life
  <1>8. Lifecycle!WorkOf(t) # {}
    BY <1>1, ReadRows
  <1> QED BY <1>4, <1>5, <1>6, <1>7, <1>8 DEF Lifecycle!Accept

\* Starting the next message of the queue on the rows rn.
LEMMA StartNextReads ==
  ASSUME Typed, NEW t \in Thread, NEW m \in Message, NEW rn \in [Message -> RunRow],
         StartNext(t, m, rn)
  PROVE  /\ m \in Lifecycle!WaitingOf(t)
         /\ Home' = Home
         /\ Phase' = [PhaseOn(rn) EXCEPT ![m] = "queued"]
  <1>1. m \in PendingMessages(t)
    BY DEF StartNext, FirstPending
  <1>2. \A r \in Message : message'[r].thread = message[r].thread
    BY DEF StartNext, Typed, TypeOK, MessageRow
  <1>3. \A r \in Message \ {m} : message'[r] = message[r] /\ run'[r] = rn[r]
    BY DEF StartNext, Typed, TypeOK
  <1>4. run'[m].status = "queued"
    BY QueuedRunRow DEF StartNext
  <1>5. m \in Lifecycle!WaitingOf(t)
    BY <1>1, ReadRows
  <1>6. Home' = Home
    BY <1>2 DEF Home
  <1>7. \A r \in Message \ {m} : message'[r].state = message[r].state /\ run'[r].status = rn[r].status
    BY <1>3
  <1>8. Phase' = [PhaseOn(rn) EXCEPT ![m] = "queued"]
    BY <1>4, <1>7 DEF Phase, PhaseOn
  <1> QED BY <1>5, <1>6, <1>8

\* The user starts the next waiting message of an idle thread.
LEMMA StartQueuedMessageRestarts ==
  ASSUME Typed, NEW t \in Thread, NEW m \in Message, StartQueuedMessage(t, m)
  PROVE  Lifecycle!Restart(t, m)
  <1>1. StartNext(t, m, run) /\ run \in [Message -> RunRow]
    BY DEF StartQueuedMessage, Typed, TypeOK
  <1>2. /\ m \in Lifecycle!WaitingOf(t)
        /\ Home' = Home
        /\ Phase' = [Phase EXCEPT ![m] = "queued"]
    <2>1. PhaseOn(run) = Phase
      BY DEF Phase, PhaseOn
    <2>2. Phase' = [PhaseOn(run) EXCEPT ![m] = "queued"]
      BY <1>1, StartNextReads
    <2> QED BY <1>1, <2>1, <2>2, StartNextReads
  <1>3. Life' = Life /\ Life[t] = "live"
    BY DEF StartQueuedMessage, Life
  <1>4. Lifecycle!WorkOf(t) = {} /\ Lifecycle!Room(Phase)
    BY <1>1, ReadRows, RoomIsAdmission DEF StartQueuedMessage, Idle, StartNext, QueueStarts
  <1> QED BY <1>2, <1>3, <1>4 DEF Lifecycle!Restart

\* A message without a run that is removed or consumed is withdrawn.
LEMMA WithdrawnPhase ==
  ASSUME NEW m \in Message, run' = run, run[m].status = "absent",
         message'[m].state \in {"consumed", "removed"},
         \A o \in Message \ {m} : message'[o].state = message[o].state
  PROVE  Phase' = [Phase EXCEPT ![m] = "withdrawn"]
  <1>1. \A o \in Message \ {m} : Phase'[o] = Phase[o]
    BY DEF Phase
  <1>2. Phase'[m] = "withdrawn"
    BY DEF Phase
  <1>3. Phase = [o \in Message |-> Phase[o]] /\ Phase' = [o \in Message |-> Phase'[o]]
    BY DEF Phase
  <1> QED BY <1>1, <1>2, <1>3

\* Removing a waiting message withdraws it.
LEMMA RemovePendingWithdraws ==
  ASSUME Typed, NEW t \in Thread, NEW m \in Message, RemovePending(t, m)
  PROVE  Lifecycle!Withdraw(m)
  <1>1. message[m].state = "pending" /\ run[m].status = "absent" /\ Phase[m] = "waiting"
    BY ReadRows DEF RemovePending, Editable, PendingMessages, Typed, References, StartedHasRun
  <1>2. /\ message'[m].state = "removed"
        /\ \A r \in Message : message'[r].thread = message[r].thread
        /\ \A r \in Message \ {m} : message'[r].state = message[r].state
    <2>1. message' = [message EXCEPT ![m].state = "removed"]
      BY DEF RemovePending
    <2> QED BY <2>1, OneMessageState, Zenon
  <1>3. Phase' = [Phase EXCEPT ![m] = "withdrawn"]
    BY <1>1, <1>2, WithdrawnPhase DEF RemovePending
  <1>4. Life' = Life /\ Home' = Home
    BY <1>2 DEF RemovePending, Life, Home
  <1> QED BY <1>1, <1>3, <1>4 DEF Lifecycle!Withdraw

\* So does the run that reads it, unless the save is refused.
LEMMA ConsumeSteerWithdraws ==
  ASSUME Typed, NEW r \in Message, NEW a \in Attempt, ConsumeSteer(r, a)
  PROVE  \/ \E m \in Message : Lifecycle!Withdraw(m)
         \/ UNCHANGED Lifecycle!lifecycle
  <1> DEFINE m == Head(session[r][a].offered).message
  <1>1. /\ message[m].state = "pending"
        /\ message' = [message EXCEPT ![m].state = "consumed"]
        /\ UNCHANGED << thread, run >>
    BY DEF ConsumeSteer
  <1> HIDE DEF m
  <1>2. CASE m \notin Message
    BY <1>1, <1>2, StoreStutters DEF Typed, TypeOK
  <1>3. CASE m \in Message
    <2>1. run[m].status = "absent" /\ Phase[m] = "waiting"
      BY <1>1, <1>3, ReadRows DEF Typed, References, StartedHasRun
    <2>2. /\ message'[m].state = "consumed"
          /\ \A s \in Message : message'[s].thread = message[s].thread
          /\ \A s \in Message \ {m} : message'[s].state = message[s].state
      <3>1. message' = [message EXCEPT ![m].state = "consumed"]
        BY <1>1
      <3> QED BY <1>3, <3>1, OneMessageState, Zenon
    <2>3. Phase' = [Phase EXCEPT ![m] = "withdrawn"]
      BY <1>1, <1>3, <2>1, <2>2, WithdrawnPhase
    <2>4. Life' = Life /\ Home' = Home
      BY <1>1, <2>2 DEF Life, Home
    <2>5. Lifecycle!Withdraw(m)
      BY <2>1, <2>3, <2>4 DEF Lifecycle!Withdraw
    <2> QED BY <1>3, <2>5
  <1> QED BY <1>2, <1>3

\* Starting a run begins it.
LEMMA StartRunBegins ==
  ASSUME Typed, NEW r \in Message, StartRun(r)
  PROVE  Lifecycle!Begin(r)
  <1>1. run[r].status = "queued" /\ Phase[r] = "queued"
    BY DEF StartRun, Phase
  <1>2. /\ run'[r].status = "running"
        /\ \A s \in Message \ {r} : run'[s].status = run[s].status
        /\ message' = message
    BY DEF StartRun, Typed, TypeOK, RunRow
  <1>3. Phase' = [Phase EXCEPT ![r] = "running"]
    BY <1>2 DEF Phase
  <1>4. Life' = Life /\ Home' = Home
    BY DEF StartRun, Life, Home
  <1> QED BY <1>1, <1>3, <1>4 DEF Lifecycle!Begin

\* The end of a run, by the attempt that ran it or by a finalizer.
LEMMA EndRunHandsOver ==
  ASSUME Typed, NEW r \in Message, NEW result \in {"completed", "failed"}, IsActive(r),
         EndRun(r, result), \A t \in Thread : thread'[t].state = thread[t].state
  PROVE  Lifecycle!Cancelled(r) \/ Lifecycle!HandOver(r, result)
  <1>1. Phase[r] \in Lifecycle!Working /\ Life' = Life
    BY ReadRows DEF Lifecycle!Working, Life
  <1>2. CASE run' = [run EXCEPT ![r].status = "cancelled"] /\ UNCHANGED message
    <2>1. /\ run'[r].status = "cancelled"
          /\ \A s \in Message \ {r} : run'[s].status = run[s].status
          /\ message' = message
      BY <1>2 DEF Typed, TypeOK, RunRow
    <2>2. Phase' = [Phase EXCEPT ![r] = "cancelled"]
      BY <2>1 DEF Phase
    <2>3. Home' = Home
      BY <1>2 DEF Home
    <2> QED BY <1>1, <2>2, <2>3 DEF Lifecycle!Cancelled
  <1>3. CASE ContinueQueue(ThreadOf(r), [run EXCEPT ![r].status = result])
    <2> DEFINE rn == [run EXCEPT ![r].status = result]
    <2>1. /\ rn \in [Message -> RunRow]
          /\ rn[r].status = result
          /\ \A s \in Message \ {r} : rn[s] = run[s]
      BY RunStatus DEF TerminalStatus
    <2>2. ContinueQueue(ThreadOf(r), rn)
      BY <1>3
    <2> HIDE DEF rn
    <2>3. ThreadOf(r) \in Thread /\ Home[r] = ThreadOf(r)
      BY RunHasThread DEF IsActive, ActiveStatus, Home, ThreadOf
    <2>4. Lifecycle!WaitingOf(Home[r]) = PendingMessages(ThreadOf(r))
      BY <2>3, ReadRows
    <2>5. Lifecycle!EndAs(r, result) = PhaseOn(rn)
      BY <2>1 DEF Lifecycle!EndAs, Phase, PhaseOn
    <2>6. Lifecycle!Room(Lifecycle!EndAs(r, result)) <=> Admits(rn)
      <3>1. \A s \in Message : /\ message[s].state \in {"absent", "plain", "pending", "consumed",
                                                       "started", "removed", "purged"}
        BY DEF Typed, TypeOK, MessageRow
      <3>2. Lifecycle!WorkIn(Lifecycle!EndAs(r, result)) =
              {s \in Message : rn[s].status \in ActiveStatus}
        BY <2>5, <3>1 DEF PhaseOn, Lifecycle!WorkIn, Lifecycle!Working, ActiveStatus
      <3> QED BY <3>2, SameCardinality DEF Lifecycle!Room, Admits
    <2>7. Lifecycle!HandsOver(r, result) <=> QueueStarts(ThreadOf(r), rn)
      BY <2>4, <2>6 DEF Lifecycle!HandsOver, QueueStarts
    <2>8. CASE \E m \in Message : StartNext(ThreadOf(r), m, rn)
      <3>1. PICK m \in Message : StartNext(ThreadOf(r), m, rn)
        BY <2>8
      <3>2. /\ m \in Lifecycle!WaitingOf(Home[r])
            /\ Home' = Home
            /\ Phase' = [Lifecycle!EndAs(r, result) EXCEPT ![m] = "queued"]
        BY <2>1, <2>3, <2>5, <3>1, StartNextReads
      <3>3. Lifecycle!HandsOver(r, result)
        BY <2>7, <3>1 DEF StartNext
      <3> QED BY <1>1, <3>2, <3>3 DEF Lifecycle!HandOver
    <2>9. CASE ~QueueStarts(ThreadOf(r), rn) /\ run' = rn /\ UNCHANGED message
      <3>1. Phase' = Lifecycle!EndAs(r, result) /\ Home' = Home
        BY <2>5, <2>9 DEF Phase, PhaseOn, Home
      <3> QED BY <1>1, <2>7, <2>9, <3>1 DEF Lifecycle!HandOver
    <2> QED BY <2>2, <2>8, <2>9 DEF ContinueQueue
  <1> QED BY <1>2, <1>3 DEF EndRun

\* Deleting a thread is the lifecycle's deletion: the thread is idle.
LEMMA DeleteThreadDeletes ==
  ASSUME Typed, NEW t \in Thread, DeleteThread(t)
  PROVE  Lifecycle!Delete(t)
  <1>1. Life[t] = "live" /\ Life' = [Life EXCEPT ![t] = "deleted"]
    BY DEF DeleteThread, Life, Typed, TypeOK, ThreadRow
  <1>2. Lifecycle!WorkOf(t) = {}
    BY ReadRows DEF DeleteThread, Settled
  <1>3. Home' = Home /\ Phase' = Phase
    BY DEF DeleteThread, Home, Phase
  <1> QED BY <1>1, <1>2, <1>3 DEF Lifecycle!Delete

\* Purging takes the rows of one thread and of no other.
LEMMA PurgeThreadPurges ==
  ASSUME Typed, NEW t \in Thread, PurgeThread(t)
  PROVE  Lifecycle!Purge(t)
  <1>1. Life[t] = "deleted" /\ Life' = [Life EXCEPT ![t] = "purged"]
    BY DEF PurgeThread, Life, Typed, TypeOK, ThreadRow
  <1>2. Home' = [m \in Message |-> IF Home[m] = t THEN None ELSE Home[m]]
    BY DEF PurgeThread, Home, NoMessage
  <1>3. Phase' = [m \in Message |-> IF Home[m] = t THEN "purged" ELSE Phase[m]]
    BY DEF PurgeThread, Home, Phase, NoMessage, NoRun
  <1> QED BY <1>1, <1>2, <1>3 DEF Lifecycle!Purge

(***************************************************************************)
(* Every step.                                                             *)
(***************************************************************************)
\* Transactions that leave messages, runs and threads alone.
LEMMA OthersStutter ==
  ASSUME UNCHANGED << thread, message, run >>
  PROVE  UNCHANGED Lifecycle!lifecycle
  BY StoreStutters

\* Transactions on columns of a run, a message or a thread that the lifecycle
\* does not read.
LEMMA ColumnsStutter ==
  ASSUME Typed
  PROVE  /\ \A t \in Thread, m \in Message :
              EditPending(t, m) => UNCHANGED Lifecycle!lifecycle
         /\ \A r \in Message :
              RequestCancel(r) \/ ResumeQuestions(r) \/ ResumeApproval(r)
                => UNCHANGED Lifecycle!lifecycle
         /\ \A r \in Message, a \in Attempt :
              ClaimExecution(r, a) => UNCHANGED Lifecycle!lifecycle
  <1>1. ASSUME NEW t \in Thread, NEW m \in Message, EditPending(t, m)
        PROVE  UNCHANGED Lifecycle!lifecycle
    <2>1. \A s \in Message : message'[s].thread = message[s].thread /\ message'[s].state = message[s].state
      BY <1>1 DEF EditPending, Typed, TypeOK, MessageRow
    <2> QED BY <1>1, <2>1, StoreStutters DEF EditPending
  <1>2. ASSUME NEW r \in Message, RequestCancel(r)
        PROVE  UNCHANGED Lifecycle!lifecycle
    <2>1. \A s \in Message : run'[s].status = run[s].status
      BY <1>2 DEF RequestCancel, Typed, TypeOK, RunRow
    <2>2. \A t \in Thread : thread'[t].state = thread[t].state
      BY <1>2, CancelQuestionsRows DEF RequestCancel
    <2> QED BY <1>2, <2>1, <2>2, StoreStutters DEF RequestCancel
  <1>3. ASSUME NEW r \in Message, ResumeQuestions(r) \/ ResumeApproval(r)
        PROVE  UNCHANGED Lifecycle!lifecycle
    <2>1. \A s \in Message : run'[s].status = run[s].status
      <3>1. CASE ResumeQuestions(r)
        BY <3>1, WaitColumns DEF ResumeQuestions
      <3>2. CASE ResumeApproval(r)
        BY <3>2, WaitColumns DEF ResumeApproval
      <3> QED BY <1>3, <3>1, <3>2
    <2>2. UNCHANGED << thread, message >>
      BY <1>3 DEF ResumeQuestions, ResumeApproval
    <2> QED BY <2>1, <2>2, StoreStutters
  <1>4. ASSUME NEW r \in Message, NEW a \in Attempt, ClaimExecution(r, a)
        PROVE  UNCHANGED Lifecycle!lifecycle
    <2> DEFINE row == [run[r] EXCEPT !.owner = a, !.generation = workspace[ThreadOf(r)].generation]
    <2>1. row.status = run[r].status
      BY DEF Typed, TypeOK, RunRow
    <2>2. run' = [run EXCEPT ![r] = row] /\ UNCHANGED << thread, message >>
      BY <1>4 DEF ClaimExecution, Typed, TypeOK
    <2> HIDE DEF row
    <2>3. \A s \in Message : run'[s].status = run[s].status
      BY <2>1, <2>2 DEF Typed, TypeOK
    <2> QED BY <2>2, <2>3, StoreStutters
  <1> QED BY <1>1, <1>2, <1>3, <1>4

\* Transactions on questions; some of them hand the browser over.
LEMMA QuestionsStutter == Typed /\ QuestionNext => UNCHANGED Lifecycle!lifecycle
  <1> SUFFICES ASSUME Typed, QuestionNext PROVE UNCHANGED Lifecycle!lifecycle
    OBVIOUS
  <1>1. ASSUME NEW r \in Message, NEW a \in Attempt, NEW q \in Question, NEW handoff \in BOOLEAN,
               PublishQuestion(r, a, q, handoff)
        PROVE  UNCHANGED Lifecycle!lifecycle
    <2>1. \A s \in Message : run'[s].status = run[s].status
      BY <1>1, WaitColumns DEF PublishQuestion
    <2>2. \A t \in Thread : thread'[t].state = thread[t].state
      BY <1>1, BrowserRows DEF PublishQuestion
    <2> QED BY <1>1, <2>1, <2>2, StoreStutters DEF PublishQuestion
  <1>2. ASSUME NEW q \in Question, Answer(q)
        PROVE  UNCHANGED Lifecycle!lifecycle
    <2>1. \A t \in Thread : thread'[t].state = thread[t].state
      BY <1>2, BrowserRows DEF Answer
    <2> QED BY <1>2, <2>1, StoreStutters DEF Answer
  <1>3. ASSUME NEW t \in Thread, TakeBrowser(t) \/ HandBack(t)
        PROVE  UNCHANGED Lifecycle!lifecycle
    <2>1. \A s \in Thread : thread'[s].state = thread[s].state
      BY <1>3, BrowserRows DEF TakeBrowser, HandBack
    <2>2. UNCHANGED << message, run >>
      BY <1>3 DEF TakeBrowser, HandBack
    <2> QED BY <2>1, <2>2, StoreStutters
  <1> QED BY <1>1, <1>2, <1>3, ColumnsStutter DEF QuestionNext

\* Transactions on Git operations: a proposal records a wait, which no phase reads.
LEMMA GitStutters == Typed /\ GitNext => UNCHANGED Lifecycle!lifecycle
  <1> SUFFICES ASSUME Typed, GitNext PROVE UNCHANGED Lifecycle!lifecycle
    OBVIOUS
  <1>1. ASSUME NEW r \in Message, NEW a \in Attempt, NEW g \in GitOp, PublishProposal(r, a, g)
        PROVE  UNCHANGED Lifecycle!lifecycle
    <2>1. \A s \in Message : run'[s].status = run[s].status
      BY <1>1, WaitColumns DEF PublishProposal
    <2> QED BY <1>1, <2>1, StoreStutters DEF PublishProposal
  <1>2. ASSUME NEW g \in GitOp,
               \/ Lapse(g) \/ RejectWrite(g)
               \/ \E d \in {"approved", "rejected"} : Decide(g, d)
               \/ \E a \in Attempt : ClaimWrite(g, a)
               \/ \E x \in {"succeeded", "failed", "unknown"} : FinishWrite(g, x)
        PROVE  UNCHANGED Lifecycle!lifecycle
    BY <1>2, OthersStutter DEF Lapse, RejectWrite, Decide, ClaimWrite, FinishWrite
  <1>3. ASSUME NEW r \in Message, ExpireApprovals(r)
        PROVE  UNCHANGED Lifecycle!lifecycle
    BY <1>3, OthersStutter DEF ExpireApprovals
  <1> QED BY <1>1, <1>2, <1>3, ColumnsStutter DEF GitNext

\* Transactions of an attempt: only consuming a steer and completing count.
LEMMA SessionSteps == Typed /\ SessionNext => [Lifecycle!WorkNext]_(Lifecycle!lifecycle)
  <1> SUFFICES ASSUME Typed, NEW r \in Message, NEW a \in Attempt,
                      \/ CheckWaits(r, a) \/ ClaimExecution(r, a) \/ OpenSession(r, a)
                      \/ PollSteers(r, a) \/ SaveTurn(r, a) \/ ConsumeSteer(r, a)
                      \/ CompleteRun(r, a)
               PROVE  [Lifecycle!WorkNext]_(Lifecycle!lifecycle)
    BY DEF SessionNext
  <1>1. CASE CheckWaits(r, a) \/ OpenSession(r, a) \/ PollSteers(r, a) \/ SaveTurn(r, a)
    BY <1>1, OthersStutter DEF CheckWaits, OpenSession, PollSteers, SaveTurn
  <1>2. CASE ClaimExecution(r, a)
    BY <1>2, ColumnsStutter
  <1>3. CASE ConsumeSteer(r, a)
    BY <1>3, ConsumeSteerWithdraws DEF Lifecycle!WorkNext
  <1>4. CASE CompleteRun(r, a)
    <2>1. Lifecycle!Cancelled(r) \/ Lifecycle!HandOver(r, "completed")
      BY <1>4, EndRunHandsOver DEF CompleteRun, MayComplete
    <2> QED BY <2>1 DEF Lifecycle!WorkNext
  <1> QED BY <1>1, <1>2, <1>3, <1>4

\* Transactions on a run by the workflow and the user.
LEMMA RunSteps == Typed /\ RunNext => [Lifecycle!WorkNext]_(Lifecycle!lifecycle)
  <1> SUFFICES ASSUME Typed, NEW r \in Message, RequestCancel(r) \/ StartRun(r) \/ FinishRun(r)
               PROVE  [Lifecycle!WorkNext]_(Lifecycle!lifecycle)
    BY DEF RunNext
  <1>1. CASE RequestCancel(r)
    BY <1>1, ColumnsStutter
  <1>2. CASE StartRun(r)
    BY <1>2, StartRunBegins DEF Lifecycle!WorkNext
  <1>3. CASE FinishRun(r)
    <2>1. \A t \in Thread : thread'[t].state = thread[t].state
      BY <1>3, CancelQuestionsRows DEF FinishRun
    <2>2. Lifecycle!Cancelled(r) \/ Lifecycle!HandOver(r, "failed")
      BY <1>3, <2>1, EndRunHandsOver DEF FinishRun
    <2> QED BY <2>2 DEF Lifecycle!WorkNext
  <1> QED BY <1>1, <1>2, <1>3

\* Every transaction on a thread that stays is work on it or none of its business.
LEMMA ThreadStaysSteps ==
  Typed /\ (\/ SubmitNext \/ QueueNext \/ RunNext \/ SessionNext \/ QuestionNext
           \/ GitNext \/ CommandNext \/ WorkspaceNext \/ DispatchNext \/ UNCHANGED vars)
    => [Lifecycle!WorkNext]_(Lifecycle!lifecycle)
  <1> SUFFICES ASSUME Typed,
                      \/ SubmitNext \/ QueueNext \/ RunNext \/ SessionNext \/ QuestionNext
                      \/ GitNext \/ CommandNext \/ WorkspaceNext \/ DispatchNext
                      \/ UNCHANGED vars
               PROVE  [Lifecycle!WorkNext]_(Lifecycle!lifecycle)
    OBVIOUS
  <1>1. CASE SubmitNext
    BY <1>1, SubmitRunAccepts, SubmitPendingAccepts DEF SubmitNext, Lifecycle!WorkNext
  <1>2. CASE QueueNext
    BY <1>2, StartQueuedMessageRestarts, RemovePendingWithdraws, ColumnsStutter
       DEF QueueNext, Lifecycle!WorkNext
  <1>3. CASE RunNext
    BY <1>3, RunSteps
  <1>4. CASE SessionNext
    BY <1>4, SessionSteps
  <1>5. CASE QuestionNext
    BY <1>5, QuestionsStutter
  <1>6. CASE GitNext
    BY <1>6, GitStutters
  <1>7. CASE CommandNext
    BY <1>7, OthersStutter DEF CommandNext, BeginCommand, AdmitCommand, MarkRunning, SettleCommand,
       MarkUnknown, UpdateCommand
  <1>8. CASE WorkspaceNext
    BY <1>8, OthersStutter DEF WorkspaceNext, CreateWorkspace, CancelTransition, ResetWorkspace,
       RequestWake, UpdateWorkspace, BeginTransition, Cleanup
  <1>9. CASE DispatchNext
    BY <1>9, OthersStutter DEF DispatchNext, MarkDelivered
  <1>10. CASE UNCHANGED vars
    BY <1>10, OthersStutter DEF vars
  <1> QED BY <1>1, <1>2, <1>3, <1>4, <1>5, <1>6, <1>7, <1>8, <1>9, <1>10

\* Every transaction is a step of the lifecycle or none of its business.
LEMMA NextIsLifecycle ==
  Typed /\ [Next]_vars => [Lifecycle!Next]_(Lifecycle!lifecycle)
  <1> SUFFICES ASSUME Typed, [Next]_vars PROVE [Lifecycle!Next]_(Lifecycle!lifecycle)
    OBVIOUS
  <1>1. CASE DeletionNext
    BY <1>1, DeleteThreadDeletes, PurgeThreadPurges DEF DeletionNext, Lifecycle!Next
  <1>2. CASE \/ SubmitNext \/ QueueNext \/ RunNext \/ SessionNext \/ QuestionNext
             \/ GitNext \/ CommandNext \/ WorkspaceNext \/ DispatchNext \/ UNCHANGED vars
    BY <1>2, ThreadStaysSteps DEF Lifecycle!Next
  <1> QED BY <1>1, <1>2 DEF Next

(***************************************************************************)
(* The theorems.                                                           *)
(***************************************************************************)
\* The transactions of submission.ts, runs.ts, checkpoints.ts and deletion.ts,
\* interleaved with all the others in any order, never do more with messages
\* and runs than RunLifecycle allows.
THEOREM StoreImplementsLifecycle == Spec => ImplementsRunLifecycle
  <1>1. Spec => []Typed
    BY AlwaysTyped
  <1> QED BY <1>1, InitLifecycle, NextIsLifecycle, PTL DEF Spec, ImplementsRunLifecycle, Lifecycle!Spec

\* What is proved of the abstract system holds of the rows.
LEMMA AlwaysSafe == Spec => [](Typed /\ Lifecycle!Safe)
  <1>1. Lifecycle!Spec => []Lifecycle!Safe
    BY LifecycleConstants, Lifecycle!LifecycleIsSafe
  <1> QED BY <1>1, StoreImplementsLifecycle, AlwaysTyped, PTL DEF ImplementsRunLifecycle

\* A thread has at most one active run, however many submissions, restarts of
\* the queue and endings of runs race: the unique index is never needed.
THEOREM OneRunPerThread == Spec => []OneActiveRun
  <1>1. Typed /\ Lifecycle!Safe => OneActiveRun
    <2> SUFFICES ASSUME Typed, Lifecycle!Safe, NEW r \in AllActiveRuns, NEW s \in AllActiveRuns,
                        ThreadOf(r) = ThreadOf(s)
                 PROVE  r = s
      BY DEF OneActiveRun
    <2>1. r \in Lifecycle!WorkIn(Phase) /\ s \in Lifecycle!WorkIn(Phase)
      BY ReadRows
    <2>2. Home[r] = Home[s]
      BY DEF Home, ThreadOf, AllActiveRuns
    <2> QED BY <2>1, <2>2 DEF Lifecycle!Safe, Lifecycle!OneAtATime
  <1> QED BY <1>1, AlwaysSafe, PTL

\* No more runs are active than a submission admits, although a queue continues
\* in the transaction that ends the run before.
THEOREM AdmissionIsKept == Spec => []AdmissionLimit
  <1>1. Typed /\ Lifecycle!Safe => AdmissionLimit
    BY ReadRows, SameCardinality DEF Lifecycle!Safe, Lifecycle!Admitted, AdmissionLimit
  <1> QED BY <1>1, AlwaysSafe, PTL

\* What RunLifecycle promises of a step, in terms of the rows.
LEMMA StepPromise ==
  ASSUME Typed, Typed', Lifecycle!Safe, [Next]_vars
  PROVE  /\ \A r \in Message : IsTerminal(r) => run'[r].status \in {run[r].status, "absent"}
         /\ \A t \in Thread :
              (ActiveRuns(t) # {} /\ ActiveRuns(t)' = {} /\ PendingMessages(t)' # {})
                => \A r \in ActiveRuns(t) : run'[r].status = "cancelled"
         /\ \A r \in Message :
              (IsActive(r) /\ run'[r].status = "cancelled")
                => /\ ActiveRuns(ThreadOf(r))' = {}
                   /\ PendingMessages(ThreadOf(r))' = PendingMessages(ThreadOf(r))
  <1>1. Lifecycle!EndsForGood /\ Lifecycle!StallsByCancel /\ Lifecycle!CancelLeavesWaiting
    BY NextIsLifecycle, LifecycleConstants, Lifecycle!StepKeepsPromise
  <1>2. /\ \A t \in Thread : Lifecycle!WorkOf(t) = ActiveRuns(t)
        /\ \A t \in Thread : Lifecycle!WaitingOf(t) = PendingMessages(t)
    BY ReadRows
  <1>3. /\ \A t \in Thread : Lifecycle!WorkOf(t)' = ActiveRuns(t)'
        /\ \A t \in Thread : Lifecycle!WaitingOf(t)' = PendingMessages(t)'
    BY RowsTellNext DEF RowsTell
  <1>4. \A r \in Message :
          /\ message'[r].state \notin {"completed", "failed", "cancelled"}
          /\ run'[r].status # "purged"
    BY DEF Typed, TypeOK, MessageRow, RunRow, ActiveStatus, TerminalStatus
  <1>5. \A r \in Message : Phase'[r] \in {"completed", "failed", "cancelled"}
                             <=> run'[r].status \in {"completed", "failed", "cancelled"}
    BY <1>4 DEF Phase
  <1>6. \A r \in Message : run'[r].status \in {"completed", "failed", "cancelled"}
                             => Phase'[r] = run'[r].status
    BY DEF Phase
  <1>7. \A r \in Message : IsTerminal(r) => run'[r].status \in {run[r].status, "absent"}
    <2> SUFFICES ASSUME NEW r \in Message, IsTerminal(r)
                 PROVE  run'[r].status \in {run[r].status, "absent"}
      OBVIOUS
    <2>1. Phase[r] = run[r].status /\ Phase[r] \in {"completed", "failed", "cancelled"}
      BY DEF IsTerminal, TerminalStatus, Phase
    <2>2. Phase'[r] \in {Phase[r], "purged"}
      BY <1>1, <2>1 DEF Lifecycle!EndsForGood, Lifecycle!Ended
    <2>3. CASE Phase'[r] = Phase[r]
      BY <1>5, <1>6, <2>1, <2>3
    <2>4. CASE Phase'[r] = "purged"
      BY <1>4, <2>4 DEF Phase
    <2> QED BY <2>2, <2>3, <2>4
  <1>8. ASSUME NEW t \in Thread,
               ActiveRuns(t) # {}, ActiveRuns(t)' = {}, PendingMessages(t)' # {},
               NEW r \in ActiveRuns(t)
        PROVE  run'[r].status = "cancelled"
    <2>1. Phase'[r] = "cancelled" /\ r \in Message
      BY <1>1, <1>2, <1>3, <1>8 DEF Lifecycle!StallsByCancel, ActiveRuns, AllActiveRuns
    <2> QED BY <1>5, <1>6, <2>1
  <1>9. ASSUME NEW r \in Message, IsActive(r), run'[r].status = "cancelled"
        PROVE  /\ ActiveRuns(ThreadOf(r))' = {}
               /\ PendingMessages(ThreadOf(r))' = PendingMessages(ThreadOf(r))
    <2>1. ThreadOf(r) \in Thread /\ Home[r] = ThreadOf(r)
      BY <1>9, RunHasThread DEF IsActive, ActiveStatus, Home, ThreadOf
    <2>2. Phase[r] \in Lifecycle!Working /\ Phase'[r] = "cancelled"
      BY <1>6, <1>9, ReadRows DEF Lifecycle!Working
    <2>3. /\ Lifecycle!WorkOf(Home[r])' = {}
          /\ Lifecycle!WaitingOf(Home[r])' = Lifecycle!WaitingOf(Home[r])
          /\ Home'[r] = Home[r]
      BY <1>1, <2>2 DEF Lifecycle!CancelLeavesWaiting
    <2>4. ThreadOf(r)' = ThreadOf(r)
      BY <2>3 DEF Home, ThreadOf
    <2>5. /\ Lifecycle!WorkOf(ThreadOf(r))' = {}
          /\ Lifecycle!WaitingOf(ThreadOf(r))' = Lifecycle!WaitingOf(ThreadOf(r))
      BY <2>1, <2>3, <2>4
    <2> QED BY <1>2, <1>3, <2>1, <2>4, <2>5
  <1> QED BY <1>7, <1>8, <1>9

\* An ended run keeps its status, whoever reports late.
THEOREM EndedRunsAreFinal == Spec => TerminalIsFinal
  <1>1. Typed /\ Typed' /\ Lifecycle!Safe /\ [Next]_vars
          => [\A r \in Message : IsTerminal(r) => run'[r].status \in {run[r].status, "absent"}]_vars
    BY StepPromise
  <1> QED BY <1>1, AlwaysSafe, PTL DEF Spec, TerminalIsFinal

\* A run that completes or fails always finds room for the next: its own.
THEOREM QueueGoesOn == Spec => QueueStallsOnlyByCancel
  <1>1. Typed /\ Typed' /\ Lifecycle!Safe /\ [Next]_vars
          => [\A t \in Thread :
                (ActiveRuns(t) # {} /\ ActiveRuns(t)' = {} /\ PendingMessages(t)' # {})
                  => \A r \in ActiveRuns(t) : run'[r].status = "cancelled"]_vars
    BY StepPromise
  <1> QED BY <1>1, AlwaysSafe, PTL DEF Spec, QueueStallsOnlyByCancel

\* Cancelling a run stops its thread and keeps what waits.
THEOREM CancellationKeepsQueue == Spec => CancelKeepsQueue
  <1>1. Typed /\ Typed' /\ Lifecycle!Safe /\ [Next]_vars
          => [\A r \in Message :
                (IsActive(r) /\ run'[r].status = "cancelled")
                  => /\ ActiveRuns(ThreadOf(r))' = {}
                     /\ PendingMessages(ThreadOf(r))' = PendingMessages(ThreadOf(r))]_vars
    BY StepPromise
  <1> QED BY <1>1, AlwaysSafe, PTL DEF Spec, CancelKeepsQueue

-----------------------------------------------------------------------------
(***************************************************************************)
(* What is over stays over: nothing acts for a deleted thread, and a       *)
(* replaced attempt does not own its run again.                            *)
(***************************************************************************)

(***************************************************************************)
(* Deleted threads.                                                        *)
(***************************************************************************)
InFlightWrite(g) == gitop[g].execution \in {"executing", "unknown"}

\* A write in flight is a live thread's.
InFlightLive ==
  \A g \in GitOp : InFlightWrite(g) =>
    /\ ThreadOf(gitop[g].run) \in Thread
    /\ thread[ThreadOf(gitop[g].run)].state = "live"

\* A dispatched or proposed operation belongs to a run.
LEMMA OperationHasRun ==
  ASSUME Typed, NEW g \in GitOp, InFlightWrite(g) \/ gitop[g].approval # "absent"
  PROVE  gitop[g].run \in Message /\ run[gitop[g].run].status # "absent"
  <1>1. gitop[g] # NoGitOp
    BY DEF NoGitOp, InFlightWrite
  <1> QED BY <1>1 DEF Typed, References, RowsHaveRun

\* A transaction that leaves threads and messages alone, and puts no write in
\* flight, keeps them live.
LEMMA KeepInFlightLive ==
  ASSUME Typed, InFlightLive, Lifecycle!Safe,
         [Lifecycle!WorkNext]_(Lifecycle!lifecycle),
         \A g \in GitOp : InFlightWrite(g)' => InFlightWrite(g) /\ gitop'[g].run = gitop[g].run
  PROVE  InFlightLive'
  <1> SUFFICES ASSUME NEW g \in GitOp, InFlightWrite(g)'
               PROVE  /\ ThreadOf(gitop[g].run)' \in Thread
                      /\ thread'[ThreadOf(gitop[g].run)'].state = "live"
    BY DEF InFlightLive
  <1> DEFINE r == gitop[g].run  t == ThreadOf(r)
  <1>1. InFlightWrite(g) /\ gitop'[g].run = r
    OBVIOUS
  <1>2. r \in Message /\ run[r].status # "absent"
    BY <1>1, OperationHasRun
  <1>3. t \in Thread /\ thread[t].state = "live"
    BY <1>1 DEF InFlightLive
  <1>4. Phase[r] # "absent"
    BY <1>2 DEF Phase
  <1>5. /\ \A m \in Message : Phase[m] # "absent" => Home'[m] = Home[m]
        /\ \A s \in Thread : Life'[s] \in {Life[s], "live"}
    BY Lifecycle!WorkTakesNothing DEF Lifecycle!NothingIsTaken
  <1>6. message'[r].thread = t
    BY <1>2, <1>4, <1>5 DEF Home, ThreadOf
  <1>7. thread'[t].state = "live"
    BY <1>3, <1>5 DEF Life
  <1> HIDE DEF r, t
  <1> QED BY <1>1, <1>3, <1>6, <1>7 DEF ThreadOf, r

\* No transaction on a Git operation but its dispatch puts a write in flight.
LEMMA GitWritesInFlight ==
  ASSUME Typed, GitNext, ~\E g \in GitOp, a \in Attempt : ClaimWrite(g, a)
  PROVE  \A g \in GitOp : InFlightWrite(g)' => InFlightWrite(g) /\ gitop'[g].run = gitop[g].run
  <1>1. gitop \in [GitOp -> GitRow]
    BY DEF Typed, TypeOK
  <1>2. ASSUME NEW r \in Message, NEW a \in Attempt, NEW g \in GitOp, PublishProposal(r, a, g)
        PROVE  \A h \in GitOp : InFlightWrite(h)' => InFlightWrite(h) /\ gitop'[h].run = gitop[h].run
    BY <1>1, <1>2 DEF PublishProposal, NoGitOp, InFlightWrite
  <1>3. ASSUME NEW g \in GitOp,
               \/ Lapse(g) \/ RejectWrite(g)
               \/ \E d \in {"approved", "rejected"} : Decide(g, d)
               \/ \E x \in {"succeeded", "failed", "unknown"} : FinishWrite(g, x)
        PROVE  \A h \in GitOp : InFlightWrite(h)' => InFlightWrite(h) /\ gitop'[h].run = gitop[h].run
    <2>1. \A h \in GitOp \ {g} : gitop'[h] = gitop[h]
      BY <1>1, <1>3 DEF Lapse, RejectWrite, Decide, FinishWrite
    <2>2. gitop'[g].run = gitop[g].run
      BY <1>1, <1>3 DEF Lapse, RejectWrite, Decide, FinishWrite, GitRow
    <2>3. InFlightWrite(g)' => InFlightWrite(g)
      BY <1>1, <1>3 DEF Lapse, RejectWrite, Decide, FinishWrite, InFlightWrite, GitRow
    <2> QED BY <2>1, <2>2, <2>3 DEF InFlightWrite
  <1>4. ASSUME NEW r \in Message, ExpireApprovals(r)
        PROVE  \A h \in GitOp : InFlightWrite(h)' => InFlightWrite(h) /\ gitop'[h].run = gitop[h].run
    <2>1. \A h \in GitOp : gitop'[h].execution = gitop[h].execution /\ gitop'[h].run = gitop[h].run
      BY <1>1, <1>4 DEF ExpireApprovals, GitRow
    <2> QED BY <2>1 DEF InFlightWrite
  <1>5. ASSUME NEW r \in Message, ResumeApproval(r)
        PROVE  \A h \in GitOp : InFlightWrite(h)' => InFlightWrite(h) /\ gitop'[h].run = gitop[h].run
    BY <1>5 DEF ResumeApproval, InFlightWrite
  <1> QED BY <1>2, <1>3, <1>4, <1>5 DEF GitNext

\* Nor does any other transaction on a thread that stays.
LEMMA OtherWritesInFlight ==
  ASSUME Typed,
         \/ SubmitNext \/ QueueNext \/ RunNext \/ SessionNext \/ QuestionNext
         \/ CommandNext \/ WorkspaceNext \/ DispatchNext \/ UNCHANGED vars
  PROVE  \A g \in GitOp : InFlightWrite(g)' => InFlightWrite(g) /\ gitop'[g].run = gitop[g].run
  <1> DEFINE Kept == \A g \in GitOp : InFlightWrite(g)' => InFlightWrite(g) /\ gitop'[g].run = gitop[g].run
  <1> SUFFICES Kept
    OBVIOUS
  <1>1. ASSUME UNCHANGED gitop PROVE Kept
    BY <1>1 DEF InFlightWrite
  <1>2. ASSUME NEW R, InvalidateApprovals(R) PROVE Kept
    <2>1. \A g \in GitOp : gitop'[g].execution = gitop[g].execution
      BY <1>2, InvalidateApprovalsRows
    <2>2. \A g \in GitOp : gitop'[g].run = gitop[g].run
      BY <1>2 DEF InvalidateApprovals, Typed, TypeOK, GitRow
    <2> QED BY <2>1, <2>2 DEF InFlightWrite
  <1> HIDE DEF Kept
  <1>3. CASE SubmitNext
    BY <1>1, <1>3 DEF SubmitNext, SubmitRun, SubmitPending
  <1>4. CASE QueueNext
    BY <1>1, <1>4 DEF QueueNext, StartQueuedMessage, EditPending, RemovePending
  <1>5. CASE RunNext
    <2>1. ASSUME NEW r \in Message, RequestCancel(r) \/ FinishRun(r) PROVE Kept
      BY <1>2, <2>1 DEF RequestCancel, FinishRun
    <2>2. ASSUME NEW r \in Message, StartRun(r) PROVE Kept
      BY <1>1, <2>2 DEF StartRun
    <2> QED BY <1>5, <2>1, <2>2 DEF RunNext
  <1>6. CASE SessionNext
    <2> PICK r \in Message, a \in Attempt :
          \/ CheckWaits(r, a) \/ ClaimExecution(r, a) \/ OpenSession(r, a)
          \/ PollSteers(r, a) \/ SaveTurn(r, a) \/ ConsumeSteer(r, a) \/ CompleteRun(r, a)
      BY <1>6 DEF SessionNext
    <2>1. CASE CheckWaits(r, a) \/ OpenSession(r, a) \/ PollSteers(r, a)
      BY <1>1, <2>1 DEF CheckWaits, OpenSession, PollSteers
    <2>2. CASE SaveTurn(r, a) \/ ConsumeSteer(r, a)
      BY <1>1, <2>2 DEF SaveTurn, ConsumeSteer
    <2>3. CASE ClaimExecution(r, a)
      BY <1>1, <2>3 DEF ClaimExecution
    <2>4. CASE CompleteRun(r, a)
      BY <1>1, <2>4 DEF CompleteRun
    <2> QED BY <2>1, <2>2, <2>3, <2>4
  <1>7. CASE QuestionNext
    BY <1>1, <1>7 DEF QuestionNext, PublishQuestion, Answer, ResumeQuestions, TakeBrowser, HandBack
  <1>8. CASE CommandNext
    <2>1. ASSUME NEW c \in Command, NEW r \in Message, NEW a \in Attempt, NEW access,
                 BeginCommand(c, r, a, access)
          PROVE  Kept
      BY <1>1, <2>1 DEF BeginCommand
    <2>2. ASSUME NEW c \in Command, AdmitCommand(c)
          PROVE  Kept
      BY <1>1, <2>2 DEF AdmitCommand
    <2>3. ASSUME NEW c \in Command, MarkRunning(c) \/ SettleCommand(c) \/ MarkUnknown(c)
          PROVE  Kept
      BY <1>1, <2>3 DEF MarkRunning, SettleCommand, MarkUnknown, UpdateCommand
    <2> QED BY <1>8, <2>1, <2>2, <2>3 DEF CommandNext
  <1>9. CASE WorkspaceNext
    <2>1. ASSUME NEW t \in Thread, ResetWorkspace(t) PROVE Kept
      BY <1>2, <2>1 DEF ResetWorkspace
    <2>2. CASE ~\E t \in Thread : ResetWorkspace(t)
      BY <1>1, <1>9, <2>2 DEF WorkspaceNext, CreateWorkspace, CancelTransition, RequestWake,
         UpdateWorkspace, BeginTransition, Cleanup
    <2> QED BY <2>1, <2>2
  <1>10. CASE DispatchNext
    BY <1>1, <1>10 DEF DispatchNext, MarkDelivered
  <1>11. CASE UNCHANGED vars
    BY <1>1, <1>11 DEF vars
  <1> QED BY <1>3, <1>4, <1>5, <1>6, <1>7, <1>8, <1>9, <1>10, <1>11

\* A write is dispatched for an active run, whose thread is live.
LEMMA ClaimWriteIsLive ==
  ASSUME Typed, InFlightLive, Lifecycle!Safe,
         NEW g \in GitOp, NEW a \in Attempt, ClaimWrite(g, a)
  PROVE  InFlightLive'
  <1> DEFINE r == gitop[g].run
  <1>1. r \in Message /\ IsActive(r)
    BY OperationHasRun DEF ClaimWrite, Current
  <1>2. r \in Lifecycle!WorkIn(Phase)
    BY <1>1, ReadRows DEF AllActiveRuns
  <1>3. ThreadOf(r) \in Thread /\ thread[ThreadOf(r)].state = "live"
    BY <1>1, <1>2 DEF Lifecycle!Safe, Lifecycle!WorkIsLive, Home, Life, ThreadOf
  <1>4. /\ \A h \in GitOp \ {g} : gitop'[h] = gitop[h]
        /\ gitop'[g].run = r
    BY DEF ClaimWrite, Typed, TypeOK, GitRow
  <1>5. UNCHANGED << thread, message >>
    BY DEF ClaimWrite
  <1> HIDE DEF r
  <1> QED BY <1>3, <1>4, <1>5 DEF InFlightLive, InFlightWrite, ThreadOf

\* A thread is deleted and purged with no write in flight.
LEMMA DeletionKeepsLive ==
  ASSUME Typed, InFlightLive, DeletionNext
  PROVE  InFlightLive'
  <1> PICK t \in Thread : DeleteThread(t) \/ PurgeThread(t)
    BY DEF DeletionNext
  <1>1. ASSUME NEW g \in GitOp, InFlightWrite(g)
        PROVE  gitop[g].run \in Message /\ ThreadOf(gitop[g].run) # t
    <2>1. gitop[g].run \in Message /\ run[gitop[g].run].status # "absent"
      BY <1>1, OperationHasRun
    <2>2. gitop[g].run \notin RunsOf(t)
      BY <1>1 DEF DeleteThread, PurgeThread, Settled, InFlightWrite
    <2> QED BY <2>1, <2>2 DEF RunsOf
  <1>2. ASSUME NEW g \in GitOp, InFlightWrite(g)'
        PROVE  InFlightWrite(g) /\ gitop'[g] = gitop[g]
    <2>1. gitop'[g] \in {gitop[g], NoGitOp}
      BY DEF DeleteThread, PurgeThread
    <2> QED BY <1>2, <2>1 DEF InFlightWrite, NoGitOp
  <1>3. \A s \in Thread \ {t} : thread'[s] = thread[s]
    BY DEF DeleteThread, PurgeThread, Typed, TypeOK
  <1>4. \A m \in Message : message[m].thread # t => message'[m] = message[m]
    BY DEF DeleteThread, PurgeThread
  <1> QED BY <1>1, <1>2, <1>3, <1>4 DEF InFlightLive, ThreadOf

\* Writes in flight are always a live thread's.
LEMMA AlwaysInFlightLive == Spec => [](Typed /\ Lifecycle!Safe /\ InFlightLive)
  <1>1. Init => InFlightLive
    BY DEF Init, InFlightLive, InFlightWrite, NoGitOp
  <1>2. Typed /\ Lifecycle!Safe /\ InFlightLive /\ [Next]_vars => InFlightLive'
    <2> SUFFICES ASSUME Typed, Lifecycle!Safe, InFlightLive, [Next]_vars
                 PROVE  InFlightLive'
      OBVIOUS
    <2>1. CASE DeletionNext
      BY <2>1, DeletionKeepsLive
    <2>2. CASE \E g \in GitOp, a \in Attempt : ClaimWrite(g, a)
      BY <2>2, ClaimWriteIsLive
    <2>3. CASE GitNext /\ ~\E g \in GitOp, a \in Attempt : ClaimWrite(g, a)
      BY <2>3, GitWritesInFlight, ThreadStaysSteps, KeepInFlightLive
    <2>4. CASE \/ SubmitNext \/ QueueNext \/ RunNext \/ SessionNext \/ QuestionNext
               \/ CommandNext \/ WorkspaceNext \/ DispatchNext \/ UNCHANGED vars
      BY <2>4, OtherWritesInFlight, ThreadStaysSteps, KeepInFlightLive
    <2> QED BY <2>1, <2>2, <2>3, <2>4 DEF Next
  <1> QED BY <1>1, <1>2, AlwaysSafe, PTL DEF Spec

\* Nothing acts for a deleted thread: deletion.ts admits it only when no run is
\* active and no write in flight, and submission.ts, runs.ts and git-store.ts
\* start neither afterwards.
THEOREM DeletedThreadsAreSettled == Spec => []DeletedIsSettled
  <1>1. Typed /\ Lifecycle!Safe /\ InFlightLive => DeletedIsSettled
    <2> SUFFICES ASSUME Typed, Lifecycle!Safe, InFlightLive,
                        NEW t \in Thread, thread[t].state \in {"deleted", "purged"}
                 PROVE  /\ ActiveRuns(t) = {}
                        /\ \A g \in GitOp : InFlightWrite(g) => ThreadOf(gitop[g].run) # t
      BY DEF DeletedIsSettled, InFlightWrite
    <2>1. ASSUME NEW r \in ActiveRuns(t) PROVE FALSE
      <3>1. r \in Lifecycle!WorkIn(Phase) /\ r \in Message /\ ThreadOf(r) = t
        BY <2>1, ReadRows DEF ActiveRuns, AllActiveRuns
      <3>2. Life[t] = "live"
        BY <3>1 DEF Lifecycle!Safe, Lifecycle!WorkIsLive, Home, ThreadOf
      <3> QED BY <3>2 DEF Life
    <2> QED BY <2>1 DEF InFlightLive
  <1> QED BY <1>1, AlwaysInFlightLive, PTL

(***************************************************************************)
(* Replaced attempts.                                                      *)
(***************************************************************************)
\* The owner column of every run is as it was, or empty because the run is new
\* or purged.
OwnersKept ==
  \A r \in Message :
    \/ run'[r].owner = run[r].owner
    \/ run'[r].owner = None /\ "absent" \in {run[r].status, run'[r].status}

\* A transaction that writes another column of one run keeps the owners.
LEMMA OtherColumnsKeepOwners ==
  ASSUME Typed, NEW r \in Message, NEW value,
         \/ run' = [run EXCEPT ![r].status = value]
         \/ run' = [run EXCEPT ![r].cancel = value]
         \/ run' = [run EXCEPT ![r].approvalWait = value]
         \/ run' = [run EXCEPT ![r].questionWait = value]
  PROVE  OwnersKept
  <1> run \in [Message -> RunRow]
    BY DEF Typed, TypeOK
  <1>1. CASE run' = [run EXCEPT ![r].status = value]
    BY <1>1 DEF RunRow, OwnersKept
  <1>2. CASE run' = [run EXCEPT ![r].cancel = value]
    BY <1>2 DEF RunRow, OwnersKept
  <1>3. CASE run' = [run EXCEPT ![r].approvalWait = value]
    BY <1>3 DEF RunRow, OwnersKept
  <1>4. CASE run' = [run EXCEPT ![r].questionWait = value]
    BY <1>4 DEF RunRow, OwnersKept
  <1> QED BY <1>1, <1>2, <1>3, <1>4

\* A run of the queue starts without an owner.
LEMMA QueueKeepsOwners ==
  ASSUME Typed, NEW t \in Thread, NEW rn \in [Message -> RunRow], ContinueQueue(t, rn),
         \A r \in Message : rn[r].owner = run[r].owner
  PROVE  OwnersKept
  <1>1. QueuedRun.owner = None
    BY DEF QueuedRun, NoRun
  <1>2. CASE \E m \in Message : StartNext(t, m, rn)
    <2> PICK m \in Message : StartNext(t, m, rn)
      BY <1>2
    <2>1. run[m].status = "absent"
      BY DEF StartNext, FirstPending, PendingMessages, Typed, References, StartedHasRun
    <2>2. run' = [rn EXCEPT ![m] = QueuedRun]
      BY DEF StartNext
    <2> QED BY <1>1, <2>1, <2>2 DEF OwnersKept
  <1>3. CASE run' = rn
    BY <1>3 DEF OwnersKept
  <1> QED BY <1>2, <1>3 DEF ContinueQueue

\* Ending a run does not change owners.
LEMMA EndRunKeepsOwners ==
  ASSUME Typed, NEW r \in Message, IsActive(r),
         NEW status \in {"completed", "failed"}, EndRun(r, status)
  PROVE  OwnersKept
  <1>1. CASE run' = [run EXCEPT ![r].status = "cancelled"]
    BY <1>1, OtherColumnsKeepOwners
  <1>2. CASE ContinueQueue(ThreadOf(r), [run EXCEPT ![r].status = status])
    <2> DEFINE rn == [run EXCEPT ![r].status = status]
    <2>1. rn \in [Message -> RunRow]
      BY RunStatus DEF TerminalStatus
    <2>2. \A s \in Message : rn[s].owner = run[s].owner
      BY DEF Typed, TypeOK, RunRow
    <2>3. ThreadOf(r) \in Thread
      BY RunHasThread DEF IsActive, ActiveStatus
    <2> HIDE DEF rn
    <2> QED BY <1>2, <2>1, <2>2, <2>3, QueueKeepsOwners DEF rn
  <1> QED BY <1>1, <1>2 DEF EndRun

\* Only a claim gives a run an owner.
LEMMA OnlyClaimsMakeOwners ==
  ASSUME Typed, [Next]_vars,
         ~\E r \in Message, a \in Attempt : ClaimExecution(r, a)
  PROVE  OwnersKept
  <1>1. ASSUME UNCHANGED run PROVE OwnersKept
    BY <1>1 DEF OwnersKept
  <1>2. CASE SubmitNext
    <2>1. ASSUME NEW t \in Thread, NEW m \in Message, NEW mode, NEW model, NEW A,
                 SubmitRun(t, m, mode, model, A)
          PROVE  OwnersKept
      <3>1. QueuedRun.owner = None
        BY DEF QueuedRun, NoRun
      <3>2. run[m].status = "absent"
        BY <2>1 DEF SubmitRun, Acceptable, Typed, References, StartedHasRun
      <3>3. run' = [run EXCEPT ![m] = QueuedRun]
        BY <2>1 DEF SubmitRun
      <3> QED BY <3>1, <3>2, <3>3 DEF OwnersKept, Typed, TypeOK
    <2>2. ASSUME NEW t \in Thread, NEW m \in Message, NEW mode, NEW model, NEW A,
                 SubmitPending(t, m, mode, model, A)
          PROVE  OwnersKept
      BY <1>1, <2>2 DEF SubmitPending
    <2> QED BY <1>2, <2>1, <2>2 DEF SubmitNext
  <1>3. CASE QueueNext
    <2>1. ASSUME NEW t \in Thread, NEW m \in Message, StartQueuedMessage(t, m)
          PROVE  OwnersKept
      <3>1. ContinueQueue(t, run)
        BY <2>1 DEF StartQueuedMessage, ContinueQueue
      <3> QED BY <3>1, QueueKeepsOwners DEF Typed, TypeOK
    <2>2. ASSUME NEW t \in Thread, NEW m \in Message, EditPending(t, m) \/ RemovePending(t, m)
          PROVE  OwnersKept
      BY <1>1, <2>2 DEF EditPending, RemovePending
    <2> QED BY <1>3, <2>1, <2>2 DEF QueueNext
  <1>4. CASE RunNext
    <2>1. ASSUME NEW r \in Message, RequestCancel(r) \/ StartRun(r)
          PROVE  OwnersKept
      <3>1. \/ run' = [run EXCEPT ![r].cancel = TRUE]
            \/ run' = [run EXCEPT ![r].status = "running"]
        BY <2>1 DEF RequestCancel, StartRun
      <3> QED BY <3>1, OtherColumnsKeepOwners
    <2>2. ASSUME NEW r \in Message, FinishRun(r)
          PROVE  OwnersKept
      BY <2>2, EndRunKeepsOwners DEF FinishRun
    <2> QED BY <1>4, <2>1, <2>2 DEF RunNext
  <1>5. CASE SessionNext
    <2> PICK r \in Message, a \in Attempt :
          \/ CheckWaits(r, a) \/ OpenSession(r, a) \/ PollSteers(r, a)
          \/ SaveTurn(r, a) \/ ConsumeSteer(r, a) \/ CompleteRun(r, a)
      BY <1>5 DEF SessionNext
    <2>1. CASE CheckWaits(r, a) \/ OpenSession(r, a) \/ PollSteers(r, a)
      BY <1>1, <2>1 DEF CheckWaits, OpenSession, PollSteers
    <2>2. CASE SaveTurn(r, a) \/ ConsumeSteer(r, a)
      BY <1>1, <2>2 DEF SaveTurn, ConsumeSteer
    <2>3. CASE CompleteRun(r, a)
      BY <2>3, EndRunKeepsOwners DEF CompleteRun, MayComplete
    <2> QED BY <2>1, <2>2, <2>3
  <1>6. CASE QuestionNext
    <2>1. ASSUME NEW r \in Message, NEW a \in Attempt, NEW q \in Question, NEW handoff \in BOOLEAN,
                 PublishQuestion(r, a, q, handoff)
          PROVE  OwnersKept
      <3>1. run' = [run EXCEPT ![r].questionWait = TRUE]
        BY <2>1 DEF PublishQuestion
      <3> QED BY <3>1, OtherColumnsKeepOwners
    <2>2. ASSUME NEW r \in Message, ResumeQuestions(r)
          PROVE  OwnersKept
      <3>1. run' = [run EXCEPT ![r].questionWait = FALSE]
        BY <2>2 DEF ResumeQuestions
      <3> QED BY <3>1, OtherColumnsKeepOwners
    <2>3. ASSUME NEW q \in Question, Answer(q)
          PROVE  OwnersKept
      BY <1>1, <2>3 DEF Answer
    <2>4. ASSUME NEW t \in Thread, TakeBrowser(t) \/ HandBack(t)
          PROVE  OwnersKept
      BY <1>1, <2>4 DEF TakeBrowser, HandBack
    <2> QED BY <1>6, <2>1, <2>2, <2>3, <2>4 DEF QuestionNext
  <1>7. CASE GitNext
    <2>1. ASSUME NEW r \in Message, NEW a \in Attempt, NEW g \in GitOp, PublishProposal(r, a, g)
          PROVE  OwnersKept
      <3>1. run' = [run EXCEPT ![r].approvalWait = TRUE]
        BY <2>1 DEF PublishProposal
      <3> QED BY <3>1, OtherColumnsKeepOwners
    <2>2. ASSUME NEW g \in GitOp,
                 \/ Lapse(g) \/ RejectWrite(g)
                 \/ \E d \in {"approved", "rejected"} : Decide(g, d)
                 \/ \E a \in Attempt : ClaimWrite(g, a)
                 \/ \E x \in {"succeeded", "failed", "unknown"} : FinishWrite(g, x)
          PROVE  OwnersKept
      BY <1>1, <2>2 DEF Lapse, RejectWrite, Decide, ClaimWrite, FinishWrite
    <2>3. ASSUME NEW r \in Message, ExpireApprovals(r)
          PROVE  OwnersKept
      BY <1>1, <2>3 DEF ExpireApprovals
    <2>4. ASSUME NEW r \in Message, ResumeApproval(r)
          PROVE  OwnersKept
      <3>1. run' = [run EXCEPT ![r].approvalWait = FALSE]
        BY <2>4 DEF ResumeApproval
      <3> QED BY <3>1, OtherColumnsKeepOwners
    <2> QED BY <1>7, <2>1, <2>2, <2>3, <2>4 DEF GitNext
  <1>8. CASE CommandNext
    <2>1. ASSUME NEW c \in Command, NEW r \in Message, NEW a \in Attempt, NEW access,
                 BeginCommand(c, r, a, access)
          PROVE  OwnersKept
      BY <1>1, <2>1 DEF BeginCommand
    <2>2. ASSUME NEW c \in Command, AdmitCommand(c)
          PROVE  OwnersKept
      BY <1>1, <2>2 DEF AdmitCommand
    <2>3. ASSUME NEW c \in Command, MarkRunning(c) \/ SettleCommand(c) \/ MarkUnknown(c)
          PROVE  OwnersKept
      BY <1>1, <2>3 DEF MarkRunning, SettleCommand, MarkUnknown, UpdateCommand
    <2> QED BY <1>8, <2>1, <2>2, <2>3 DEF CommandNext
  <1>9. CASE WorkspaceNext
    BY <1>1, <1>9 DEF WorkspaceNext, CreateWorkspace, CancelTransition, RequestWake,
       UpdateWorkspace, BeginTransition, Cleanup, ResetWorkspace
  <1>10. CASE DeletionNext
    <2>1. ASSUME NEW t \in Thread, PurgeThread(t)
          PROVE  OwnersKept
      <3>1. \A r \in Message : run'[r] \in {run[r], NoRun}
        BY <2>1 DEF PurgeThread
      <3> QED BY <3>1 DEF OwnersKept, NoRun
    <2>2. ASSUME NEW t \in Thread, DeleteThread(t)
          PROVE  OwnersKept
      BY <1>1, <2>2 DEF DeleteThread
    <2> QED BY <1>10, <2>1, <2>2 DEF DeletionNext
  <1>11. CASE DispatchNext \/ UNCHANGED vars
    BY <1>1, <1>11 DEF DispatchNext, MarkDelivered, vars
  <1> QED BY <1>2, <1>3, <1>4, <1>5, <1>6, <1>7, <1>8, <1>9, <1>10, <1>11 DEF Next

\* A claim makes the claimant owner, and claimExecutionOwnership refuses an
\* attempt that claimed before and was replaced.
LEMMA ClaimIsNew ==
  ASSUME Typed, NEW r \in Message, NEW a \in Attempt, ClaimExecution(r, a),
         NEW s \in Message, NEW b \in Attempt, claim[s][b], run[s].owner # b
  PROVE  run'[s].owner # b
  <1>1. ~claim[r][a]
    BY DEF ClaimExecution, MayClaim
  <1>2. CASE s # r
    <2>1. run'[s] = run[s]
      BY <1>2 DEF ClaimExecution, Typed, TypeOK
    <2> QED BY <2>1
  <1>3. CASE s = r
    <2>1. run'[r].owner = a
      BY DEF ClaimExecution, Typed, TypeOK, RunRow
    <2> QED BY <1>1, <1>3, <2>1
  <1> QED BY <1>2, <1>3

\* An attempt that was replaced as the owner of a run never owns it again: no
\* transaction but claimExecutionOwnership writes the column, and that one
\* refuses the attempt.
THEOREM ReplacedAttemptsStayOut == Spec => SupersededStaysOut
  <1> DEFINE Step == \A r \in Message, a \in Attempt :
                       (claim[r][a] /\ run[r].owner # a) => run'[r].owner # a
  <1>1. Typed /\ [Next]_vars => Step
    <2> SUFFICES ASSUME Typed, [Next]_vars PROVE Step
      OBVIOUS
    <2>1. CASE \E r \in Message, a \in Attempt : ClaimExecution(r, a)
      BY <2>1, ClaimIsNew
    <2>2. CASE ~\E r \in Message, a \in Attempt : ClaimExecution(r, a)
      BY <2>2, OnlyClaimsMakeOwners, NoneAssumption DEF OwnersKept
    <2> QED BY <2>1, <2>2
  <1>2. Spec => [][Step]_vars
    <2> HIDE DEF Step
    <2> QED BY <1>1, AlwaysTyped, PTL DEF Spec
  <1> QED BY <1>2 DEF SupersededStaysOut

-----------------------------------------------------------------------------
(***************************************************************************)
(* What a run asks of a person, and what it may write: questions, the      *)
(* hosted browser, approvals and Git writes, and the attachments that come *)
(* with what the person sends.                                             *)
(***************************************************************************)

(***************************************************************************)
(* The inductive invariant.                                                *)
(***************************************************************************)
Stopped(r) == run[r].cancel \/ run[r].status \in {"failed", "cancelled"}

Asked(q)    == question[q].state = "pending"
Proposed(g) == gitop[g].approval = "pending"
Written(g)  == gitop[g].execution \in {"executing", "succeeded", "unknown"}

OneQuestion ==
  \A p, q \in Question : Asked(p) /\ Asked(q) /\ question[p].run = question[q].run => p = q

AskedByWaiting ==
  \A q \in Question : Asked(q) =>
    run[question[q].run].questionWait /\ ~Stopped(question[q].run)

OneProposal ==
  \A g, h \in GitOp : Proposed(g) /\ Proposed(h) /\ gitop[g].run = gitop[h].run => g = h

ProposedByWaiting ==
  \A g \in GitOp : Proposed(g) =>
    gitop[g].execution = "not_started" /\ run[gitop[g].run].approvalWait

OpenByRunning ==
  \A g \in GitOp : Undispatched(g) => ~Stopped(gitop[g].run)

\* What is asked is asked once, by a run that knows it waits and was not
\* stopped, and with the browser where the person can reach it.
Questions == OneQuestion /\ AskedByWaiting /\ HandoffMeansUser

\* The same of what is proposed, and what is written was approved.
Operations ==
  /\ OneProposal /\ ProposedByWaiting /\ OpenByRunning
  /\ ApprovalsAreCurrent /\ OneWrite /\ WrittenWasApproved

\* An empty database has asked nothing.
LEMMA InitRequests == Init => Questions /\ Operations
  BY DEF Init, Questions, OneQuestion, AskedByWaiting, HandoffMeansUser, Asked, NoQuestion,
     Operations, OneProposal, ProposedByWaiting, OpenByRunning, ApprovalsAreCurrent, OneWrite,
     WrittenWasApproved, Proposed, Undispatched, NoGitOp

(***************************************************************************)
(* Steps that leave a run as it is.                                        *)
(***************************************************************************)
\* Nothing that concerns r as an asking run becomes worse, but for its waits.
Stays(r) ==
  /\ run'[r].cancel \/ run'[r].status \in {"failed", "cancelled"} => Stopped(r)
  /\ run'[r].status \in ActiveStatus => IsActive(r)
  /\ message'[r].thread = ThreadOf(r)

\* A question that is pending belongs to a run.
LEMMA AskedByRun ==
  ASSUME Typed, NEW q \in Question, Asked(q)
  PROVE  question[q].run \in Message /\ run[question[q].run].status # "absent"
  BY DEF Typed, References, RowsHaveRun, NoQuestion, Asked

\* So does an operation that may still be dispatched.
LEMMA OpenByRun ==
  ASSUME Typed, NEW g \in GitOp, Undispatched(g)
  PROVE  gitop[g].run \in Message /\ run[gitop[g].run].status # "absent"
  BY DEF Typed, References, RowsHaveRun, NoGitOp, Undispatched

\* When questions are only withdrawn, and those that stay keep their run and
\* their browser, the questions stay in order.
LEMMA QuestionsKept ==
  ASSUME Typed, Questions,
         \A q \in Question : Asked(q)' =>
           /\ question'[q] = question[q]
           /\ Stays(question[q].run)
           /\ run'[question[q].run].questionWait = run[question[q].run].questionWait
           /\ thread'[ThreadOf(question[q].run)].browser = thread[ThreadOf(question[q].run)].browser
  PROVE  Questions'
  <1>1. \A q \in Question : Asked(q)' => Asked(q) /\ question'[q] = question[q]
    BY DEF Asked
  <1>2. OneQuestion'
    BY <1>1 DEF Questions, OneQuestion
  <1>3. AskedByWaiting'
    BY <1>1 DEF Questions, AskedByWaiting, Stays, Stopped
  <1>4. HandoffMeansUser'
    <2> SUFFICES ASSUME NEW q \in Question, Asked(q)', question'[q].handoff, IsActive(question[q].run)'
                 PROVE  thread'[ThreadOf(question[q].run)'].browser = "user"
      BY DEF HandoffMeansUser, Asked
    <2>1. question'[q] = question[q] /\ Asked(q) /\ Stays(question[q].run)
      BY <1>1
    <2>2. IsActive(question[q].run)
      BY <2>1 DEF Stays, IsActive
    <2>3. thread[ThreadOf(question[q].run)].browser = "user"
      BY <2>1, <2>2 DEF Questions, HandoffMeansUser, Asked
    <2> QED BY <2>1, <2>3 DEF Stays, ThreadOf
  <1> QED BY <1>2, <1>3, <1>4 DEF Questions

\* When operations are only withdrawn, and those that stay keep their run and
\* their workspace, the operations stay in order.
LEMMA OperationsKept ==
  ASSUME Typed, Operations,
         \A g \in GitOp :
           \/ gitop'[g] = NoGitOp
           \/ \E approval \in {"expired", "invalidated"} :
                Undispatched(g) /\ gitop'[g] = [gitop[g] EXCEPT !.approval = approval]
           \/ /\ gitop'[g] = gitop[g]
              /\ Undispatched(g) =>
                   /\ Stays(gitop[g].run)
                   /\ run'[gitop[g].run].approvalWait = run[gitop[g].run].approvalWait
                   /\ workspace'[ThreadOf(gitop[g].run)].generation
                        = workspace[ThreadOf(gitop[g].run)].generation
  PROVE  Operations'
  <1>1. \A g \in GitOp : gitop[g] \in GitRow
    BY DEF Typed, TypeOK
  <1>2. ASSUME NEW g \in GitOp
        PROVE  /\ Undispatched(g)' =>
                    /\ Undispatched(g) /\ gitop'[g] = gitop[g]
                    /\ Stays(gitop[g].run)
                    /\ run'[gitop[g].run].approvalWait = run[gitop[g].run].approvalWait
                    /\ workspace'[ThreadOf(gitop[g].run)].generation
                         = workspace[ThreadOf(gitop[g].run)].generation
               /\ Proposed(g)' => Proposed(g) /\ gitop'[g] = gitop[g]
               /\ (InFlightWrite(g)' => InFlightWrite(g)) /\ (Written(g)' => gitop'[g] = gitop[g])
    <2>1. CASE gitop'[g] = NoGitOp
      BY <2>1 DEF NoGitOp, Undispatched, Proposed, InFlightWrite, Written
    <2>2. ASSUME NEW approval \in {"expired", "invalidated"}, Undispatched(g),
                 gitop'[g] = [gitop[g] EXCEPT !.approval = approval]
          PROVE  ~Undispatched(g)' /\ ~Proposed(g)' /\ ~InFlightWrite(g)' /\ ~Written(g)'
      BY <1>1, <2>2 DEF GitRow, Undispatched, Proposed, InFlightWrite, Written
    <2>3. CASE /\ gitop'[g] = gitop[g]
               /\ Undispatched(g) =>
                    /\ Stays(gitop[g].run)
                    /\ run'[gitop[g].run].approvalWait = run[gitop[g].run].approvalWait
                    /\ workspace'[ThreadOf(gitop[g].run)].generation
                         = workspace[ThreadOf(gitop[g].run)].generation
      BY <2>3 DEF Undispatched, Proposed, InFlightWrite, Written, NoGitOp
    <2> QED BY <2>1, <2>2, <2>3
  <1>3. OneProposal'
    BY <1>2 DEF Operations, OneProposal
  <1>4. ProposedByWaiting'
    BY <1>2 DEF Operations, ProposedByWaiting, Undispatched, Proposed
  <1>5. OpenByRunning'
    BY <1>2 DEF Operations, OpenByRunning, Stays, Stopped
  <1>6. ApprovalsAreCurrent'
    BY <1>2 DEF Operations, ApprovalsAreCurrent, Stays, ThreadOf
  <1>7. OneWrite'
    BY <1>2 DEF Operations, OneWrite, InFlightWrite
  <1>8. WrittenWasApproved'
    BY <1>2 DEF Operations, WrittenWasApproved, Written
  <1> QED BY <1>3, <1>4, <1>5, <1>6, <1>7, <1>8 DEF Operations

(***************************************************************************)
(* What the transactions do to runs that exist.                            *)
(***************************************************************************)
Exists(r) == r \in Message /\ run[r].status # "absent"

\* r is as it was, the waits included.
Kept(r) ==
  /\ Stays(r)
  /\ run'[r].questionWait = run[r].questionWait
  /\ run'[r].approvalWait = run[r].approvalWait

\* Only a purge takes a run from its thread.
LEMMA RunsKeepThread ==
  ASSUME Typed, Lifecycle!Safe, NEW r \in Message, Exists(r),
         \/ SubmitNext \/ QueueNext \/ RunNext \/ SessionNext \/ QuestionNext
         \/ GitNext \/ CommandNext \/ WorkspaceNext \/ DispatchNext \/ UNCHANGED vars
  PROVE  message'[r].thread = ThreadOf(r)
  <1>1. [Lifecycle!WorkNext]_(Lifecycle!lifecycle)
    BY ThreadStaysSteps
  <1>2. \A m \in Message : Phase[m] # "absent" => Home'[m] = Home[m]
    BY <1>1, Lifecycle!WorkTakesNothing DEF Lifecycle!NothingIsTaken
  <1>3. Phase[r] # "absent"
    BY DEF Exists, Phase
  <1> QED BY <1>2, <1>3 DEF Home, ThreadOf

\* A run that starts did not exist.
LEMMA StartNextKeepsRuns ==
  ASSUME Typed, NEW t \in Thread, NEW m \in Message, NEW rn \in [Message -> RunRow],
         StartNext(t, m, rn)
  PROVE  /\ ~Exists(m)
         /\ \A r \in Message : Exists(r) => run'[r] = rn[r]
  <1>1. message[m].state = "pending"
    BY DEF StartNext, FirstPending, PendingMessages
  <1>2. run[m].status = "absent"
    BY <1>1 DEF Typed, References, StartedHasRun
  <1> QED BY <1>2 DEF StartNext, Exists

\* The end of a run is nobody else's; unless it was to be cancelled, it ends
\* without being stopped when it completes.
LEMMA EndRunKeepsRuns ==
  ASSUME Typed, NEW r \in Message, IsActive(r), NEW status \in {"completed", "failed"},
         EndRun(r, status)
  PROVE  /\ \A s \in Message \ {r} : Exists(s) => run'[s] = run[s]
         /\ \E x \in TerminalStatus :
              /\ run'[r] = [run[r] EXCEPT !.status = x]
              /\ run[r].cancel \/ x = status
  <1>1. run \in [Message -> RunRow] /\ Exists(r) /\ ThreadOf(r) \in Thread
    BY RunHasThread DEF Typed, TypeOK, IsActive, ActiveStatus, Exists
  <1>2. CASE run[r].cancel /\ run' = [run EXCEPT ![r].status = "cancelled"]
    BY <1>1, <1>2 DEF TerminalStatus
  <1>3. CASE ContinueQueue(ThreadOf(r), [run EXCEPT ![r].status = status])
    <2> DEFINE rn == [run EXCEPT ![r].status = status]
    <2>1. /\ rn \in [Message -> RunRow]
          /\ rn[r] = [run[r] EXCEPT !.status = status]
          /\ \A s \in Message \ {r} : rn[s] = run[s]
      BY <1>1, RunStatus DEF TerminalStatus
    <2>2. ContinueQueue(ThreadOf(r), rn)
      BY <1>3
    <2> HIDE DEF rn
    <2>3. \A s \in Message : Exists(s) => run'[s] = rn[s]
      <3>1. CASE \E m \in Message : StartNext(ThreadOf(r), m, rn)
        BY <1>1, <2>1, <3>1, StartNextKeepsRuns
      <3>2. CASE run' = rn
        BY <3>2
      <3> QED BY <2>2, <3>1, <3>2 DEF ContinueQueue
    <2> QED BY <1>1, <2>1, <2>3 DEF TerminalStatus
  <1> QED BY <1>2, <1>3 DEF EndRun

\* Transactions that neither withdraw nor ask leave every run as it was.
LEMMA QuietStepsKeepRuns ==
  ASSUME Typed, Lifecycle!Safe, NEW r \in Message, Exists(r),
         \/ SubmitNext \/ QueueNext \/ SessionNext \/ CommandNext \/ WorkspaceNext
         \/ DispatchNext \/ UNCHANGED vars \/ \E s \in Message : StartRun(s)
  PROVE  Kept(r)
  <1>1. message'[r].thread = ThreadOf(r)
    BY RunsKeepThread DEF RunNext
  <1>2. run \in [Message -> RunRow]
    BY DEF Typed, TypeOK
  <1>3. ASSUME run'[r] = run[r] PROVE Kept(r)
    BY <1>1, <1>3 DEF Kept, Stays, Stopped, IsActive
  <1>4. CASE SubmitNext
    <2>1. ASSUME NEW t, NEW m \in Message, NEW mode, NEW model, NEW A, SubmitRun(t, m, mode, model, A)
          PROVE  run'[r] = run[r]
      <3>1. run[m].status = "absent"
        BY <2>1 DEF SubmitRun, Acceptable, Typed, References, StartedHasRun
      <3> QED BY <2>1, <3>1 DEF SubmitRun, Exists
    <2>2. ASSUME NEW t, NEW m, NEW mode, NEW model, NEW A, SubmitPending(t, m, mode, model, A)
          PROVE  run'[r] = run[r]
      BY <2>2 DEF SubmitPending
    <2> QED BY <1>3, <1>4, <2>1, <2>2 DEF SubmitNext
  <1>5. CASE QueueNext
    <2>1. ASSUME NEW t \in Thread, NEW m \in Message, StartQueuedMessage(t, m)
          PROVE  run'[r] = run[r]
      BY <1>2, <2>1, StartNextKeepsRuns DEF StartQueuedMessage
    <2>2. ASSUME NEW t, NEW m, EditPending(t, m) \/ RemovePending(t, m)
          PROVE  run'[r] = run[r]
      BY <2>2 DEF EditPending, RemovePending
    <2> QED BY <1>3, <1>5, <2>1, <2>2 DEF QueueNext
  <1>6. CASE SessionNext
    <2> PICK s \in Message, a \in Attempt :
          \/ CheckWaits(s, a) \/ ClaimExecution(s, a) \/ OpenSession(s, a)
          \/ PollSteers(s, a) \/ SaveTurn(s, a) \/ ConsumeSteer(s, a) \/ CompleteRun(s, a)
      BY <1>6 DEF SessionNext
    <2>1. CASE CheckWaits(s, a) \/ OpenSession(s, a) \/ PollSteers(s, a)
      BY <1>3, <2>1 DEF CheckWaits, OpenSession, PollSteers
    <2>2. CASE SaveTurn(s, a) \/ ConsumeSteer(s, a)
      BY <1>3, <2>2 DEF SaveTurn, ConsumeSteer
    <2>3. CASE ClaimExecution(s, a)
      <3>1. run' = [run EXCEPT ![s] = [run[s] EXCEPT !.owner = a,
                                         !.generation = workspace[ThreadOf(s)].generation]]
        BY <1>2, <2>3 DEF ClaimExecution
      <3>2. /\ run'[r].status = run[r].status /\ run'[r].cancel = run[r].cancel
            /\ run'[r].questionWait = run[r].questionWait
            /\ run'[r].approvalWait = run[r].approvalWait
        BY <1>2, <3>1 DEF RunRow
      <3> QED BY <1>1, <3>2 DEF Kept, Stays, Stopped, IsActive
    <2>4. CASE CompleteRun(s, a)
      <3>1. IsActive(s) /\ EndRun(s, "completed")
        BY <2>4 DEF CompleteRun, MayComplete
      <3>2. CASE r = s
        <4>1. PICK x \in TerminalStatus : /\ run'[r] = [run[r] EXCEPT !.status = x]
                                          /\ run[r].cancel \/ x = "completed"
          BY <3>1, <3>2, EndRunKeepsRuns
        <4>2. /\ run'[r].status = x /\ run'[r].cancel = run[r].cancel
              /\ run'[r].questionWait = run[r].questionWait
              /\ run'[r].approvalWait = run[r].approvalWait
          BY <1>2, <4>1 DEF RunRow
        <4> QED BY <1>1, <4>1, <4>2 DEF Kept, Stays, Stopped, IsActive, ActiveStatus, TerminalStatus
      <3>3. CASE r # s
        BY <1>3, <3>1, <3>3, EndRunKeepsRuns
      <3> QED BY <3>2, <3>3
    <2> QED BY <2>1, <2>2, <2>3, <2>4
  <1>7. CASE CommandNext
    <2>1. ASSUME NEW c, NEW s, NEW a, NEW access, BeginCommand(c, s, a, access)
          PROVE  run'[r] = run[r]
      BY <2>1 DEF BeginCommand
    <2>2. ASSUME NEW c, AdmitCommand(c) \/ MarkRunning(c) \/ SettleCommand(c) \/ MarkUnknown(c)
          PROVE  run'[r] = run[r]
      BY <2>2 DEF AdmitCommand, MarkRunning, SettleCommand, MarkUnknown, UpdateCommand
    <2> QED BY <1>3, <1>7, <2>1, <2>2 DEF CommandNext
  <1>8. CASE WorkspaceNext
    BY <1>3, <1>8 DEF WorkspaceNext, CreateWorkspace, CancelTransition, RequestWake,
       UpdateWorkspace, BeginTransition, Cleanup, ResetWorkspace
  <1>9. CASE DispatchNext \/ UNCHANGED vars
    BY <1>3, <1>9 DEF DispatchNext, MarkDelivered, vars
  <1>10. CASE \E s \in Message : StartRun(s)
    <2> PICK s \in Message : StartRun(s)
      BY <1>10
    <2>1. run' = [run EXCEPT ![s] = [run[s] EXCEPT !.status = "running"]] /\ run[s].status = "queued"
      BY <1>2 DEF StartRun
    <2>2. CASE r = s
      <3>1. /\ run'[r].status = "running" /\ run'[r].cancel = run[r].cancel
            /\ run'[r].questionWait = run[r].questionWait
            /\ run'[r].approvalWait = run[r].approvalWait
        BY <1>2, <2>1, <2>2 DEF RunRow
      <3> QED BY <1>1, <2>1, <2>2, <3>1 DEF Kept, Stays, Stopped, IsActive, ActiveStatus
    <2>3. CASE r # s
      BY <1>2, <1>3, <2>1, <2>3
    <2> QED BY <2>2, <2>3
  <1> QED BY <1>4, <1>5, <1>6, <1>7, <1>8, <1>9, <1>10

(***************************************************************************)
(* Questions and the browser.                                              *)
(***************************************************************************)
Browsers == \A t \in Thread : thread'[t].browser = thread[t].browser

\* A step that asks nothing, hands the browser to nobody and keeps the runs.
LEMMA QuietQuestions ==
  ASSUME Typed, Questions, UNCHANGED question, Browsers,
         \A r \in Message : Exists(r) =>
           Stays(r) /\ run'[r].questionWait = run[r].questionWait
  PROVE  Questions'
  <1>1. ASSUME NEW q \in Question, Asked(q)'
        PROVE  /\ question'[q] = question[q]
               /\ Stays(question[q].run)
               /\ run'[question[q].run].questionWait = run[question[q].run].questionWait
               /\ thread'[ThreadOf(question[q].run)].browser = thread[ThreadOf(question[q].run)].browser
    <2>1. Asked(q)
      BY <1>1 DEF Asked
    <2>2. Exists(question[q].run) /\ ThreadOf(question[q].run) \in Thread
      BY <2>1, AskedByRun, RunHasThread DEF Exists
    <2> QED BY <2>2 DEF Browsers, Exists
  <1> QED BY <1>1, QuestionsKept

\* While r is the active run of its thread, a handoff of that thread is its own.
LEMMA HandoffIsOfActiveRun ==
  ASSUME Typed, OneActiveRun, NEW r \in Message, IsActive(r),
         NEW q \in Question, Asked(q), IsActive(question[q].run),
         ThreadOf(question[q].run) = ThreadOf(r)
  PROVE  question[q].run = r
  <1>1. question[q].run \in Message
    BY AskedByRun
  <1> QED BY <1>1 DEF OneActiveRun, AllActiveRuns

\* When the questions of the active run r go, and with a handoff the browser
\* goes back to the agent, the other questions stay in order.
LEMMA WithdrawnQuestions ==
  ASSUME Typed, Questions, OneActiveRun, NEW r \in Message, IsActive(r), CancelQuestions(r),
         \A s \in Message \ {r} : Exists(s) =>
           Stays(s) /\ run'[s].questionWait = run[s].questionWait
  PROVE  Questions'
  <1>1. ASSUME NEW q \in Question, Asked(q)'
        PROVE  Asked(q) /\ question[q].run # r /\ question'[q] = question[q]
    BY <1>1 DEF CancelQuestions, PendingQuestions, Asked, Typed, TypeOK, QuestionRow
  <1>2. ASSUME NEW q \in Question, Asked(q)', IsActive(question[q].run)
        PROVE  thread'[ThreadOf(question[q].run)] = thread[ThreadOf(question[q].run)]
    <2>1. ThreadOf(question[q].run) # ThreadOf(r)
      BY <1>1, <1>2, HandoffIsOfActiveRun
    <2>2. ThreadOf(question[q].run) \in Thread
      BY <1>1, <1>2, AskedByRun, RunHasThread
    <2> QED BY <2>1, <2>2 DEF CancelQuestions, Typed, TypeOK
  <1>3. OneQuestion'
    BY <1>1 DEF Questions, OneQuestion, Asked
  <1>4. \A q \in Question : Asked(q)' =>
          Stays(question[q].run) /\ run'[question[q].run].questionWait = run[question[q].run].questionWait
    BY <1>1, AskedByRun DEF Exists
  <1>5. AskedByWaiting'
    BY <1>1, <1>4 DEF Questions, AskedByWaiting, Stays, Stopped, Asked
  <1>6. HandoffMeansUser'
    <2> SUFFICES ASSUME NEW q \in Question, Asked(q)', question'[q].handoff, IsActive(question[q].run)'
                 PROVE  thread'[ThreadOf(question[q].run)'].browser = "user"
      BY DEF HandoffMeansUser, Asked
    <2>1. question'[q] = question[q] /\ Asked(q) /\ Stays(question[q].run)
      BY <1>1, <1>4
    <2>2. IsActive(question[q].run)
      BY <2>1 DEF Stays, IsActive
    <2>3. thread[ThreadOf(question[q].run)].browser = "user"
      BY <2>1, <2>2 DEF Questions, HandoffMeansUser, Asked
    <2> QED BY <1>2, <2>1, <2>2, <2>3 DEF Stays, ThreadOf
  <1> QED BY <1>3, <1>5, <1>6 DEF Questions

\* When an answerable question is answered and nothing else of it changes, the
\* others stay in order: a handoff of the same thread cannot be left behind.
LEMMA AnsweredQuestion ==
  ASSUME Typed, Questions, OneActiveRun, NEW q \in Question, Answerable(q), AnswerRow(q),
         UNCHANGED << message, run >>,
         \A t \in Thread : t # ThreadOf(question[q].run) => thread'[t] = thread[t]
  PROVE  Questions'
  <1>1. \A p \in Question \ {q} : question'[p] = question[p]
    BY DEF AnswerRow, Typed, TypeOK
  <1>2. ~Asked(q)'
    BY DEF AnswerRow, Asked, Typed, TypeOK, QuestionRow
  <1>3. question[q].run \in Message /\ IsActive(question[q].run) /\ Asked(q)
    BY AskedByRun DEF Answerable, Asked
  <1>4. OneQuestion' /\ AskedByWaiting'
    BY <1>1, <1>2 DEF Questions, OneQuestion, AskedByWaiting, Asked, Stopped
  <1>5. HandoffMeansUser'
    <2> SUFFICES ASSUME NEW p \in Question, Asked(p)', question'[p].handoff, IsActive(question[p].run)'
                 PROVE  thread'[ThreadOf(question[p].run)'].browser = "user"
      BY DEF HandoffMeansUser, Asked
    <2>1. p # q /\ question'[p] = question[p] /\ Asked(p) /\ IsActive(question[p].run)
      BY <1>1, <1>2 DEF Asked, IsActive
    <2>2. ThreadOf(question[p].run) # ThreadOf(question[q].run)
      <3>1. question[p].run # question[q].run
        BY <1>3, <2>1 DEF Questions, OneQuestion
      <3> QED BY <1>3, <2>1, <3>1, HandoffIsOfActiveRun
    <2>3. ThreadOf(question[p].run) \in Thread
      BY <2>1, AskedByRun, RunHasThread
    <2>4. thread[ThreadOf(question[p].run)].browser = "user"
      BY <2>1 DEF Questions, HandoffMeansUser, Asked
    <2> QED BY <2>1, <2>2, <2>3, <2>4 DEF ThreadOf
  <1> QED BY <1>4, <1>5 DEF Questions

\* A wait column says nothing of the rest of the row.
LEMMA WaitsKeepRuns ==
  ASSUME Typed, Lifecycle!Safe, QuestionNext \/ GitNext, NEW r \in Message, NEW s \in Message,
         Exists(s), NEW w \in BOOLEAN,
         \/ run' = [run EXCEPT ![r].questionWait = w]
         \/ run' = [run EXCEPT ![r].approvalWait = w]
         \/ run' = run
  PROVE  /\ Stays(s)
         /\ run' # [run EXCEPT ![r].questionWait = w] => run'[s].questionWait = run[s].questionWait
         /\ run' # [run EXCEPT ![r].approvalWait = w] => run'[s].approvalWait = run[s].approvalWait
         /\ s # r => run'[s] = run[s]
  <1>1. message'[s].thread = ThreadOf(s)
    BY RunsKeepThread
  <1>2. run \in [Message -> RunRow]
    BY DEF Typed, TypeOK
  <1>3. run'[s].status = run[s].status /\ run'[s].cancel = run[s].cancel
    BY <1>2 DEF RunRow
  <1>4. Stays(s)
    BY <1>1, <1>3 DEF Stays, Stopped, IsActive
  <1>5. run' # [run EXCEPT ![r].questionWait = w] => run'[s].questionWait = run[s].questionWait
    BY <1>2 DEF RunRow
  <1>6. run' # [run EXCEPT ![r].approvalWait = w] => run'[s].approvalWait = run[s].approvalWait
    BY <1>2 DEF RunRow
  <1> QED BY <1>2, <1>4, <1>5, <1>6

\* A run asks when it waits for nothing, and knows then that it waits.
LEMMA PublishQuestionKeeps ==
  ASSUME Typed, Lifecycle!Safe, Questions, QuestionNext,
         NEW r \in Message, NEW a \in Attempt, NEW q \in Question, NEW handoff \in BOOLEAN,
         PublishQuestion(r, a, q, handoff)
  PROVE  Questions'
  <1>1. /\ run' = [run EXCEPT ![r].questionWait = TRUE]
        /\ IsActive(r) /\ ~run[r].cancel /\ ~run[r].questionWait
        /\ question' = [question EXCEPT ![q] = [state |-> "pending", run |-> r, handoff |-> handoff]]
        /\ UNCHANGED message
    BY DEF PublishQuestion, MayPublish, Waiting
  <1>2. run'[r].questionWait /\ run'[r].status = run[r].status /\ run'[r].cancel = run[r].cancel
    BY <1>1 DEF Typed, TypeOK, RunRow
  <1>3. /\ question'[q].run = r /\ question'[q].handoff = handoff
        /\ \A p \in Question \ {q} : question'[p] = question[p]
    BY <1>1 DEF Typed, TypeOK
  <1>4. ASSUME NEW p \in Question \ {q}, Asked(p)'
        PROVE  Asked(p) /\ question[p].run \in Message \ {r} /\ run'[question[p].run] = run[question[p].run]
    <2>1. Asked(p) /\ question[p].run \in Message
      BY <1>3, <1>4, AskedByRun DEF Asked
    <2>2. question[p].run # r
      BY <1>1, <2>1 DEF Questions, AskedByWaiting
    <2> QED BY <1>1, <2>1, <2>2 DEF Typed, TypeOK
  <1>5. OneQuestion'
    BY <1>3, <1>4 DEF Questions, OneQuestion, Asked
  <1>6. ~(run'[r].cancel \/ run'[r].status \in {"failed", "cancelled"})
    BY <1>1, <1>2 DEF IsActive, ActiveStatus
  <1>7. AskedByWaiting'
    BY <1>2, <1>3, <1>4, <1>6 DEF Questions, AskedByWaiting, Asked, Stopped
  <1>8. \A t \in Thread : thread[t].browser = "user" => thread'[t].browser = "user"
    <2>1. thread \in [Thread -> ThreadRow]
      BY DEF Typed, TypeOK
    <2>2. thread' = thread \/ thread' = [thread EXCEPT ![ThreadOf(r)].browser = "user"]
      BY DEF PublishQuestion, BrowserTo
    <2> QED BY <2>1, <2>2 DEF ThreadRow
  <1>9. handoff => thread'[ThreadOf(r)].browser = "user"
    <2>1. ThreadOf(r) \in Thread
      BY <1>1, RunHasThread DEF IsActive, ActiveStatus
    <2> QED BY <2>1 DEF PublishQuestion, BrowserTo, Typed, TypeOK, ThreadRow
  <1>10. HandoffMeansUser'
    <2> SUFFICES ASSUME NEW p \in Question, Asked(p)', question'[p].handoff, IsActive(question[p].run)'
                 PROVE  thread'[ThreadOf(question[p].run)'].browser = "user"
      BY DEF HandoffMeansUser, Asked
    <2>1. CASE p = q
      BY <1>1, <1>3, <1>9, <2>1 DEF ThreadOf
    <2>2. CASE p # q
      <3>1. question'[p] = question[p] /\ Asked(p) /\ IsActive(question[p].run)
        BY <1>3, <1>4, <2>2 DEF IsActive
      <3>2. thread[ThreadOf(question[p].run)].browser = "user"
        BY <3>1 DEF Questions, HandoffMeansUser, Asked
      <3>3. ThreadOf(question[p].run) \in Thread
        BY <3>1, AskedByRun, RunHasThread
      <3> QED BY <1>1, <1>8, <3>1, <3>2, <3>3 DEF ThreadOf
    <2> QED BY <2>1, <2>2
  <1> QED BY <1>5, <1>7, <1>10 DEF Questions

\* Every transaction on questions and the browser keeps the questions in order.
LEMMA QuestionStepsKeepQuestions ==
  ASSUME Typed, Lifecycle!Safe, OneActiveRun, Questions, QuestionNext
  PROVE  Questions'
  <1>1. ASSUME NEW r \in Message, NEW a \in Attempt, NEW q \in Question, NEW handoff \in BOOLEAN,
               PublishQuestion(r, a, q, handoff)
        PROVE  Questions'
    BY <1>1, PublishQuestionKeeps
  <1>2. ASSUME NEW q \in Question, Answer(q)
        PROVE  Questions'
    <2>1. \A t \in Thread : t # ThreadOf(question[q].run) => thread'[t] = thread[t]
      BY <1>2 DEF Answer, BrowserTo, Typed, TypeOK
    <2> QED BY <1>2, <2>1, AnsweredQuestion DEF Answer
  <1>3. ASSUME NEW r \in Message, ResumeQuestions(r)
        PROVE  Questions'
    <2>1. run' = [run EXCEPT ![r].questionWait = FALSE]
      BY <1>3 DEF ResumeQuestions
    <2>2. ASSUME NEW q \in Question, Asked(q)'
          PROVE  /\ question'[q] = question[q]
                 /\ Stays(question[q].run)
                 /\ run'[question[q].run].questionWait = run[question[q].run].questionWait
                 /\ thread'[ThreadOf(question[q].run)].browser
                      = thread[ThreadOf(question[q].run)].browser
      <3>1. question' = question /\ thread' = thread /\ OpenQuestions(r) = {}
        BY <1>3 DEF ResumeQuestions
      <3>2. Asked(q) /\ Exists(question[q].run) /\ question[q].run # r
        BY <2>2, <3>1, AskedByRun DEF OpenQuestions, Asked, Exists
      <3>3. Stays(question[q].run) /\ run'[question[q].run] = run[question[q].run]
        BY <2>1, <3>2, WaitsKeepRuns DEF Exists
      <3> QED BY <3>1, <3>3
    <2> QED BY <2>2, QuestionsKept
  <1>4. ASSUME NEW t \in Thread, TakeBrowser(t)
        PROVE  Questions'
    <2>1. UNCHANGED << question, message, run >>
      BY <1>4 DEF TakeBrowser
    <2>2. \A s \in Thread : thread[s].browser = "user" => thread'[s].browser = "user"
      BY <1>4 DEF TakeBrowser, BrowserTo, Typed, TypeOK, ThreadRow
    <2>3. OneQuestion' /\ AskedByWaiting'
      BY <2>1 DEF Questions, OneQuestion, AskedByWaiting, Asked, Stopped
    <2>4. \A q \in Question : question[q].state = "pending" => ThreadOf(question[q].run) \in Thread
      BY AskedByRun, RunHasThread DEF Asked
    <2>5. HandoffMeansUser'
      BY <2>1, <2>2, <2>4 DEF Questions, HandoffMeansUser, IsActive, ThreadOf
    <2> QED BY <2>3, <2>5 DEF Questions
  <1>5. ASSUME NEW t \in Thread, HandBack(t)
        PROVE  Questions'
    <2>1. \A s \in Thread : s # t => thread'[s] = thread[s]
      BY <1>5 DEF HandBack, BrowserTo, Typed, TypeOK
    <2>2. UNCHANGED << message, run >>
      BY <1>5 DEF HandBack
    <2>3. ASSUME NEW q \in Handoffs(t), Answerable(q), AnswerRow(q)
          PROVE  Questions'
      BY <2>1, <2>2, <2>3, AnsweredQuestion DEF Handoffs
    <2>4. CASE Handoffs(t) = {} /\ UNCHANGED question
      <3>1. OneQuestion' /\ AskedByWaiting'
        BY <2>2, <2>4 DEF Questions, OneQuestion, AskedByWaiting, Asked, Stopped
      <3>2. \A q \in Question : question[q].state = "pending" /\ question[q].handoff =>
              ThreadOf(question[q].run) \in Thread \ {t}
        BY <2>4, AskedByRun, RunHasThread DEF Asked, Handoffs
      <3>3. HandoffMeansUser'
        BY <2>1, <2>2, <2>4, <3>2 DEF Questions, HandoffMeansUser, IsActive, ThreadOf
      <3> QED BY <3>1, <3>3 DEF Questions
    <2> QED BY <1>5, <2>3, <2>4 DEF HandBack
  <1> QED BY <1>1, <1>2, <1>3, <1>4, <1>5 DEF QuestionNext

\* Every other transaction does so too.
LEMMA OtherStepsKeepQuestions ==
  ASSUME Typed, Lifecycle!Safe, OneActiveRun, Questions,
         \/ SubmitNext \/ QueueNext \/ RunNext \/ SessionNext \/ GitNext
         \/ CommandNext \/ WorkspaceNext \/ DispatchNext \/ DeletionNext \/ UNCHANGED vars
  PROVE  Questions'
  <1>1. ASSUME NEW r \in Message, RequestCancel(r)
        PROVE  Questions'
    <2>1. RunNext /\ IsActive(r) /\ CancelQuestions(r)
      BY <1>1 DEF RunNext, RequestCancel
    <2>2. ASSUME NEW s \in Message \ {r}, Exists(s)
          PROVE  Stays(s) /\ run'[s].questionWait = run[s].questionWait
      <3>1. message'[s].thread = ThreadOf(s)
        BY <2>1, <2>2, RunsKeepThread
      <3>2. run'[s] = run[s]
        BY <1>1, <2>2 DEF RequestCancel, Typed, TypeOK
      <3> QED BY <3>1, <3>2 DEF Stays, Stopped, IsActive
    <2> QED BY <2>1, <2>2, WithdrawnQuestions
  <1>2. ASSUME NEW r \in Message, FinishRun(r)
        PROVE  Questions'
    <2>1. RunNext /\ IsActive(r) /\ CancelQuestions(r) /\ EndRun(r, "failed")
      BY <1>2 DEF RunNext, FinishRun
    <2>2. ASSUME NEW s \in Message \ {r}, Exists(s)
          PROVE  Stays(s) /\ run'[s].questionWait = run[s].questionWait
      <3>1. message'[s].thread = ThreadOf(s)
        BY <2>1, <2>2, RunsKeepThread
      <3>2. run'[s] = run[s]
        BY <2>1, <2>2, EndRunKeepsRuns
      <3> QED BY <3>1, <3>2 DEF Stays, Stopped, IsActive
    <2> QED BY <2>1, <2>2, WithdrawnQuestions
  <1>3. ASSUME UNCHANGED question, Browsers,
               \/ SubmitNext \/ QueueNext \/ SessionNext \/ CommandNext \/ WorkspaceNext
               \/ DispatchNext \/ UNCHANGED vars \/ \E s \in Message : StartRun(s)
        PROVE  Questions'
    <2>1. \A r \in Message : Exists(r) => Kept(r)
      BY <1>3, QuietStepsKeepRuns
    <2> QED BY <1>3, <2>1, QuietQuestions DEF Kept
  <1>4. CASE SubmitNext
    <2>1. ASSUME NEW t \in Thread, NEW m, NEW mode, NEW model, NEW A, SubmitRun(t, m, mode, model, A)
          PROVE  UNCHANGED question /\ Browsers
      BY <2>1 DEF SubmitRun, Browsers, Typed, TypeOK, ThreadRow
    <2>2. ASSUME NEW t, NEW m, NEW mode, NEW model, NEW A, SubmitPending(t, m, mode, model, A)
          PROVE  UNCHANGED question /\ Browsers
      BY <2>2 DEF SubmitPending, Browsers
    <2> QED BY <1>3, <1>4, <2>1, <2>2 DEF SubmitNext
  <1>5. CASE QueueNext
    <2>1. UNCHANGED << question, thread >>
      BY <1>5 DEF QueueNext, StartQueuedMessage, EditPending, RemovePending
    <2> QED BY <1>3, <1>5, <2>1 DEF Browsers
  <1>6. CASE SessionNext
    <2>1. UNCHANGED << question, thread >>
      <3> PICK r \in Message, a \in Attempt :
            \/ CheckWaits(r, a) \/ ClaimExecution(r, a) \/ OpenSession(r, a)
            \/ PollSteers(r, a) \/ SaveTurn(r, a) \/ ConsumeSteer(r, a) \/ CompleteRun(r, a)
        BY <1>6 DEF SessionNext
      <3> QED BY DEF CheckWaits, ClaimExecution, OpenSession, PollSteers, SaveTurn, ConsumeSteer,
            CompleteRun
    <2> QED BY <1>3, <1>6, <2>1 DEF Browsers
  <1>7. CASE GitNext
    <2>1. UNCHANGED << question, thread >>
      BY <1>7 DEF GitNext, PublishProposal, Lapse, RejectWrite, Decide, ClaimWrite, FinishWrite,
         ExpireApprovals, ResumeApproval
    <2>2. ASSUME NEW s \in Message, Exists(s)
          PROVE  Stays(s) /\ run'[s].questionWait = run[s].questionWait
      <3>1. PICK r \in Message, w \in BOOLEAN :
              run' = [run EXCEPT ![r].approvalWait = w] \/ run' = run
        BY <1>7, <2>2 DEF GitNext, PublishProposal, Lapse, RejectWrite, Decide, ClaimWrite,
           FinishWrite, ExpireApprovals, ResumeApproval
      <3>2. run'[s].questionWait = run[s].questionWait
        <4>1. run \in [Message -> RunRow]
          BY DEF Typed, TypeOK
        <4> QED BY <3>1, <4>1 DEF RunRow
      <3> QED BY <1>7, <2>2, <3>1, <3>2, WaitsKeepRuns
    <2> QED BY <2>1, <2>2, QuietQuestions DEF Browsers
  <1>8. CASE CommandNext \/ WorkspaceNext \/ DispatchNext \/ UNCHANGED vars
    <2>1. CASE CommandNext
      <3>1. ASSUME NEW c, NEW r, NEW a, NEW access, BeginCommand(c, r, a, access)
            PROVE  UNCHANGED << question, thread >>
        BY <3>1 DEF BeginCommand
      <3>2. ASSUME NEW c, AdmitCommand(c) \/ MarkRunning(c) \/ SettleCommand(c) \/ MarkUnknown(c)
            PROVE  UNCHANGED << question, thread >>
        BY <3>2 DEF AdmitCommand, MarkRunning, SettleCommand, MarkUnknown, UpdateCommand
      <3>3. UNCHANGED << question, thread >>
        BY <2>1, <3>1, <3>2 DEF CommandNext
      <3> QED BY <1>3, <2>1, <3>3 DEF Browsers
    <2>2. CASE WorkspaceNext
      <3>1. UNCHANGED << question, thread >>
        BY <2>2 DEF WorkspaceNext, CreateWorkspace, CancelTransition, RequestWake, UpdateWorkspace,
           BeginTransition, Cleanup, ResetWorkspace
      <3> QED BY <1>3, <2>2, <3>1 DEF Browsers
    <2>3. CASE DispatchNext \/ UNCHANGED vars
      <3>1. UNCHANGED << question, thread >>
        BY <2>3 DEF DispatchNext, MarkDelivered, vars
      <3> QED BY <1>3, <2>3, <3>1 DEF Browsers
    <2> QED BY <1>8, <2>1, <2>2, <2>3
  <1>9. CASE DeletionNext
    <2> PICK t \in Thread : DeleteThread(t) \/ PurgeThread(t)
      BY <1>9 DEF DeletionNext
    <2>1. CASE DeleteThread(t)
      <3>1. UNCHANGED << question, run, message >> /\ Browsers
        BY <2>1 DEF DeleteThread, Browsers, Typed, TypeOK, ThreadRow
      <3>2. \A r \in Message : Stays(r)
        BY <3>1 DEF Stays, Stopped, IsActive, ThreadOf
      <3> QED BY <3>1, <3>2, QuietQuestions
    <2>2. CASE PurgeThread(t)
      <3>1. ASSUME NEW q \in Question, Asked(q)'
            PROVE  question'[q] = question[q] /\ Exists(question[q].run) /\ ThreadOf(question[q].run) # t
        <4>1. question'[q] = question[q] /\ (question[q].run \in Message => ThreadOf(question[q].run) # t)
          BY <2>2, <3>1 DEF PurgeThread, NoQuestion, Asked, ThreadOf
        <4> QED BY <3>1, <4>1, AskedByRun DEF Asked, Exists
      <3>2. ASSUME NEW r \in Message, Exists(r), ThreadOf(r) # t
            PROVE  Kept(r) /\ thread'[ThreadOf(r)] = thread[ThreadOf(r)]
        <4>1. run'[r] = run[r] /\ message'[r] = message[r]
          BY <2>2, <3>2 DEF PurgeThread, ThreadOf
        <4>2. thread'[ThreadOf(r)] = thread[ThreadOf(r)]
          BY <2>2, <3>2 DEF PurgeThread, Typed, TypeOK
        <4> QED BY <4>1, <4>2 DEF Kept, Stays, Stopped, IsActive, ThreadOf
      <3> QED BY <3>1, <3>2, QuestionsKept DEF Kept, Exists
    <2> QED BY <2>1, <2>2
  <1>10. CASE RunNext
    <2>1. ASSUME NEW s \in Message, StartRun(s)
          PROVE  UNCHANGED << question, thread >>
      BY <2>1 DEF StartRun
    <2> QED BY <1>1, <1>2, <1>3, <1>10, <2>1 DEF RunNext, Browsers
  <1> QED BY <1>4, <1>5, <1>6, <1>7, <1>8, <1>9, <1>10

(***************************************************************************)
(* Approvals and writes.                                                   *)
(***************************************************************************)
\* Withdrawing the approvals of the runs in R withdraws every one that could
\* still be dispatched, and touches no other row.
LEMMA InvalidatedRows ==
  ASSUME Typed, NEW R, InvalidateApprovals(R), NEW g \in GitOp
  PROVE  IF gitop[g].run \in R /\ Undispatched(g)
         THEN gitop'[g] = [gitop[g] EXCEPT !.approval = "invalidated"]
         ELSE gitop'[g] = gitop[g]
  BY DEF InvalidateApprovals, Undispatched

\* A step that leaves Git rows, generations and runs alone.
LEMMA QuietOperations ==
  ASSUME Typed, Operations, UNCHANGED gitop,
         \A t \in Thread : workspace'[t].generation = workspace[t].generation,
         \A r \in Message : Exists(r) =>
           Stays(r) /\ run'[r].approvalWait = run[r].approvalWait
  PROVE  Operations'
  <1>1. ASSUME NEW g \in GitOp, Undispatched(g)
        PROVE  Exists(gitop[g].run) /\ ThreadOf(gitop[g].run) \in Thread
    BY <1>1, OpenByRun, RunHasThread DEF Exists
  <1> QED BY <1>1, OperationsKept DEF Exists

\* A run that stops withdraws what could still be dispatched.
LEMMA WithdrawnOperations ==
  ASSUME Typed, Operations, NEW r \in Message, InvalidateApprovals({r}), UNCHANGED workspace,
         \A s \in Message \ {r} : Exists(s) =>
           Stays(s) /\ run'[s].approvalWait = run[s].approvalWait
  PROVE  Operations'
  <1>1. ASSUME NEW g \in GitOp, ~(gitop[g].run = r /\ Undispatched(g))
        PROVE  /\ gitop'[g] = gitop[g]
               /\ Undispatched(g) => /\ Stays(gitop[g].run)
                                     /\ run'[gitop[g].run].approvalWait = run[gitop[g].run].approvalWait
    <2>1. gitop'[g] = gitop[g]
      <3>1. ~(gitop[g].run \in {r} /\ Undispatched(g))
        BY <1>1
      <3> QED BY <3>1, InvalidatedRows
    <2>2. Undispatched(g) => Exists(gitop[g].run) /\ gitop[g].run \in Message \ {r}
      BY <1>1, OpenByRun DEF Exists
    <2> QED BY <2>1, <2>2
  <1>2. ASSUME NEW g \in GitOp, gitop[g].run = r /\ Undispatched(g)
        PROVE  gitop'[g] = [gitop[g] EXCEPT !.approval = "invalidated"]
    BY <1>2, InvalidatedRows
  <1> QED BY <1>1, <1>2, OperationsKept

\* One row changes and opens nothing that was closed.
LEMMA OneOperation ==
  ASSUME Typed, Operations, NEW g \in GitOp, NEW row \in GitRow,
         gitop' = [gitop EXCEPT ![g] = row], UNCHANGED << run, message, workspace >>,
         row.run = gitop[g].run, row.generation = gitop[g].generation,
         row.approval \in {"pending", "approved"} /\ row.execution = "not_started" => Undispatched(g),
         row.approval = "pending" => gitop[g].approval = "pending" /\ row.execution = "not_started",
         row.execution \in {"executing", "unknown"} => InFlightWrite(g) \/ Unsettled = {},
         row.execution \in {"executing", "succeeded", "unknown"} => row.approval = "approved"
  PROVE  Operations'
  <1>1. gitop'[g] = row /\ \A h \in GitOp \ {g} : gitop'[h] = gitop[h]
    BY DEF Typed, TypeOK
  <1> HIDE DEF Typed
  <1>2. OneProposal'
    BY <1>1 DEF Operations, OneProposal, Proposed
  <1>3. ProposedByWaiting'
    BY <1>1 DEF Operations, ProposedByWaiting, Proposed
  <1>4. OpenByRunning'
    BY <1>1 DEF Operations, OpenByRunning, Undispatched, Stopped
  <1>5. ApprovalsAreCurrent'
    BY <1>1 DEF Operations, ApprovalsAreCurrent, Undispatched, ThreadOf
  <1>6. OneWrite'
    BY <1>1 DEF Operations, OneWrite, InFlightWrite, Unsettled
  <1>7. WrittenWasApproved'
    BY <1>1 DEF Operations, WrittenWasApproved
  <1> QED BY <1>2, <1>3, <1>4, <1>5, <1>6, <1>7 DEF Operations

\* A proposal is a run's only one, and is made for the workspace of now.
LEMMA PublishProposalKeeps ==
  ASSUME Typed, Lifecycle!Safe, Operations, GitNext,
         NEW r \in Message, NEW a \in Attempt, NEW g \in GitOp, PublishProposal(r, a, g)
  PROVE  Operations'
  <1> DEFINE row == [NoGitOp EXCEPT !.approval = "pending", !.run = r,
                                    !.generation = workspace[ThreadOf(r)].generation]
  <1>1. /\ run' = [run EXCEPT ![r].approvalWait = TRUE]
        /\ IsActive(r) /\ ~run[r].cancel /\ ~run[r].approvalWait
        /\ gitop' = [gitop EXCEPT ![g] = row]
        /\ UNCHANGED << message, workspace >>
    BY DEF PublishProposal, MayPublish
  <1>2. row.run = r /\ row.approval = "pending" /\ row.execution = "not_started"
        /\ row.generation = workspace[ThreadOf(r)].generation
    BY DEF NoGitOp
  <1> HIDE DEF row
  <1>3. gitop'[g] = row /\ \A h \in GitOp \ {g} : gitop'[h] = gitop[h]
    BY <1>1 DEF Typed, TypeOK
  <1>4. /\ run'[r].approvalWait /\ run'[r].status = run[r].status /\ run'[r].cancel = run[r].cancel
        /\ \A s \in Message \ {r} : run'[s] = run[s]
    BY <1>1 DEF Typed, TypeOK, RunRow
  <1>5. ASSUME NEW h \in GitOp \ {g}, Proposed(h)'
        PROVE  Proposed(h) /\ gitop[h].run # r /\ gitop[h].run \in Message
    <2>1. Proposed(h)
      BY <1>3, <1>5 DEF Proposed
    <2> QED BY <1>1, <2>1, OperationHasRun DEF Operations, ProposedByWaiting, Proposed
  <1>6. ~(run'[r].cancel \/ run'[r].status \in {"failed", "cancelled"})
    BY <1>1, <1>4 DEF IsActive, ActiveStatus
  <1>7. OneProposal'
    BY <1>2, <1>3, <1>5 DEF Operations, OneProposal, Proposed
  <1>8. ProposedByWaiting'
    BY <1>2, <1>3, <1>4, <1>5 DEF Operations, ProposedByWaiting, Proposed
  <1>9. OpenByRunning'
    <2> SUFFICES ASSUME NEW h \in GitOp, Undispatched(h)'
                 PROVE  ~(run'[gitop'[h].run].cancel \/ run'[gitop'[h].run].status \in {"failed", "cancelled"})
      BY DEF OpenByRunning, Stopped
    <2>1. CASE h = g \/ gitop[h].run = r
      BY <1>2, <1>3, <1>6, <2>1
    <2>2. CASE h # g /\ gitop[h].run # r
      <3>1. Undispatched(h) /\ gitop'[h] = gitop[h]
        BY <1>3, <2>2 DEF Undispatched
      <3>2. gitop[h].run \in Message
        BY <3>1, OpenByRun
      <3> QED BY <1>4, <2>2, <3>1, <3>2 DEF Operations, OpenByRunning, Stopped
    <2> QED BY <2>1, <2>2
  <1>10. ApprovalsAreCurrent'
    BY <1>1, <1>2, <1>3 DEF Operations, ApprovalsAreCurrent, Undispatched, ThreadOf
  <1>11. OneWrite'
    BY <1>2, <1>3 DEF Operations, OneWrite
  <1>12. WrittenWasApproved'
    BY <1>2, <1>3 DEF Operations, WrittenWasApproved
  <1> QED BY <1>7, <1>8, <1>9, <1>10, <1>11, <1>12 DEF Operations

\* Every transaction on Git operations keeps them in order.
LEMMA GitStepsKeepOperations ==
  ASSUME Typed, Lifecycle!Safe, Operations, GitNext
  PROVE  Operations'
  <1>1. gitop \in [GitOp -> GitRow]
    BY DEF Typed, TypeOK
  <1>2. ASSUME NEW r \in Message, NEW a \in Attempt, NEW g \in GitOp, PublishProposal(r, a, g)
        PROVE  Operations'
    BY <1>2, PublishProposalKeeps
  <1>3. ASSUME NEW g \in GitOp, Lapse(g)
        PROVE  Operations'
    <2> DEFINE row == [gitop[g] EXCEPT !.lapsed = TRUE]
    <2>1. /\ row \in GitRow
          /\ row.run = gitop[g].run /\ row.generation = gitop[g].generation
          /\ row.approval = gitop[g].approval /\ row.execution = gitop[g].execution
      BY <1>1 DEF GitRow
    <2>2. gitop' = [gitop EXCEPT ![g] = row] /\ UNCHANGED << run, message, workspace >>
      BY <1>3 DEF Lapse
    <2> HIDE DEF row
    <2>3. Operations => /\ gitop[g].approval = "pending" => gitop[g].execution = "not_started"
                        /\ Written(g) => gitop[g].approval = "approved"
      BY DEF Operations, ProposedByWaiting, WrittenWasApproved, Proposed, Written
    <2> QED BY <2>1, <2>2, <2>3, OneOperation DEF Undispatched, InFlightWrite, Written
  <1>4. ASSUME NEW g \in GitOp, RejectWrite(g)
        PROVE  Operations'
    <2> DEFINE row == [gitop[g] EXCEPT !.execution = "failed"]
    <2>1. /\ row \in GitRow
          /\ row.run = gitop[g].run /\ row.generation = gitop[g].generation
          /\ row.approval = gitop[g].approval /\ row.execution = "failed"
      BY <1>1 DEF GitRow
    <2>2. /\ gitop' = [gitop EXCEPT ![g] = row] /\ UNCHANGED << run, message, workspace >>
          /\ gitop[g].approval # "pending"
      BY <1>4 DEF RejectWrite
    <2> HIDE DEF row
    <2> QED BY <2>1, <2>2, OneOperation
  <1>5. ASSUME NEW g \in GitOp, NEW d \in {"approved", "rejected"}, Decide(g, d)
        PROVE  Operations'
    <2> DEFINE row == [gitop[g] EXCEPT !.approval = d]
    <2>1. /\ row \in GitRow
          /\ row.run = gitop[g].run /\ row.generation = gitop[g].generation
          /\ row.approval = d /\ row.execution = gitop[g].execution
      BY <1>1 DEF GitRow
    <2>2. gitop' = [gitop EXCEPT ![g] = row] /\ UNCHANGED << run, message, workspace >>
      BY <1>5 DEF Decide
    <2> HIDE DEF row
    <2>3. gitop[g].approval = "pending" /\ gitop[g].execution = "not_started"
      BY <1>5 DEF Decide, Operations, ProposedByWaiting, Proposed
    <2> QED BY <2>1, <2>2, <2>3, OneOperation DEF Undispatched
  <1>6. ASSUME NEW g \in GitOp, NEW a \in Attempt, ClaimWrite(g, a)
        PROVE  Operations'
    <2> DEFINE row == [gitop[g] EXCEPT !.execution = "executing"]
    <2>1. /\ row \in GitRow
          /\ row.run = gitop[g].run /\ row.generation = gitop[g].generation
          /\ row.approval = gitop[g].approval /\ row.execution = "executing"
      BY <1>1 DEF GitRow
    <2>2. /\ gitop' = [gitop EXCEPT ![g] = row] /\ UNCHANGED << run, message, workspace >>
          /\ gitop[g].approval = "approved" /\ Unsettled = {}
      BY <1>6 DEF ClaimWrite
    <2> HIDE DEF row
    <2> QED BY <2>1, <2>2, OneOperation
  <1>7. ASSUME NEW g \in GitOp, NEW x \in {"succeeded", "failed", "unknown"}, FinishWrite(g, x)
        PROVE  Operations'
    <2> DEFINE row == [gitop[g] EXCEPT !.execution = x]
    <2>1. /\ row \in GitRow
          /\ row.run = gitop[g].run /\ row.generation = gitop[g].generation
          /\ row.approval = gitop[g].approval /\ row.execution = x
      BY <1>1 DEF GitRow
    <2>2. gitop' = [gitop EXCEPT ![g] = row] /\ UNCHANGED << run, message, workspace >>
      BY <1>7 DEF FinishWrite
    <2> HIDE DEF row
    <2>3. InFlightWrite(g) /\ gitop[g].approval = "approved"
      BY <1>7 DEF FinishWrite, InFlightWrite, Operations, WrittenWasApproved
    <2> QED BY <2>1, <2>2, <2>3, OneOperation
  <1>8. ASSUME NEW r \in Message, ExpireApprovals(r)
        PROVE  Operations'
    <2>1. UNCHANGED << run, message, workspace >>
      BY <1>8 DEF ExpireApprovals
    <2>2. \A s \in Message : Stays(s)
      BY <2>1 DEF Stays, Stopped, IsActive, ThreadOf
    <2>3. ASSUME NEW g \in GitOp
          PROVE  IF g \in Due(r)
                 THEN Undispatched(g) /\ \E approval \in {"expired", "invalidated"} :
                        gitop'[g] = [gitop[g] EXCEPT !.approval = approval]
                 ELSE gitop'[g] = gitop[g]
      BY <1>8 DEF ExpireApprovals, Due
    <2>4. \A g \in GitOp : Undispatched(g) => gitop[g].run \in Message
      BY OpenByRun
    <2> QED BY <2>1, <2>2, <2>3, <2>4, OperationsKept
  <1>9. ASSUME NEW r \in Message, ResumeApproval(r)
        PROVE  Operations'
    <2>1. /\ run' = [run EXCEPT ![r].approvalWait = FALSE]
          /\ UNCHANGED << gitop, message, workspace >>
          /\ \A g \in OpsOf(r) : ~Proposed(g)
      BY <1>9 DEF ResumeApproval, Proposed
    <2>2. ASSUME NEW s \in Message
          PROVE  run'[s].status = run[s].status /\ run'[s].cancel = run[s].cancel
      BY <2>1 DEF Typed, TypeOK, RunRow
    <2>3. \A s \in Message \ {r} : run'[s] = run[s]
      BY <2>1 DEF Typed, TypeOK
    <2>4. ProposedByWaiting'
      BY <2>1, <2>3, OperationHasRun DEF Operations, ProposedByWaiting, Proposed, OpsOf
    <2>5. OpenByRunning'
      BY <2>1, <2>2, OpenByRun DEF Operations, OpenByRunning, Undispatched, Stopped
    <2>6. OneProposal' /\ ApprovalsAreCurrent' /\ OneWrite' /\ WrittenWasApproved'
      BY <2>1 DEF Operations, OneProposal, ApprovalsAreCurrent, OneWrite, WrittenWasApproved,
         Proposed, Undispatched, ThreadOf
    <2> QED BY <2>4, <2>5, <2>6 DEF Operations
  <1> QED BY <1>2, <1>3, <1>4, <1>5, <1>6, <1>7, <1>8, <1>9 DEF GitNext

\* Every other transaction does so too.
LEMMA OtherStepsKeepOperations ==
  ASSUME Typed, Lifecycle!Safe, Operations,
         \/ SubmitNext \/ QueueNext \/ RunNext \/ SessionNext \/ QuestionNext
         \/ CommandNext \/ WorkspaceNext \/ DispatchNext \/ DeletionNext \/ UNCHANGED vars
  PROVE  Operations'
  <1> DEFINE SameGeneration == \A t \in Thread : workspace'[t].generation = workspace[t].generation
  <1>0. workspace' = workspace => SameGeneration
    OBVIOUS
  <1> HIDE DEF SameGeneration
  <1>1. ASSUME NEW r \in Message, RequestCancel(r)
        PROVE  Operations'
    <2>1. RunNext /\ InvalidateApprovals({r}) /\ UNCHANGED workspace
      BY <1>1 DEF RunNext, RequestCancel
    <2>2. ASSUME NEW s \in Message \ {r}, Exists(s)
          PROVE  Stays(s) /\ run'[s].approvalWait = run[s].approvalWait
      <3>1. message'[s].thread = ThreadOf(s)
        BY <2>1, <2>2, RunsKeepThread
      <3>2. run'[s] = run[s]
        BY <1>1, <2>2 DEF RequestCancel, Typed, TypeOK
      <3> QED BY <3>1, <3>2 DEF Stays, Stopped, IsActive
    <2> QED BY <2>1, <2>2, WithdrawnOperations
  <1>2. ASSUME NEW r \in Message, FinishRun(r)
        PROVE  Operations'
    <2>1. RunNext /\ IsActive(r) /\ InvalidateApprovals({r}) /\ EndRun(r, "failed") /\ UNCHANGED workspace
      BY <1>2 DEF RunNext, FinishRun
    <2>2. ASSUME NEW s \in Message \ {r}, Exists(s)
          PROVE  Stays(s) /\ run'[s].approvalWait = run[s].approvalWait
      <3>1. message'[s].thread = ThreadOf(s)
        BY <2>1, <2>2, RunsKeepThread
      <3>2. run'[s] = run[s]
        BY <2>1, <2>2, EndRunKeepsRuns
      <3> QED BY <3>1, <3>2 DEF Stays, Stopped, IsActive
    <2> QED BY <2>1, <2>2, WithdrawnOperations
  <1>3. ASSUME UNCHANGED gitop, SameGeneration,
               \/ SubmitNext \/ QueueNext \/ SessionNext \/ CommandNext \/ WorkspaceNext
               \/ DispatchNext \/ UNCHANGED vars \/ \E s \in Message : StartRun(s)
        PROVE  Operations'
    <2>1. \A r \in Message : Exists(r) => Kept(r)
      BY <1>3, QuietStepsKeepRuns
    <2> QED BY <1>3, <2>1, QuietOperations DEF Kept, SameGeneration
  <1>4. CASE SubmitNext
    <2>1. UNCHANGED << gitop, workspace >>
      BY <1>4 DEF SubmitNext, SubmitRun, SubmitPending
    <2> QED BY <1>0, <1>3, <1>4, <2>1
  <1>5. CASE QueueNext
    <2>1. UNCHANGED << gitop, workspace >>
      BY <1>5 DEF QueueNext, StartQueuedMessage, EditPending, RemovePending
    <2> QED BY <1>0, <1>3, <1>5, <2>1
  <1>6. CASE SessionNext
    <2>1. UNCHANGED << gitop, workspace >>
      <3> PICK r \in Message, a \in Attempt :
            \/ CheckWaits(r, a) \/ ClaimExecution(r, a) \/ OpenSession(r, a)
            \/ PollSteers(r, a) \/ SaveTurn(r, a) \/ ConsumeSteer(r, a) \/ CompleteRun(r, a)
        BY <1>6 DEF SessionNext
      <3> QED BY DEF CheckWaits, ClaimExecution, OpenSession, PollSteers, SaveTurn, ConsumeSteer,
            CompleteRun
    <2> QED BY <1>0, <1>3, <1>6, <2>1
  <1>7. CASE QuestionNext
    <2>1. UNCHANGED << gitop, workspace >>
      BY <1>7 DEF QuestionNext, PublishQuestion, Answer, ResumeQuestions, TakeBrowser, HandBack
    <2>2. ASSUME NEW s \in Message, Exists(s)
          PROVE  Stays(s) /\ run'[s].approvalWait = run[s].approvalWait
      <3>1. PICK r \in Message, w \in BOOLEAN :
              run' = [run EXCEPT ![r].questionWait = w] \/ run' = run
        BY <1>7, <2>2 DEF QuestionNext, PublishQuestion, Answer, ResumeQuestions, TakeBrowser, HandBack
      <3>2. run'[s].approvalWait = run[s].approvalWait
        <4>1. run \in [Message -> RunRow]
          BY DEF Typed, TypeOK
        <4> QED BY <3>1, <4>1 DEF RunRow
      <3> QED BY <1>7, <2>2, <3>1, <3>2, WaitsKeepRuns
    <2> QED BY <1>0, <2>1, <2>2, QuietOperations DEF SameGeneration
  <1>8. CASE CommandNext
    <2>1. ASSUME NEW c, NEW r, NEW a, NEW access, BeginCommand(c, r, a, access)
          PROVE  UNCHANGED << gitop, workspace >>
      BY <2>1 DEF BeginCommand
    <2>2. ASSUME NEW c, AdmitCommand(c) \/ MarkRunning(c) \/ SettleCommand(c) \/ MarkUnknown(c)
          PROVE  UNCHANGED << gitop, workspace >>
      BY <2>2 DEF AdmitCommand, MarkRunning, SettleCommand, MarkUnknown, UpdateCommand
    <2>3. UNCHANGED << gitop, workspace >>
      BY <1>8, <2>1, <2>2 DEF CommandNext
    <2> QED BY <1>0, <1>3, <1>8, <2>3
  <1>9. CASE WorkspaceNext
    <2>1. ASSUME NEW t \in Thread, ResetWorkspace(t)
          PROVE  Operations'
      <3>1. ASSUME NEW g \in GitOp, Undispatched(g)
            PROVE  Exists(gitop[g].run) /\ ThreadOf(gitop[g].run) \in Thread
        BY <3>1, OpenByRun, RunHasThread DEF Exists
      <3>2. InvalidateApprovals(RunsOf(t)) /\ \A s \in Thread \ {t} : workspace'[s] = workspace[s]
        BY <2>1 DEF ResetWorkspace, Typed, TypeOK
      <3>3. ASSUME NEW g \in GitOp, ~(gitop[g].run \in RunsOf(t) /\ Undispatched(g))
            PROVE  /\ gitop'[g] = gitop[g]
                   /\ Undispatched(g) => /\ Kept(gitop[g].run)
                                         /\ workspace'[ThreadOf(gitop[g].run)]
                                              = workspace[ThreadOf(gitop[g].run)]
        <4>1. gitop'[g] = gitop[g]
          BY <3>2, <3>3, InvalidatedRows
        <4>2. Undispatched(g) => ThreadOf(gitop[g].run) \in Thread \ {t} /\ Kept(gitop[g].run)
          BY <1>9, <3>1, <3>3, QuietStepsKeepRuns DEF RunsOf, Exists
        <4> QED BY <3>2, <4>1, <4>2
      <3>4. ASSUME NEW g \in GitOp, gitop[g].run \in RunsOf(t) /\ Undispatched(g)
            PROVE  gitop'[g] = [gitop[g] EXCEPT !.approval = "invalidated"]
        BY <3>2, <3>4, InvalidatedRows
      <3> QED BY <3>3, <3>4, OperationsKept DEF Kept
    <2>2. CASE ~\E t \in Thread : ResetWorkspace(t)
      <3>1. UNCHANGED gitop
        BY <1>9, <2>2 DEF WorkspaceNext, CreateWorkspace, CancelTransition, RequestWake,
           UpdateWorkspace, BeginTransition, Cleanup
      <3>2. PICK t \in Thread :
              \/ CreateWorkspace(t) \/ CancelTransition(t) \/ RequestWake(t)
              \/ \E state \in {"provisioning", "running", "quarantined"} : UpdateWorkspace(t, state)
              \/ \E target \in {"paused", "deleted"} : BeginTransition(t, target)
              \/ \E waiting \in Message \cup {None}, missing \in BOOLEAN : Cleanup(t, waiting, missing)
        BY <1>9, <2>2 DEF WorkspaceNext
      <3>3. /\ workspace \in [Thread -> WorkspaceRow]
            /\ workspace[t] = [state |-> workspace[t].state, target |-> workspace[t].target,
                               generation |-> workspace[t].generation]
        BY DEF Typed, TypeOK, WorkspaceRow
      <3>4. SameGeneration
        <4>1. CASE RequestWake(t)
          BY <4>1 DEF RequestWake, SameGeneration
        <4>2. CASE CreateWorkspace(t) \/ CancelTransition(t)
          BY <3>3, <4>2 DEF CreateWorkspace, CancelTransition, SameGeneration
        <4>3. ASSUME NEW state, UpdateWorkspace(t, state)
              PROVE  SameGeneration
          BY <3>3, <4>3 DEF UpdateWorkspace, SameGeneration
        <4>4. ASSUME NEW target, BeginTransition(t, target)
              PROVE  SameGeneration
          BY <3>3, <4>4 DEF BeginTransition, SameGeneration
        <4>5. ASSUME NEW waiting, NEW missing, Cleanup(t, waiting, missing)
              PROVE  SameGeneration
          BY <3>3, <4>5 DEF Cleanup, SameGeneration
        <4> QED BY <3>2, <4>1, <4>2, <4>3, <4>4, <4>5
      <3> QED BY <1>3, <1>9, <3>1, <3>4
    <2> QED BY <2>1, <2>2
  <1>10. CASE DispatchNext \/ UNCHANGED vars
    <2>1. UNCHANGED << gitop, workspace >>
      BY <1>10 DEF DispatchNext, MarkDelivered, vars
    <2> QED BY <1>0, <1>3, <1>10, <2>1
  <1>11. CASE DeletionNext
    <2> PICK t \in Thread : DeleteThread(t) \/ PurgeThread(t)
      BY <1>11 DEF DeletionNext
    <2>1. CASE DeleteThread(t)
      <3>1. UNCHANGED << gitop, run, message, workspace >>
        BY <2>1 DEF DeleteThread
      <3>2. \A r \in Message : Stays(r)
        BY <3>1 DEF Stays, Stopped, IsActive, ThreadOf
      <3> QED BY <1>0, <3>1, <3>2, QuietOperations DEF SameGeneration
    <2>2. CASE PurgeThread(t)
      <3>1. ASSUME NEW g \in GitOp, gitop'[g] # NoGitOp
            PROVE  gitop'[g] = gitop[g] /\ (gitop[g].run \in Message => ThreadOf(gitop[g].run) # t)
        BY <2>2, <3>1 DEF PurgeThread, ThreadOf
      <3>2. ASSUME NEW r \in Message, Exists(r), ThreadOf(r) # t
            PROVE  Kept(r) /\ workspace'[ThreadOf(r)] = workspace[ThreadOf(r)]
        <4>1. run'[r] = run[r] /\ message'[r] = message[r]
          BY <2>2, <3>2 DEF PurgeThread, ThreadOf
        <4>2. workspace'[ThreadOf(r)] = workspace[ThreadOf(r)]
          BY <2>2, <3>2 DEF PurgeThread, Typed, TypeOK
        <4> QED BY <4>1, <4>2 DEF Kept, Stays, Stopped, IsActive, ThreadOf
      <3>3. \A g \in GitOp : Undispatched(g) => Exists(gitop[g].run) /\ gitop[g].run \in Message
        BY OpenByRun DEF Exists
      <3> QED BY <3>1, <3>2, <3>3, OperationsKept DEF Kept
    <2> QED BY <2>1, <2>2
  <1>12. CASE RunNext
    <2>1. ASSUME NEW s \in Message, StartRun(s)
          PROVE  UNCHANGED << gitop, workspace >>
      BY <2>1 DEF StartRun
    <2> QED BY <1>0, <1>1, <1>2, <1>3, <1>12, <2>1 DEF RunNext
  <1> QED BY <1>4, <1>5, <1>6, <1>7, <1>8, <1>9, <1>10, <1>11, <1>12

\* What is asked and what may be written stays in order in every reachable state.
LEMMA AlwaysRequests == Spec => [](Typed /\ Questions /\ Operations)
  <1>1. /\ Typed /\ Lifecycle!Safe /\ OneActiveRun /\ Questions /\ Operations /\ [Next]_vars
        => Questions' /\ Operations'
    <2> SUFFICES ASSUME Typed, Lifecycle!Safe, OneActiveRun, Questions, Operations, [Next]_vars
                 PROVE  Questions' /\ Operations'
      OBVIOUS
    <2>1. Questions'
      BY QuestionStepsKeepQuestions, OtherStepsKeepQuestions DEF Next
    <2>2. Operations'
      BY GitStepsKeepOperations, OtherStepsKeepOperations DEF Next
    <2> QED BY <2>1, <2>2
  <1> QED BY <1>1, InitRequests, AlwaysSafe, OneRunPerThread, PTL DEF Spec

\* At most one element has at most one.
LEMMA AtMostOne ==
  ASSUME NEW S, \A x, y \in S : x = y
  PROVE  Cardinality(S) <= 1
  <1>1. CASE S = {}
    BY <1>1, FS_EmptySet
  <1>2. CASE S # {}
    <2>1. PICK x \in S : TRUE
      BY <1>2
    <2>2. S = {x}
      BY <2>1
    <2> QED BY <2>2, FS_Singleton
  <1> QED BY <1>1, <1>2

\* A run that was stopped has nothing left that could be answered or dispatched.
LEMMA StoppedAsksNothing == Typed /\ Questions /\ Operations => CancelWithdraws
  <1> SUFFICES ASSUME Typed, Questions, Operations, NEW r \in Message, Stopped(r)
               PROVE  PendingQuestions(r) = {} /\ \A g \in OpsOf(r) : ~Undispatched(g)
    BY DEF CancelWithdraws, Stopped
  <1>1. PendingQuestions(r) = {}
    BY DEF PendingQuestions, Questions, AskedByWaiting, Asked
  <1>2. \A g \in OpsOf(r) : ~Undispatched(g)
    BY DEF OpsOf, Operations, OpenByRunning
  <1> QED BY <1>1, <1>2

\* What a run asks is asked once and recorded as its wait (questions.ts,
\* git-store.ts), withdrawn with it, and leaves the browser to whom it waits for.
THEOREM RequestsAreInOrder == Spec => []AskedInOrder
  <1>1. Typed /\ Questions /\ Operations => AskedInOrder
    <2> SUFFICES ASSUME Typed, Questions, Operations PROVE AskedInOrder
      OBVIOUS
    <2>1. ASSUME NEW r \in Message
          PROVE  /\ Cardinality(PendingQuestions(r)) <= 1
                 /\ PendingQuestions(r) # {} => run[r].questionWait
      <3>1. \A p, q \in PendingQuestions(r) : p = q
        BY DEF PendingQuestions, Questions, OneQuestion, Asked
      <3>2. PendingQuestions(r) # {} => run[r].questionWait
        BY DEF PendingQuestions, Questions, AskedByWaiting, Asked
      <3> QED BY <3>1, <3>2, AtMostOne
    <2>2. ASSUME NEW r \in Message
          PROVE  /\ Cardinality(PendingProposals(r)) <= 1
                 /\ PendingProposals(r) # {} => run[r].approvalWait
      <3>1. \A g, h \in PendingProposals(r) : g = h
        BY DEF PendingProposals, OpsOf, Operations, OneProposal, Proposed
      <3>2. PendingProposals(r) # {} => run[r].approvalWait
        BY DEF PendingProposals, OpsOf, Operations, ProposedByWaiting, Proposed
      <3> QED BY <3>1, <3>2, AtMostOne
    <2>3. WaitsForWhatIsAsked
      BY <2>1, <2>2 DEF WaitsForWhatIsAsked
    <2> QED BY <2>3, StoppedAsksNothing DEF AskedInOrder, Questions
  <1> QED BY <1>1, AlwaysRequests, PTL

\* One write is in flight at most, it was approved, and for the filesystem the
\* workspace has: git-store.ts claims no other, whoever replaced the workspace,
\* cancelled the run or answered late.
THEOREM WritesAreSafe == Spec => []GitWritesAreSafe
  <1>1. Typed /\ Questions /\ Operations => GitWritesAreSafe
    BY StoppedAsksNothing DEF GitWritesAreSafe, Operations
  <1> QED BY <1>1, AlwaysRequests, PTL

(***************************************************************************)
(* Attachments.                                                            *)
(***************************************************************************)
\* A message something may be attached to.
Alive == {"pending", "consumed", "plain", "started"}

\* What continues a queue changes one message at most: it starts.
LEMMA EndRunMessages ==
  ASSUME NEW r \in Message, NEW status, EndRun(r, status)
  PROVE  \/ message' = message
         \/ \E m \in Message : message' = [message EXCEPT ![m].state = "started"]
  BY DEF EndRun, ContinueQueue, StartNext

\* Most transactions touch neither messages nor attachments.
LEMMA OthersTouchNoMessage ==
  ASSUME \/ QuestionNext \/ GitNext \/ CommandNext \/ WorkspaceNext \/ DispatchNext
         \/ UNCHANGED vars
         \/ \E r \in Message, a \in Attempt :
              \/ CheckWaits(r, a) \/ ClaimExecution(r, a) \/ OpenSession(r, a)
              \/ PollSteers(r, a) \/ SaveTurn(r, a)
  PROVE  UNCHANGED << message, attachment >>
  <1>1. CASE QuestionNext
    BY <1>1 DEF QuestionNext, PublishQuestion, Answer, ResumeQuestions, TakeBrowser, HandBack, AnswerRow
  <1>2. CASE GitNext
    <2>1. ASSUME NEW r, NEW a, NEW g, PublishProposal(r, a, g)
          PROVE  UNCHANGED << message, attachment >>
      BY <2>1 DEF PublishProposal
    <2>2. ASSUME NEW g, Lapse(g) \/ RejectWrite(g) \/ \E d \in {"approved", "rejected"} : Decide(g, d)
          PROVE  UNCHANGED << message, attachment >>
      BY <2>2 DEF Lapse, RejectWrite, Decide
    <2>3. ASSUME NEW g, \/ \E a \in Attempt : ClaimWrite(g, a)
                        \/ \E x \in {"succeeded", "failed", "unknown"} : FinishWrite(g, x)
          PROVE  UNCHANGED << message, attachment >>
      BY <2>3 DEF ClaimWrite, FinishWrite
    <2>4. ASSUME NEW r, ExpireApprovals(r) \/ ResumeApproval(r)
          PROVE  UNCHANGED << message, attachment >>
      BY <2>4 DEF ExpireApprovals, ResumeApproval
    <2> QED BY <1>2, <2>1, <2>2, <2>3, <2>4 DEF GitNext
  <1>3. CASE CommandNext
    <2>1. ASSUME NEW c, NEW r, NEW a, NEW access, BeginCommand(c, r, a, access)
          PROVE  UNCHANGED << message, attachment >>
      BY <2>1 DEF BeginCommand
    <2>2. ASSUME NEW c, AdmitCommand(c) \/ MarkRunning(c) \/ SettleCommand(c) \/ MarkUnknown(c)
          PROVE  UNCHANGED << message, attachment >>
      BY <2>2 DEF AdmitCommand, MarkRunning, SettleCommand, MarkUnknown, UpdateCommand
    <2> QED BY <1>3, <2>1, <2>2 DEF CommandNext
  <1>4. CASE WorkspaceNext
    <2>1. ASSUME NEW t, \/ CreateWorkspace(t) \/ CancelTransition(t) \/ RequestWake(t)
                        \/ ResetWorkspace(t)
          PROVE  UNCHANGED << message, attachment >>
      BY <2>1 DEF CreateWorkspace, CancelTransition, RequestWake, ResetWorkspace
    <2>2. ASSUME NEW t, NEW state, UpdateWorkspace(t, state) \/ BeginTransition(t, state)
          PROVE  UNCHANGED << message, attachment >>
      BY <2>2 DEF UpdateWorkspace, BeginTransition
    <2>3. ASSUME NEW t, NEW waiting, NEW missing, Cleanup(t, waiting, missing)
          PROVE  UNCHANGED << message, attachment >>
      BY <2>3 DEF Cleanup
    <2> QED BY <1>4, <2>1, <2>2, <2>3 DEF WorkspaceNext
  <1>5. CASE DispatchNext \/ UNCHANGED vars
    BY <1>5 DEF DispatchNext, MarkDelivered, vars
  <1>6. ASSUME NEW r, NEW a, CheckWaits(r, a) \/ ClaimExecution(r, a)
        PROVE  UNCHANGED << message, attachment >>
    BY <1>6 DEF CheckWaits, ClaimExecution
  <1>7. ASSUME NEW r, NEW a, OpenSession(r, a) \/ PollSteers(r, a) \/ SaveTurn(r, a)
        PROVE  UNCHANGED << message, attachment >>
    <2>1. CASE OpenSession(r, a)
      BY <2>1 DEF OpenSession
    <2>2. CASE PollSteers(r, a)
      BY <2>2, Zenon DEF PollSteers
    <2>3. CASE SaveTurn(r, a)
      BY <2>3, Zenon DEF SaveTurn
    <2> QED BY <1>7, <2>1, <2>2, <2>3
  <1> QED BY <1>1, <1>2, <1>3, <1>4, <1>5, <1>6, <1>7

\* No transaction but removal and purge ends a message that is alive.
LEMMA MessagesStayAlive ==
  ASSUME Typed, NEW m \in Message, message[m].state \in Alive,
         \/ SubmitNext \/ RunNext \/ SessionNext \/ QuestionNext \/ GitNext \/ CommandNext
         \/ WorkspaceNext \/ DispatchNext \/ UNCHANGED vars
         \/ \E t \in Thread, o \in Message : StartQueuedMessage(t, o) \/ EditPending(t, o)
  PROVE  message'[m].state \in Alive
  <1>0. message \in [Message -> MessageRow]
    BY DEF Typed, TypeOK
  <1>1. UNCHANGED message => message'[m].state \in Alive
    OBVIOUS
  <1>2. ASSUME NEW o \in Message, message' = [message EXCEPT ![o].state = "started"]
        PROVE  message'[m].state \in Alive
    BY <1>0, <1>2 DEF Alive, MessageRow
  <1>3. CASE SubmitNext
    <2> PICK t \in Thread, o \in Message, mode \in {"none", "steer", "queue"}, model \in Model,
             A \in SUBSET Available :
          SubmitRun(t, o, mode, model, A) \/ SubmitPending(t, o, mode, model, A)
      BY <1>3 DEF SubmitNext
    <2>1. o # m
      BY DEF SubmitRun, SubmitPending, Acceptable, Alive
    <2>2. message'[m] = message[m]
      BY <1>0, <2>1 DEF SubmitRun, SubmitPending
    <2> QED BY <2>2
  <1>4. CASE RunNext
    BY <1>1, <1>2, <1>4, EndRunMessages DEF RunNext, RequestCancel, StartRun, FinishRun
  <1>5. CASE SessionNext
    <2>1. ASSUME NEW r \in Message, NEW a \in Attempt, ConsumeSteer(r, a)
          PROVE  message'[m].state \in Alive
      <3> DEFINE o == Head(session[r][a].offered).message
      <3>1. message' = [message EXCEPT ![o].state = "consumed"]
        BY <2>1 DEF ConsumeSteer
      <3> HIDE DEF o
      <3> QED BY <1>0, <3>1 DEF Alive, MessageRow
    <2>2. ASSUME NEW r \in Message, NEW a \in Attempt, CompleteRun(r, a)
          PROVE  message'[m].state \in Alive
      BY <1>1, <1>2, <2>2, EndRunMessages DEF CompleteRun
    <2> QED BY <1>1, <1>5, <2>1, <2>2, OthersTouchNoMessage DEF SessionNext
  <1>6. CASE \/ QuestionNext \/ GitNext \/ CommandNext \/ WorkspaceNext \/ DispatchNext
             \/ UNCHANGED vars
    BY <1>1, <1>6, OthersTouchNoMessage
  <1>7. ASSUME NEW t \in Thread, NEW o \in Message, StartQueuedMessage(t, o) \/ EditPending(t, o)
        PROVE  message'[m].state \in Alive
    <2>1. CASE StartQueuedMessage(t, o)
      BY <1>2, <2>1 DEF StartQueuedMessage, StartNext
    <2>2. CASE EditPending(t, o)
      BY <1>0, <2>2 DEF EditPending, Alive, MessageRow
    <2> QED BY <1>7, <2>1, <2>2
  <1> QED BY <1>3, <1>4, <1>5, <1>6, <1>7

\* Attachments that stay as they are stay bound.
LEMMA AttachmentsStay ==
  ASSUME Typed, AttachmentsBound, UNCHANGED attachment,
         \A m \in Message : message[m].state \in Alive => message'[m].state \in Alive
  PROVE  AttachmentsBound'
  <1> SUFFICES ASSUME NEW x \in Attachment, attachment[x].message # None
               PROVE  /\ attachment[x].state = "ready"
                      /\ message'[attachment[x].message].state \notin {"absent", "removed", "purged"}
    BY DEF AttachmentsBound
  <1>1. attachment[x].message \in Message
    BY DEF Typed, TypeOK, AttachmentRow
  <1>2. /\ attachment[x].state = "ready"
        /\ message[attachment[x].message].state \in Alive
    BY <1>1 DEF AttachmentsBound, Typed, TypeOK, MessageRow, Alive
  <1> QED BY <1>1, <1>2 DEF Alive

\* A submission binds free attachments to a message that is new.
LEMMA SubmissionBinds ==
  ASSUME Typed, AttachmentsBound, SubmitNext
  PROVE  AttachmentsBound'
  <1> PICK t \in Thread, m \in Message, mode \in {"none", "steer", "queue"}, model \in Model,
           A \in SUBSET Available :
        SubmitRun(t, m, mode, model, A) \/ SubmitPending(t, m, mode, model, A)
    BY DEF SubmitNext
  <1>1. message[m].state = "absent" /\ Bind(A, m)
    BY DEF SubmitRun, SubmitPending, Acceptable
  <1>6. message'[m].state \in Alive
    <2>1. \E state \in {"plain", "started", "pending"} : \E r :
            message' = [message EXCEPT ![m] = NewMessage(t, mode, model, state, r)]
      BY DEF SubmitRun, SubmitPending
    <2> QED BY <2>1 DEF NewMessage, Alive, Typed, TypeOK
  <1>2. \A o \in Message \ {m} : message'[o] = message[o]
    BY DEF SubmitRun, SubmitPending, Typed, TypeOK
  <1> SUFFICES ASSUME NEW x \in Attachment, attachment'[x].message # None
               PROVE  /\ attachment'[x].state = "ready"
                      /\ message'[attachment'[x].message].state \notin {"absent", "removed", "purged"}
    BY DEF AttachmentsBound
  <1>3. attachment[x] \in AttachmentRow
    BY DEF Typed, TypeOK
  <1>4. CASE x \in A
    <2>1. attachment'[x] = [attachment[x] EXCEPT !.message = m]
      BY <1>1, <1>4 DEF Bind
    <2> QED BY <1>6, <1>3, <1>4, <2>1 DEF Available, AttachmentRow, Alive
  <1>5. CASE x \notin A
    <2>1. attachment'[x] = attachment[x]
      BY <1>1, <1>5 DEF Bind
    <2>2. attachment[x].message \in Message \ {m}
      BY <1>1, <1>3, <2>1 DEF AttachmentsBound, AttachmentRow
    <2> QED BY <1>2, <2>1, <2>2 DEF AttachmentsBound
  <1> QED BY <1>4, <1>5

\* Removing a message frees what it had.
LEMMA RemovalFrees ==
  ASSUME Typed, AttachmentsBound, NEW t \in Thread, NEW m \in Message, RemovePending(t, m)
  PROVE  AttachmentsBound'
  <1> SUFFICES ASSUME NEW x \in Attachment, attachment'[x].message # None
               PROVE  /\ attachment'[x].state = "ready"
                      /\ message'[attachment'[x].message].state \notin {"absent", "removed", "purged"}
    BY DEF AttachmentsBound
  <1>1. attachment'[x] = attachment[x] /\ attachment[x].message # m
    BY DEF RemovePending, Unbind
  <1>2. attachment[x].message \in Message
    BY <1>1 DEF Typed, TypeOK, AttachmentRow
  <1>3. message'[attachment[x].message] = message[attachment[x].message]
    BY <1>1, <1>2 DEF RemovePending, Typed, TypeOK
  <1> QED BY <1>1, <1>3 DEF AttachmentsBound

\* Purging a thread releases what its messages had.
LEMMA PurgeReleases ==
  ASSUME Typed, AttachmentsBound, NEW t \in Thread, PurgeThread(t)
  PROVE  AttachmentsBound'
  <1> SUFFICES ASSUME NEW x \in Attachment, attachment'[x].message # None
               PROVE  /\ attachment'[x].state = "ready"
                      /\ message'[attachment'[x].message].state \notin {"absent", "removed", "purged"}
    BY DEF AttachmentsBound
  <1> DEFINE M == {m \in Message : message[m].thread = t}
  <1>1. attachment'[x] = IF attachment[x].message \in M
                         THEN [state |-> "deleting", message |-> None] ELSE attachment[x]
    BY DEF PurgeThread
  <1>2. attachment'[x] = attachment[x] /\ attachment[x].message \notin M
    BY <1>1
  <1>3. attachment[x].message \in Message \ M
    BY <1>2 DEF Typed, TypeOK, AttachmentRow
  <1>4. message'[attachment[x].message] = message[attachment[x].message]
    BY <1>3 DEF PurgeThread
  <1> QED BY <1>2, <1>4 DEF AttachmentsBound

\* An attachment is a message's for as long as the message is there, and ready
\* for as long as it is a message's: nothing collects what a run may still read.
THEOREM AttachmentsStayBound == Spec => []AttachmentsBound
  <1>1. Init => AttachmentsBound
    BY DEF Init, AttachmentsBound
  <1>2. Typed /\ AttachmentsBound /\ [Next]_vars => AttachmentsBound'
    <2> SUFFICES ASSUME Typed, AttachmentsBound, [Next]_vars
                 PROVE  AttachmentsBound'
      OBVIOUS
    <2>1. CASE SubmitNext
      BY <2>1, SubmissionBinds
    <2>2. ASSUME NEW t \in Thread, NEW m \in Message, RemovePending(t, m)
          PROVE  AttachmentsBound'
      BY <2>2, RemovalFrees
    <2>3. ASSUME NEW t \in Thread, PurgeThread(t)
          PROVE  AttachmentsBound'
      BY <2>3, PurgeReleases
    <2>4. ASSUME NEW t \in Thread, DeleteThread(t)
          PROVE  AttachmentsBound'
      BY <2>4 DEF DeleteThread, AttachmentsBound
    <2>5. ASSUME UNCHANGED attachment,
                 \/ RunNext \/ SessionNext \/ QuestionNext \/ GitNext \/ CommandNext
                 \/ WorkspaceNext \/ DispatchNext \/ UNCHANGED vars
                 \/ \E t \in Thread, o \in Message : StartQueuedMessage(t, o) \/ EditPending(t, o)
          PROVE  AttachmentsBound'
      BY <2>5, MessagesStayAlive, AttachmentsStay
    <2>6. CASE RunNext
      <3>1. UNCHANGED attachment
        BY <2>6 DEF RunNext, RequestCancel, StartRun, FinishRun
      <3> QED BY <2>5, <2>6, <3>1
    <2>7. CASE SessionNext
      <3>1. ASSUME NEW r \in Message, NEW a \in Attempt, ConsumeSteer(r, a) \/ CompleteRun(r, a)
            PROVE  UNCHANGED attachment
        <4>1. ConsumeSteer(r, a) => UNCHANGED attachment
          BY Zenon DEF ConsumeSteer
        <4>2. CompleteRun(r, a) => UNCHANGED attachment
          BY DEF CompleteRun
        <4> QED BY <3>1, <4>1, <4>2
      <3> QED BY <2>5, <2>7, <3>1, OthersTouchNoMessage DEF SessionNext
    <2>8. CASE \/ QuestionNext \/ GitNext \/ CommandNext \/ WorkspaceNext \/ DispatchNext
               \/ UNCHANGED vars
      BY <2>5, <2>8, OthersTouchNoMessage
    <2>9. ASSUME NEW t \in Thread, NEW m \in Message, StartQueuedMessage(t, m) \/ EditPending(t, m)
          PROVE  AttachmentsBound'
      BY <2>5, <2>9 DEF StartQueuedMessage, EditPending
    <2> QED BY <2>1, <2>2, <2>3, <2>4, <2>6, <2>7, <2>8, <2>9
          DEF Next, QueueNext, DeletionNext
  <1> QED BY <1>1, <1>2, AlwaysTyped, PTL DEF Spec
=============================================================================
