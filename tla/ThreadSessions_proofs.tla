------------------------ MODULE ThreadSessions_proofs ------------------------
(***************************************************************************)
(* The order of a thread's queue, what an attempt's session shares with    *)
(* the rows (the saved checkpoint and the steers it was offered), and the  *)
(* attempt's commands in the workspace.                                    *)
(***************************************************************************)
EXTENDS ThreadLifecycle_proofs

(***************************************************************************)
(* What the transactions do to messages that were accepted.                *)
(***************************************************************************)
\* Every transaction on threads that stay.
StayNext ==
  \/ SubmitNext \/ QueueNext \/ RunNext \/ SessionNext \/ QuestionNext
  \/ GitNext \/ CommandNext \/ WorkspaceNext \/ DispatchNext \/ UNCHANGED vars

\* m leaves the queue as the next of its thread, and its run begins.
Starts(m) ==
  /\ \E t \in Thread : FirstPending(t, m)
  /\ message' = [message EXCEPT ![m].state = "started"]
  /\ run'[m].status = "queued"

\* The user edits or removes m.
Changes(m) ==
  /\ \E t \in Thread : Editable(t, m)
  /\ \/ message' = [message EXCEPT ![m].version = @ + 1]
     \/ message' = [message EXCEPT ![m].state = "removed"]

\* The session of a run reads m, the first of what it was offered.
FirstOffer(r, a) == Head(session[r][a].offered)

Reads(m, r, a) ==
  /\ ConsumeSteer(r, a)
  /\ m = FirstOffer(r, a).message
  /\ message[m].state = "pending" /\ message[m].mode = "steer" /\ message[m].target = r
  /\ message' = [message EXCEPT ![m].state = "consumed"]

\* A submission writes the row of a message that is new.
Submits(m) ==
  /\ message[m].state = "absent"
  /\ \E t \in Thread, mode \in {"none", "steer", "queue"}, model \in Model :
       \/ /\ \E state \in {"plain", "started"}, target \in Message \cup {None} :
               message' = [message EXCEPT ![m] = NewMessage(t, mode, model, state, target)]
       \/ \E r \in ActiveRuns(t) :
            /\ Joins(mode, model, r)
            /\ message' = [message EXCEPT ![m] = NewMessage(t, mode, model, "pending", r)]

\* What continues a queue starts its first message.
LEMMA StartNextStarts ==
  ASSUME NEW t \in Thread, NEW m \in Message, NEW rn \in [Message -> RunRow], StartNext(t, m, rn)
  PROVE  Starts(m)
  <1>1. run' = [rn EXCEPT ![m] = QueuedRun]
    BY DEF StartNext
  <1>2. run'[m].status = "queued"
    BY <1>1 DEF QueuedRun, NoRun
  <1> QED BY <1>2 DEF Starts, StartNext

LEMMA EndRunStarts ==
  ASSUME Typed, NEW r \in Message, IsActive(r), NEW status \in {"completed", "failed"},
         EndRun(r, status)
  PROVE  UNCHANGED message \/ \E m \in Message : Starts(m)
  <1>1. ThreadOf(r) \in Thread
    BY RunHasThread DEF IsActive, ActiveStatus
  <1> DEFINE rn == [run EXCEPT ![r].status = status]
  <1>2. rn \in [Message -> RunRow]
    BY RunStatus DEF TerminalStatus
  <1>3. UNCHANGED message \/ ContinueQueue(ThreadOf(r), rn)
    BY DEF EndRun
  <1> HIDE DEF rn
  <1> QED BY <1>1, <1>2, <1>3, StartNextStarts DEF ContinueQueue

\* Every transaction writes one message at most, in one of four ways.
LEMMA MessageMoves ==
  ASSUME Typed, StayNext
  PROVE  \/ UNCHANGED message
         \/ \E m \in Message : Submits(m) \/ Starts(m) \/ Changes(m)
         \/ \E m, r \in Message, a \in Attempt : Reads(m, r, a)
  <1>1. CASE SubmitNext
    <2> PICK t \in Thread, m \in Message, mode \in {"none", "steer", "queue"}, model \in Model,
             A \in SUBSET Available :
          SubmitRun(t, m, mode, model, A) \/ SubmitPending(t, m, mode, model, A)
      BY <1>1 DEF SubmitNext
    <2>1. CASE SubmitRun(t, m, mode, model, A)
      BY <2>1 DEF SubmitRun, Acceptable, Submits
    <2>2. CASE SubmitPending(t, m, mode, model, A)
      <3>1. PICK r \in ActiveRuns(t) :
              /\ Joins(mode, model, r)
              /\ message' = [message EXCEPT ![m] = NewMessage(t, mode, model, "pending", r)]
        BY <2>2 DEF SubmitPending
      <3>2. message[m].state = "absent"
        BY <2>2 DEF SubmitPending, Acceptable
      <3> QED BY <3>1, <3>2 DEF Submits
    <2> QED BY <2>1, <2>2
  <1>2. CASE QueueNext
    <2> PICK t \in Thread, m \in Message :
          StartQueuedMessage(t, m) \/ EditPending(t, m) \/ RemovePending(t, m)
      BY <1>2 DEF QueueNext
    <2>1. CASE StartQueuedMessage(t, m)
      BY <2>1, StartNextStarts DEF StartQueuedMessage, Typed, TypeOK
    <2>2. CASE EditPending(t, m) \/ RemovePending(t, m)
      BY <2>2 DEF EditPending, RemovePending, Changes
    <2> QED BY <2>1, <2>2
  <1>3. CASE RunNext
    BY <1>3, EndRunStarts DEF RunNext, RequestCancel, StartRun, FinishRun
  <1>4. CASE SessionNext
    <2>1. ASSUME NEW r \in Message, NEW a \in Attempt, ConsumeSteer(r, a)
          PROVE  UNCHANGED message \/ \E m \in Message : Reads(m, r, a)
      <3> DEFINE m == Head(session[r][a].offered).message
      <3>1. /\ message[m].state = "pending" /\ message[m].mode = "steer" /\ message[m].target = r
            /\ message' = [message EXCEPT ![m].state = "consumed"]
        BY <2>1, Zenon DEF ConsumeSteer
      <3> HIDE DEF m
      <3>2. CASE m \in Message
        BY <2>1, <3>1, <3>2 DEF Reads, m, FirstOffer
      <3>3. CASE m \notin Message
        BY <3>1, <3>3 DEF Typed, TypeOK
      <3> QED BY <3>2, <3>3
    <2>2. ASSUME NEW r \in Message, NEW a \in Attempt, CompleteRun(r, a)
          PROVE  UNCHANGED message \/ \E m \in Message : Starts(m)
      BY <2>2, EndRunStarts DEF CompleteRun, MayComplete
    <2> QED BY <1>4, <2>1, <2>2, OthersTouchNoMessage DEF SessionNext
  <1>5. CASE \/ QuestionNext \/ GitNext \/ CommandNext \/ WorkspaceNext \/ DispatchNext
             \/ UNCHANGED vars
    BY <1>5, OthersTouchNoMessage
  <1> QED BY <1>1, <1>2, <1>3, <1>4, <1>5 DEF StayNext

\* One column of one row, the others as they were.
LEMMA OneColumn ==
  ASSUME Typed, NEW m \in Message, NEW o \in Message, NEW v,
         \/ message' = [message EXCEPT ![m].state = v]
         \/ message' = [message EXCEPT ![m].version = v]
  PROVE  /\ message'[o].thread = message[o].thread /\ message'[o].mode = message[o].mode
         /\ message'[o].model = message[o].model /\ message'[o].target = message[o].target
         /\ message'[o].sequence = message[o].sequence
         /\ o # m => message'[o] = message[o]
         /\ message' = [message EXCEPT ![m].state = v]
              => message'[m].state = v /\ message'[m].version = message[m].version
         /\ message' = [message EXCEPT ![m].version = v]
              => message'[m].version = v /\ message'[m].state = message[m].state
  <1>1. message \in [Message -> MessageRow]
    BY DEF Typed, TypeOK
  <1>2. CASE message' = [message EXCEPT ![m].state = v]
    BY <1>1, <1>2 DEF MessageRow
  <1>3. CASE message' = [message EXCEPT ![m].version = v]
    BY <1>1, <1>3 DEF MessageRow
  <1> QED BY <1>2, <1>3

\* An accepted message stays what it is; once it has left the queue its row
\* stays altogether.
LEMMA MessageKept ==
  ASSUME Typed, StayNext, NEW o \in Message, message[o].state # "absent"
  PROVE  /\ message'[o].thread = message[o].thread /\ message'[o].mode = message[o].mode
         /\ message'[o].model = message[o].model /\ message'[o].target = message[o].target
         /\ message'[o].sequence = message[o].sequence
         /\ message[o].state # "pending" => message'[o] = message[o]
         /\ \/ message'[o] = message[o]
            \/ Starts(o) \/ Changes(o) \/ \E r \in Message, a \in Attempt : Reads(o, r, a)
  <1>1. CASE UNCHANGED message
    BY <1>1
  <1>2. ASSUME NEW m \in Message, Submits(m)
        PROVE  message'[o] = message[o]
    <2>1. o # m
      BY <1>2 DEF Submits
    <2> QED BY <1>2, <2>1 DEF Submits, Typed, TypeOK
  <1>3. ASSUME NEW m \in Message,
               Starts(m) \/ Changes(m) \/ \E r \in Message, a \in Attempt : Reads(m, r, a)
        PROVE  /\ message'[o].thread = message[o].thread /\ message'[o].mode = message[o].mode
               /\ message'[o].model = message[o].model /\ message'[o].target = message[o].target
               /\ message'[o].sequence = message[o].sequence
               /\ message[m].state = "pending"
               /\ o # m => message'[o] = message[o]
    <2>1. message[m].state = "pending"
      BY <1>3 DEF Starts, Changes, Reads, FirstPending, Editable, PendingMessages
    <2>2. \E v : \/ message' = [message EXCEPT ![m].state = v]
                 \/ message' = [message EXCEPT ![m].version = v]
      BY <1>3 DEF Starts, Changes, Reads
    <2> QED BY <2>1, <2>2, OneColumn
  <1> QED BY <1>1, <1>2, <1>3, MessageMoves

\* A run that exists goes on existing, and a run that ended does not resume.
LEMMA RunsGoOn ==
  ASSUME Typed, Typed', Lifecycle!Safe, StayNext, NEW r \in Message, run[r].status # "absent"
  PROVE  /\ run'[r].status # "absent"
         /\ run'[r].status \in ActiveStatus => IsActive(r)
         /\ message'[r] = message[r]
  <1>1. message[r].state \in {"plain", "started"}
    BY DEF Typed, References, StartedHasRun
  <1>2. message'[r] = message[r]
    BY <1>1, MessageKept
  <1>3. run'[r].status # "absent"
    BY <1>1, <1>2 DEF Typed, References, StartedHasRun
  <1>4. IsTerminal(r) => run'[r].status \in {run[r].status, "absent"}
    BY StepPromise DEF StayNext, Next
  <1>5. IsActive(r) \/ IsTerminal(r)
    BY DEF Typed, TypeOK, RunRow, IsActive, IsTerminal
  <1> QED BY <1>2, <1>3, <1>4, <1>5 DEF IsTerminal, ActiveStatus, TerminalStatus

(***************************************************************************)
(* The order of the queue.                                                 *)
(***************************************************************************)
MessagesIn(rows, t) == {o \in Message : rows[o].thread = t}

\* A message that is not there is of no thread; those that are have ranks of
\* their own, below the number of their thread's messages.
Ranked ==
  \A m \in Message :
    /\ message[m].state \in {"absent", "purged"} => message[m].thread = None
    /\ message[m].thread # None =>
         /\ message[m].sequence < Cardinality(MessagesIn(message, message[m].thread))
         /\ \A o \in Message \ {m} :
              message[o].thread = message[m].thread => message[o].sequence # message[m].sequence

LEMMA InitRanked == Init => Ranked
  BY DEF Init, Ranked, NoMessage

\* A new message is ranked behind the others of its thread.
LEMMA SubmissionRanks ==
  ASSUME Typed, Ranked, NEW m \in Message, Submits(m)
  PROVE  Ranked'
  <1> PICK t \in Thread :
        \E mode, model, state, target :
          /\ message' = [message EXCEPT ![m] = NewMessage(t, mode, model, state, target)]
          /\ state \in {"plain", "started", "pending"}
    BY DEF Submits
  <1>1. /\ message'[m].thread = t /\ message'[m].sequence = Cardinality(MessagesIn(message, t))
        /\ message'[m].state \notin {"absent", "purged"}
        /\ \A o \in Message \ {m} : message'[o] = message[o]
    BY DEF NewMessage, MessagesIn, Typed, TypeOK
  <1>2. t # None /\ message[m].thread = None
    BY NoneAssumption DEF Submits, Ranked
  <1>3. \A u \in Thread : IsFiniteSet(MessagesIn(message, u)) /\ Cardinality(MessagesIn(message, u)) \in Nat
    BY FS_Subset, FS_CardinalityType, FiniteAssumption DEF MessagesIn
  <1>4. MessagesIn(message', t) = MessagesIn(message, t) \cup {m} /\ m \notin MessagesIn(message, t)
    BY <1>1, <1>2 DEF MessagesIn
  <1>5. Cardinality(MessagesIn(message', t)) = Cardinality(MessagesIn(message, t)) + 1
    BY <1>3, <1>4, FS_AddElement
  <1>6. \A u : u # t /\ u # None => MessagesIn(message', u) = MessagesIn(message, u)
    BY <1>1, <1>2 DEF MessagesIn
  <1>7. \A o \in Message : message[o].sequence \in Nat /\ message[o].thread \in Thread \cup {None}
    BY DEF Typed, TypeOK, MessageRow
  <1> SUFFICES ASSUME NEW o \in Message
               PROVE  /\ message'[o].state \in {"absent", "purged"} => message'[o].thread = None
                      /\ message'[o].thread # None =>
                           /\ message'[o].sequence < Cardinality(MessagesIn(message', message'[o].thread))
                           /\ \A p \in Message \ {o} :
                                message'[p].thread = message'[o].thread
                                  => message'[p].sequence # message'[o].sequence
    BY DEF Ranked, MessagesIn
  <1>8. CASE o = m
    <2>1. message'[o].sequence < Cardinality(MessagesIn(message', message'[o].thread))
      BY <1>1, <1>3, <1>5, <1>8
    <2>2. ASSUME NEW p \in Message \ {m}, message'[p].thread = t
          PROVE  message'[p].sequence # message'[m].sequence
      <3>1. message[p].sequence < Cardinality(MessagesIn(message, t))
        BY <1>1, <1>2, <2>2 DEF Ranked
      <3> QED BY <1>1, <1>3, <1>7, <3>1
    <2> QED BY <1>1, <1>8, <2>1, <2>2
  <1>9. CASE o # m
    <2>1. message'[o] = message[o]
      BY <1>1, <1>9
    <2>2. ASSUME message[o].thread # None
          PROVE  message[o].sequence < Cardinality(MessagesIn(message', message[o].thread))
      <3>1. message[o].sequence < Cardinality(MessagesIn(message, message[o].thread))
        BY <2>2 DEF Ranked
      <3>2. CASE message[o].thread = t
        BY <1>3, <1>5, <1>7, <3>1, <3>2
      <3>3. CASE message[o].thread # t
        BY <1>6, <2>2, <3>1, <3>3
      <3> QED BY <3>2, <3>3
    <2>3. ASSUME message[o].thread # None, NEW p \in Message \ {o}, message'[p].thread = message[o].thread
          PROVE  message'[p].sequence # message[o].sequence
      <3>1. CASE p = m
        <4>1. message[o].sequence < Cardinality(MessagesIn(message, t))
          BY <1>1, <2>3, <3>1 DEF Ranked
        <4> QED BY <1>1, <1>3, <1>7, <3>1, <4>1
      <3>2. CASE p # m
        BY <1>1, <2>3, <3>2 DEF Ranked
      <3> QED BY <3>1, <3>2
    <2>4. message[o].state \in {"absent", "purged"} => message[o].thread = None
      BY DEF Ranked
    <2> QED BY <2>1, <2>2, <2>3, <2>4
  <1> QED BY <1>8, <1>9

\* Messages that keep their thread and rank, or lose their thread all together.
LEMMA RanksKept ==
  ASSUME Typed, Ranked, NEW D,
         \A o \in Message : message[o].thread \in D =>
           message'[o].thread = None,
         \A o \in Message : message[o].thread \notin D =>
           /\ message'[o].thread = message[o].thread /\ message'[o].sequence = message[o].sequence
           /\ message'[o].state \in {"absent", "purged"} => message[o].state \in {"absent", "purged"}
  PROVE  Ranked'
  <1>1. \A u : u # None /\ u \notin D => MessagesIn(message', u) = MessagesIn(message, u)
    BY DEF MessagesIn
  <1> SUFFICES ASSUME NEW o \in Message
               PROVE  /\ message'[o].state \in {"absent", "purged"} => message'[o].thread = None
                      /\ message'[o].thread # None =>
                           /\ message'[o].sequence < Cardinality(MessagesIn(message', message'[o].thread))
                           /\ \A p \in Message \ {o} :
                                message'[p].thread = message'[o].thread
                                  => message'[p].sequence # message'[o].sequence
    BY DEF Ranked, MessagesIn
  <1>2. CASE message[o].thread \in D
    BY <1>2
  <1>3. CASE message[o].thread \notin D
    BY <1>1, <1>3 DEF Ranked
  <1> QED BY <1>2, <1>3

LEMMA RanksStay ==
  ASSUME Typed, Ranked,
         \A o \in Message :
           /\ message'[o].thread = message[o].thread /\ message'[o].sequence = message[o].sequence
           /\ message'[o].state \in {"absent", "purged"} => message[o].state \in {"absent", "purged"}
  PROVE  Ranked'
  <1> DEFINE D == {}
  <1>1. \A o \in Message : message[o].thread \in D => message'[o].thread = None
    OBVIOUS
  <1>2. \A o \in Message : message[o].thread \notin D =>
          /\ message'[o].thread = message[o].thread /\ message'[o].sequence = message[o].sequence
          /\ message'[o].state \in {"absent", "purged"} => message[o].state \in {"absent", "purged"}
    OBVIOUS
  <1> HIDE DEF D
  <1> QED BY <1>1, <1>2, RanksKept

\* The columns a step on a waiting message leaves alone.
LEMMA WaitingColumns ==
  ASSUME Typed, NEW m \in Message, Starts(m) \/ Changes(m) \/ \E r \in Message, a \in Attempt : Reads(m, r, a),
         NEW o \in Message
  PROVE  /\ message'[o].thread = message[o].thread /\ message'[o].sequence = message[o].sequence
         /\ message'[o].state \in {"absent", "purged"} => message[o].state \in {"absent", "purged"}
  <1>1. PICK v : \/ message' = [message EXCEPT ![m].state = v] /\ v \in {"started", "removed", "consumed"}
                 \/ message' = [message EXCEPT ![m].version = v]
    BY DEF Starts, Changes, Reads
  <1>2. /\ message'[o].thread = message[o].thread /\ message'[o].sequence = message[o].sequence
        /\ o # m => message'[o] = message[o]
        /\ message' = [message EXCEPT ![m].state = v] => message'[m].state = v
        /\ message' = [message EXCEPT ![m].version = v] => message'[m].state = message[m].state
    BY <1>1, OneColumn
  <1> QED BY <1>1, <1>2

LEMMA StepRanks ==
  ASSUME Typed, Ranked, [Next]_vars
  PROVE  Ranked'
  <1>1. CASE \E m \in Message : Submits(m)
    BY <1>1, SubmissionRanks
  <1>2. CASE StayNext /\ ~\E m \in Message : Submits(m)
    BY <1>2, MessageMoves, WaitingColumns, RanksStay
  <1>3. CASE DeletionNext
    <2> PICK t \in Thread : DeleteThread(t) \/ PurgeThread(t)
      BY <1>3 DEF DeletionNext
    <2>1. CASE DeleteThread(t)
      <3>1. UNCHANGED message
        BY <2>1 DEF DeleteThread
      <3> QED BY <3>1, RanksStay
    <2>2. CASE PurgeThread(t)
      <3>1. \A o \in Message : message'[o] = IF message[o].thread = t
                                             THEN [NoMessage EXCEPT !.state = "purged"] ELSE message[o]
        BY <2>2 DEF PurgeThread
      <3>2. [NoMessage EXCEPT !.state = "purged"].thread = None
        BY DEF NoMessage
      <3>3. /\ \A o \in Message : message[o].thread \in {t} => message'[o].thread = None
            /\ \A o \in Message : message[o].thread \notin {t} => message'[o] = message[o]
        BY <3>1, <3>2
      <3> QED BY <3>3, RanksKept
    <2> QED BY <2>1, <2>2
  <1> QED BY <1>1, <1>2, <1>3 DEF Next, StayNext

LEMMA AlwaysRanked == Spec => [](Typed /\ Ranked)
  BY InitRanked, StepRanks, AlwaysTyped, PTL DEF Spec

\* Only the first of a thread's waiting messages starts.
LEMMA FirstStarts ==
  ASSUME Typed, Ranked, [Next]_vars, NEW m \in Message,
         message[m].state = "pending", message'[m].state = "started",
         NEW o \in PendingMessages(ThreadOf(m)) \ {m}
  PROVE  message[m].sequence < message[o].sequence
  <1>1. CASE StayNext
    <2>1. message[m].state # "absent" /\ message'[m] # message[m]
      OBVIOUS
    <2>2. Starts(m) \/ Changes(m) \/ \E r \in Message, a \in Attempt : Reads(m, r, a)
      BY <1>1, <2>1, MessageKept
    <2>3. ASSUME Changes(m) \/ \E r \in Message, a \in Attempt : Reads(m, r, a)
          PROVE  FALSE
      <3>1. \/ \E v \in {"removed", "consumed"} : message' = [message EXCEPT ![m].state = v]
            \/ \E v : message' = [message EXCEPT ![m].version = v]
        BY <2>3 DEF Changes, Reads
      <3> QED BY <3>1, OneColumn
    <2>4. PICK t \in Thread : FirstPending(t, m)
      BY <2>2, <2>3 DEF Starts
    <2>5. ThreadOf(m) = t /\ message[m].sequence <= message[o].sequence
      BY <2>4 DEF FirstPending, PendingMessages, ThreadOf
    <2>6. message[o].thread = message[m].thread /\ message[m].thread # None /\ o \in Message \ {m}
      BY <2>5, NoneAssumption DEF PendingMessages, ThreadOf
    <2>7. message[o].sequence # message[m].sequence
      BY <2>6 DEF Ranked
    <2>8. message[o].sequence \in Nat /\ message[m].sequence \in Nat
      BY <2>6 DEF Typed, TypeOK, MessageRow
    <2> QED BY <2>5, <2>7, <2>8
  <1>2. CASE DeletionNext
    <2>1. message'[m].state \in {"purged", "pending"}
      BY <1>2 DEF DeletionNext, DeleteThread, PurgeThread, NoMessage
    <2> QED BY <2>1
  <1> QED BY <1>1, <1>2 DEF Next, StayNext

\* Waiting messages start in the order they were accepted, past edits, removals and
\* cancelled runs: startNextQueuedMessage takes the least sequence of the thread, and
\* every message of a thread gets a sequence above those it has.
THEOREM WhatCameFirstStaysFirst == Spec => QueueIsFifo
  <1>1. Typed /\ Ranked /\ [Next]_vars
        => [\A m \in Message :
              (message[m].state = "pending" /\ message'[m].state = "started")
                => \A o \in PendingMessages(ThreadOf(m)) \ {m} :
                     message[m].sequence < message[o].sequence]_vars
    BY FirstStarts
  <1> QED BY <1>1, AlwaysRanked, PTL DEF Spec, QueueIsFifo

(***************************************************************************)
(* Steers and the runs they join.                                          *)
(***************************************************************************)
Steering(m) == message[m].state \in {"pending", "consumed"}

\* A message that waits for a run or was read by it names a run of its thread,
\* and a steer one of its own model.
SteersJoin ==
  \A m \in Message : Steering(m) =>
    /\ message[m].target \in Message
    /\ run[message[m].target].status # "absent"
    /\ ThreadOf(message[m].target) = ThreadOf(m)
    /\ message[m].mode = "steer" => message[m].model = message[message[m].target].model
    /\ message[m].state = "consumed" => message[m].mode = "steer"

LEMMA InitJoined == Init => SteersJoin
  BY DEF Init, SteersJoin, Steering, NoMessage

\* A message that waits joined an active run of its thread.
LEMMA SubmittedJoins ==
  ASSUME Typed, NEW m \in Message, Submits(m), message'[m].state \in {"pending", "consumed"}
  PROVE  /\ message'[m].target \in Message /\ run[message'[m].target].status # "absent"
         /\ ThreadOf(message'[m].target) = message'[m].thread
         /\ message'[m].mode = "steer" => message'[m].model = message[message'[m].target].model
         /\ message'[m].state = "pending"
  <1>1. PICK t \in Thread, mode \in {"none", "steer", "queue"}, model \in Model :
          \/ \E state \in {"plain", "started"}, target \in Message \cup {None} :
               message' = [message EXCEPT ![m] = NewMessage(t, mode, model, state, target)]
          \/ \E r \in ActiveRuns(t) :
               /\ Joins(mode, model, r)
               /\ message' = [message EXCEPT ![m] = NewMessage(t, mode, model, "pending", r)]
    BY DEF Submits
  <1>2. \A state, target :
          message' = [message EXCEPT ![m] = NewMessage(t, mode, model, state, target)]
            => /\ message'[m].state = state /\ message'[m].target = target
               /\ message'[m].thread = t /\ message'[m].mode = mode /\ message'[m].model = model
    BY DEF Typed, TypeOK, NewMessage
  <1>3. PICK r \in ActiveRuns(t) :
          /\ Joins(mode, model, r)
          /\ message' = [message EXCEPT ![m] = NewMessage(t, mode, model, "pending", r)]
    BY <1>1, <1>2
  <1> QED BY <1>2, <1>3 DEF ActiveRuns, AllActiveRuns, IsActive, ActiveStatus, Joins

LEMMA StepJoins ==
  ASSUME Typed, Typed', Lifecycle!Safe, SteersJoin, [Next]_vars
  PROVE  SteersJoin'
  <1> SUFFICES ASSUME NEW m \in Message, message'[m].state \in {"pending", "consumed"}
               PROVE  /\ message'[m].target \in Message
                      /\ run'[message'[m].target].status # "absent"
                      /\ message'[message'[m].target].thread = message'[m].thread
                      /\ message'[m].mode = "steer"
                           => message'[m].model = message'[message'[m].target].model
                      /\ message'[m].state = "consumed" => message'[m].mode = "steer"
    BY DEF SteersJoin, Steering, ThreadOf
  <1>1. CASE StayNext
    <2>1. CASE message[m].state = "absent"
      <3>1. Submits(m)
        <4>1. message'[m] # message[m]
          BY <2>1
        <4>2. ASSUME NEW o \in Message,
                     \/ Submits(o) \/ Starts(o) \/ Changes(o)
                     \/ \E r \in Message, a \in Attempt : Reads(o, r, a)
              PROVE  o = m
          <5>1. o # m => message'[m] = message[m]
            BY <4>2 DEF Submits, Starts, Changes, Reads, Typed, TypeOK
          <5> QED BY <4>1, <5>1
        <4>3. ~Starts(m) /\ ~Changes(m) /\ ~\E r \in Message, a \in Attempt : Reads(m, r, a)
          BY <2>1 DEF Starts, Changes, Reads, FirstPending, Editable, PendingMessages
        <4> QED BY <1>1, <4>1, <4>2, <4>3, MessageMoves
      <3>2. /\ message'[m].target \in Message /\ run[message'[m].target].status # "absent"
            /\ ThreadOf(message'[m].target) = message'[m].thread
            /\ message'[m].mode = "steer" => message'[m].model = message[message'[m].target].model
            /\ message'[m].state = "pending"
        BY <3>1, SubmittedJoins
      <3>3. /\ run'[message'[m].target].status # "absent"
            /\ message'[message'[m].target] = message[message'[m].target]
        BY <1>1, <3>2, RunsGoOn
      <3> QED BY <3>2, <3>3 DEF ThreadOf
    <2>2. CASE message[m].state # "absent"
      <3>1. /\ message'[m].thread = message[m].thread /\ message'[m].mode = message[m].mode
            /\ message'[m].model = message[m].model /\ message'[m].target = message[m].target
            /\ message[m].state # "pending" => message'[m] = message[m]
            /\ \/ message'[m] = message[m]
               \/ Starts(m) \/ Changes(m) \/ \E r \in Message, a \in Attempt : Reads(m, r, a)
        BY <1>1, <2>2, MessageKept
      <3>2. Steering(m)
        BY <3>1 DEF Steering
      <3>3. /\ message[m].target \in Message
            /\ run[message[m].target].status # "absent"
            /\ ThreadOf(message[m].target) = ThreadOf(m)
            /\ message[m].mode = "steer" => message[m].model = message[message[m].target].model
            /\ message[m].state = "consumed" => message[m].mode = "steer"
        BY <3>2 DEF SteersJoin
      <3>4. /\ run'[message[m].target].status # "absent"
            /\ message'[message[m].target] = message[message[m].target]
        BY <1>1, <3>3, RunsGoOn
      <3>5. message'[m].state = "consumed" => message[m].mode = "steer"
        <4>1. CASE message'[m] = message[m]
          BY <3>3, <4>1
        <4>2. CASE Starts(m) \/ Changes(m)
          <5>1. /\ message[m].state = "pending"
                /\ \/ message' = [message EXCEPT ![m].state = "started"]
                   \/ message' = [message EXCEPT ![m].state = "removed"]
                   \/ message' = [message EXCEPT ![m].version = message[m].version + 1]
            BY <4>2 DEF Starts, Changes, FirstPending, Editable, PendingMessages
          <5>2. message'[m].state \in {"started", "removed", message[m].state}
            BY <5>1, OneColumn
          <5> QED BY <5>1, <5>2
        <4>3. CASE \E r \in Message, a \in Attempt : Reads(m, r, a)
          BY <4>3 DEF Reads
        <4> QED BY <3>1, <4>1, <4>2, <4>3
      <3> QED BY <3>1, <3>3, <3>4, <3>5 DEF ThreadOf
    <2> QED BY <2>1, <2>2
  <1>2. CASE DeletionNext
    <2> PICK t \in Thread : DeleteThread(t) \/ PurgeThread(t)
      BY <1>2 DEF DeletionNext
    <2>1. CASE DeleteThread(t)
      BY <2>1 DEF DeleteThread, SteersJoin, Steering, ThreadOf
    <2>2. CASE PurgeThread(t)
      <3>1. \A o \in Message :
              /\ message[o].thread = t => message'[o].state = "purged"
              /\ message[o].thread # t => message'[o] = message[o] /\ run'[o] = run[o]
        BY <2>2 DEF PurgeThread, NoMessage
      <3> QED BY <3>1 DEF SteersJoin, Steering, ThreadOf
    <2> QED BY <2>1, <2>2
  <1> QED BY <1>1, <1>2 DEF Next, StayNext

LEMMA AlwaysJoined == Spec => [](Typed /\ SteersJoin)
  <1>1. Typed /\ Typed' /\ Lifecycle!Safe /\ SteersJoin /\ [Next]_vars => SteersJoin'
    BY StepJoins
  <1> QED BY <1>1, InitJoined, AlwaysTyped, AlwaysSafe, PTL DEF Spec

(***************************************************************************)
(* The sessions of a run's attempts and its saved session.                 *)
(***************************************************************************)
\* The session of a ends: its run completes, or it asks a person and saves.
Closes(r, a) ==
  /\ session[r][a].phase = "open" /\ Owns(r, a)
  /\ session' = [session EXCEPT ![r][a].phase = "closed"]
  /\ UNCHANGED claim
  /\ UNCHANGED checkpoint \/ checkpoint' = [checkpoint EXCEPT ![r] = session[r][a].held]

\* Requests, commands and workspaces do not touch what attempts hold.
LEMMA OthersTouchNoSession ==
  ASSUME \/ SubmitNext \/ QueueNext \/ RunNext \/ CommandNext \/ WorkspaceNext \/ DispatchNext
         \/ UNCHANGED vars
  PROVE  UNCHANGED << claim, session, checkpoint >>
  <1>1. CASE SubmitNext
    BY <1>1 DEF SubmitNext, SubmitRun, SubmitPending
  <1>2. CASE QueueNext
    BY <1>2 DEF QueueNext, StartQueuedMessage, EditPending, RemovePending
  <1>3. CASE RunNext
    BY <1>3 DEF RunNext, RequestCancel, StartRun, FinishRun
  <1>4. CASE CommandNext
    <2>1. ASSUME NEW c, NEW r, NEW a, NEW access, BeginCommand(c, r, a, access)
          PROVE  UNCHANGED << claim, session, checkpoint >>
      BY <2>1 DEF BeginCommand
    <2>2. ASSUME NEW c, AdmitCommand(c) \/ MarkRunning(c) \/ SettleCommand(c) \/ MarkUnknown(c)
          PROVE  UNCHANGED << claim, session, checkpoint >>
      BY <2>2 DEF AdmitCommand, MarkRunning, SettleCommand, MarkUnknown, UpdateCommand
    <2> QED BY <1>4, <2>1, <2>2 DEF CommandNext
  <1>5. CASE WorkspaceNext
    <2>1. ASSUME NEW t, \/ CreateWorkspace(t) \/ CancelTransition(t) \/ RequestWake(t)
                        \/ ResetWorkspace(t)
          PROVE  UNCHANGED << claim, session, checkpoint >>
      BY <2>1 DEF CreateWorkspace, CancelTransition, RequestWake, ResetWorkspace
    <2>2. ASSUME NEW t, NEW state, UpdateWorkspace(t, state) \/ BeginTransition(t, state)
          PROVE  UNCHANGED << claim, session, checkpoint >>
      BY <2>2 DEF UpdateWorkspace, BeginTransition
    <2>3. ASSUME NEW t, NEW waiting, NEW missing, Cleanup(t, waiting, missing)
          PROVE  UNCHANGED << claim, session, checkpoint >>
      BY <2>3 DEF Cleanup
    <2> QED BY <1>5, <2>1, <2>2, <2>3 DEF WorkspaceNext
  <1>6. CASE DispatchNext \/ UNCHANGED vars
    BY <1>6 DEF DispatchNext, MarkDelivered, vars
  <1> QED BY <1>1, <1>2, <1>3, <1>4, <1>5, <1>6

\* What can happen to the sessions of attempts and to the saved ones.
LEMMA SessionMoves ==
  ASSUME StayNext
  PROVE  \/ UNCHANGED << claim, session, checkpoint >>
         \/ \E r \in Message, a \in Attempt :
              \/ CheckWaits(r, a) \/ ClaimExecution(r, a) \/ OpenSession(r, a)
              \/ PollSteers(r, a) \/ SaveTurn(r, a) \/ ConsumeSteer(r, a) \/ Closes(r, a)
  <1>1. CASE SessionNext
    <2>1. ASSUME NEW r, NEW a, CompleteRun(r, a)
          PROVE  Closes(r, a)
      BY <2>1 DEF CompleteRun, MayComplete, Closes
    <2> QED BY <1>1, <2>1 DEF SessionNext
  <1>2. CASE QuestionNext
    <2>1. ASSUME NEW r, NEW a, NEW q, NEW handoff, PublishQuestion(r, a, q, handoff)
          PROVE  Closes(r, a)
      BY <2>1 DEF PublishQuestion, MayPublish, SaveAndClose, Closes
    <2>2. ASSUME NEW q, Answer(q)
          PROVE  UNCHANGED << claim, session, checkpoint >>
      BY <2>2 DEF Answer
    <2>3. ASSUME NEW x, ResumeQuestions(x) \/ TakeBrowser(x) \/ HandBack(x)
          PROVE  UNCHANGED << claim, session, checkpoint >>
      BY <2>3 DEF ResumeQuestions, TakeBrowser, HandBack, AnswerRow
    <2> QED BY <1>2, <2>1, <2>2, <2>3 DEF QuestionNext
  <1>3. CASE GitNext
    <2>1. ASSUME NEW r, NEW a, NEW g, PublishProposal(r, a, g)
          PROVE  Closes(r, a)
      BY <2>1 DEF PublishProposal, MayPublish, SaveAndClose, Closes
    <2>2. ASSUME NEW g, Lapse(g) \/ RejectWrite(g) \/ \E d \in {"approved", "rejected"} : Decide(g, d)
          PROVE  UNCHANGED << claim, session, checkpoint >>
      BY <2>2 DEF Lapse, RejectWrite, Decide
    <2>3. ASSUME NEW g, \/ \E a \in Attempt : ClaimWrite(g, a)
                        \/ \E x \in {"succeeded", "failed", "unknown"} : FinishWrite(g, x)
          PROVE  UNCHANGED << claim, session, checkpoint >>
      BY <2>3 DEF ClaimWrite, FinishWrite
    <2>4. ASSUME NEW r, ExpireApprovals(r) \/ ResumeApproval(r)
          PROVE  UNCHANGED << claim, session, checkpoint >>
      BY <2>4 DEF ExpireApprovals, ResumeApproval
    <2> QED BY <1>3, <2>1, <2>2, <2>3, <2>4 DEF GitNext
  <1>4. CASE \/ SubmitNext \/ QueueNext \/ RunNext \/ CommandNext \/ WorkspaceNext \/ DispatchNext
             \/ UNCHANGED vars
    BY <1>4, OthersTouchNoSession
  <1> QED BY <1>1, <1>2, <1>3, <1>4 DEF StayNext

\* One attempt's session becomes row.
Becomes(r, a, row) == session' = [session EXCEPT ![r][a] = row]

LEMMA OneSession ==
  ASSUME Typed, NEW r \in Message, NEW a \in Attempt, NEW row \in SessionRow, Becomes(r, a, row)
  PROVE  /\ session'[r][a] = row
         /\ \A s \in Message, b \in Attempt : s # r \/ b # a => session'[s][b] = session[s][b]
  BY DEF Typed, TypeOK, Becomes

\* Looking for what a run waits for.
LEMMA CheckedColumns ==
  ASSUME Typed, NEW r \in Message, NEW a \in Attempt, CheckWaits(r, a)
  PROVE  /\ session'[r][a].phase = "checked" /\ session'[r][a].offered = session[r][a].offered
         /\ \A s \in Message, b \in Attempt : s # r \/ b # a => session'[s][b] = session[s][b]
  <1> DEFINE row == [session[r][a] EXCEPT !.phase = "checked",
                      !.generation = workspace[ThreadOf(r)].generation]
  <1>1. session[r][a] \in SessionRow
    BY DEF Typed, TypeOK
  <1>2. row \in SessionRow /\ row.phase = "checked" /\ row.offered = session[r][a].offered
    <2>1. workspace[ThreadOf(r)].generation \in 0 .. MaxGeneration
      BY RunHasThread DEF CheckWaits, IsActive, ActiveStatus, Typed, TypeOK, WorkspaceRow
    <2> QED BY <1>1, <2>1 DEF SessionRow
  <1>3. Becomes(r, a, row)
    BY DEF CheckWaits, Typed, TypeOK, Becomes
  <1> HIDE DEF row
  <1> QED BY <1>2, <1>3, OneSession

\* Restoring the saved session.
LEMMA OpenedColumns ==
  ASSUME Typed, NEW r \in Message, NEW a \in Attempt, OpenSession(r, a)
  PROVE  /\ session'[r][a].phase = "open" /\ session'[r][a].held = checkpoint[r]
         /\ session'[r][a].offered = session[r][a].offered
         /\ \A s \in Message, b \in Attempt : s # r \/ b # a => session'[s][b] = session[s][b]
  <1> DEFINE row == [session[r][a] EXCEPT !.phase = "open", !.held = checkpoint[r]]
  <1>1. session[r][a] \in SessionRow
    BY DEF Typed, TypeOK
  <1>2. row \in SessionRow /\ row.phase = "open" /\ row.held = checkpoint[r]
         /\ row.offered = session[r][a].offered
    <2>1. checkpoint[r] \in Seq(Entry)
      BY DEF Typed, TypeOK
    <2> QED BY <1>1, <2>1 DEF SessionRow
  <1>3. Becomes(r, a, row)
    BY DEF OpenSession, Restored, Typed, TypeOK, Becomes
  <1> HIDE DEF row
  <1> QED BY <1>2, <1>3, OneSession

\* Closing a session.
LEMMA ClosedColumns ==
  ASSUME Typed, NEW r \in Message, NEW a \in Attempt, Closes(r, a)
  PROVE  /\ session'[r][a].phase = "closed" /\ session'[r][a].offered = session[r][a].offered
         /\ \A s \in Message, b \in Attempt : s # r \/ b # a => session'[s][b] = session[s][b]
  <1> DEFINE row == [session[r][a] EXCEPT !.phase = "closed"]
  <1>1. session[r][a] \in SessionRow
    BY DEF Typed, TypeOK
  <1>2. row \in SessionRow /\ row.phase = "closed" /\ row.offered = session[r][a].offered
    BY <1>1 DEF SessionRow
  <1>3. Becomes(r, a, row)
    BY DEF Closes, Typed, TypeOK, Becomes
  <1> HIDE DEF row
  <1> QED BY <1>2, <1>3, OneSession

\* Saving a turn.
LEMMA SavedColumns ==
  ASSUME Typed, NEW r \in Message, NEW a \in Attempt, SaveTurn(r, a)
  PROVE  /\ \E p \in Rewritten(session[r][a].held) :
              /\ checkpoint' = [checkpoint EXCEPT ![r] = Append(p, Turn)]
              /\ session'[r][a].held = Append(p, Turn)
         /\ session'[r][a].phase = "open" /\ session'[r][a].offered = session[r][a].offered
         /\ \A s \in Message, b \in Attempt : s # r \/ b # a => session'[s][b] = session[s][b]
         /\ UNCHANGED << message, run, claim >>
         /\ run[r].owner = a /\ session[r][a].phase = "open" /\ ~IsTerminal(r)
  <1>1. session[r][a] \in SessionRow
    BY DEF Typed, TypeOK
  <1>2. PICK p \in Rewritten(session[r][a].held) :
          /\ session' = [session EXCEPT ![r][a].held = Append(p, Turn)]
          /\ checkpoint' = [checkpoint EXCEPT ![r] = Append(p, Turn)]
    BY Zenon DEF SaveTurn
  <1> DEFINE entries == Append(p, Turn)
  <1>3. UNCHANGED << message, run, claim >>
    BY Zenon DEF SaveTurn
  <1>4. run[r].owner = a /\ session[r][a].phase = "open" /\ ~IsTerminal(r)
    BY Zenon DEF SaveTurn, MaySave, Owns
  <1>8. entries \in Seq(Entry)
    <2>1. Turn \in Entry
      BY LimitAssumption DEF Turn, Entry
    <2>2. p \in Seq(Entry)
      BY <1>1, RewrittenTyped DEF SessionRow
    <2> QED BY <2>1, <2>2
  <1>9. session' = [session EXCEPT ![r][a].held = entries] /\ checkpoint' = [checkpoint EXCEPT ![r] = entries]
    BY <1>2
  <1> HIDE DEF entries
  <1> DEFINE row == [session[r][a] EXCEPT !.held = entries]
  <1>5. row \in SessionRow /\ row.phase = "open" /\ row.held = entries
        /\ row.offered = session[r][a].offered
    BY <1>1, <1>4, <1>8 DEF SessionRow
  <1>6. Becomes(r, a, row)
    BY <1>9 DEF Typed, TypeOK, Becomes
  <1> HIDE DEF row
  <1>7. /\ session'[r][a] = row
        /\ \A s \in Message, b \in Attempt : s # r \/ b # a => session'[s][b] = session[s][b]
    BY <1>5, <1>6, OneSession
  <1>10. checkpoint' = [checkpoint EXCEPT ![r] = Append(p, Turn)] /\ session'[r][a].held = Append(p, Turn)
    BY <1>5, <1>7, <1>9 DEF entries
  <1> QED BY <1>3, <1>4, <1>5, <1>7, <1>10

\* Reading a steer.
LaterOffers(r, a) == Tail(session[r][a].offered)
HeldAndRead(r, a) == Append(session[r][a].held, FirstOffer(r, a))

LEMMA ReadColumns ==
  ASSUME Typed, NEW r \in Message, NEW a \in Attempt, ConsumeSteer(r, a)
  PROVE  /\ checkpoint' = [checkpoint EXCEPT ![r] = HeldAndRead(r, a)]
         /\ session'[r][a].phase = "open" /\ session'[r][a].held = HeldAndRead(r, a)
         /\ session'[r][a].offered = LaterOffers(r, a)
         /\ \A x \in Message, b \in Attempt : x # r \/ b # a => session'[x][b] = session[x][b]
         /\ session[r][a].offered # << >> /\ FirstOffer(r, a) \in Entry
         /\ UNCHANGED << run, claim >>
         /\ run[r].owner = a /\ session[r][a].phase = "open" /\ ~IsTerminal(r)
         /\ Reads(FirstOffer(r, a).message, r, a)
  <1> DEFINE s       == Head(session[r][a].offered)
             entries == Append(session[r][a].held, s)
  <1>1. session[r][a] \in SessionRow
    BY DEF Typed, TypeOK
  <1>2. /\ session' = [session EXCEPT ![r][a].held = entries, ![r][a].offered = Tail(@)]
        /\ checkpoint' = [checkpoint EXCEPT ![r] = entries]
        /\ session[r][a].offered # << >>
        /\ message[s.message].state = "pending" /\ message[s.message].target = r
        /\ message[s.message].mode = "steer"
        /\ message' = [message EXCEPT ![s.message].state = "consumed"]
        /\ UNCHANGED << run, claim >>
    BY Zenon DEF ConsumeSteer
  <1>3. run[r].owner = a /\ session[r][a].phase = "open" /\ ~IsTerminal(r)
    BY Zenon DEF ConsumeSteer, MaySave, Owns
  <1>4. s \in Entry /\ entries \in Seq(Entry) /\ Tail(session[r][a].offered) \in Seq(Entry)
    <2>1. /\ session[r][a].held \in Seq(Entry) /\ session[r][a].offered \in Seq(Entry)
          /\ session[r][a].offered # << >>
      BY <1>1, <1>2 DEF SessionRow
    <2> QED BY <2>1
  <1> HIDE DEF entries, s
  <1> DEFINE row == [session[r][a] EXCEPT !.held = entries, !.offered = Tail(session[r][a].offered)]
  <1>5. row \in SessionRow /\ row.phase = "open" /\ row.held = entries
        /\ row.offered = Tail(session[r][a].offered)
    BY <1>1, <1>3, <1>4 DEF SessionRow
  <1>6. Becomes(r, a, row)
    BY <1>2 DEF Typed, TypeOK, Becomes
  <1> HIDE DEF row
  <1>7. /\ session'[r][a] = row
        /\ \A x \in Message, b \in Attempt : x # r \/ b # a => session'[x][b] = session[x][b]
    BY <1>5, <1>6, OneSession
  <1>8. Reads(s.message, r, a)
    BY Zenon, <1>2 DEF Reads, FirstOffer, s
  <1>9. s = FirstOffer(r, a) /\ entries = HeldAndRead(r, a) /\ Tail(session[r][a].offered) = LaterOffers(r, a)
    BY Zenon DEF entries, s, FirstOffer, HeldAndRead, LaterOffers
  <1> QED BY <1>2, <1>3, <1>4, <1>5, <1>7, <1>8, <1>9

\* Polling for steers.
LEMMA PolledColumns ==
  ASSUME Typed, NEW r \in Message, NEW a \in Attempt, PollSteers(r, a)
  PROVE  /\ \E s \in InOrder(NewSteers(r, a)) :
              s \in Seq(Entry) /\ session'[r][a].offered = session[r][a].offered \o s
         /\ session'[r][a].phase = "open" /\ session'[r][a].held = session[r][a].held
         /\ \A x \in Message, b \in Attempt : x # r \/ b # a => session'[x][b] = session[x][b]
         /\ UNCHANGED << message, run, claim, checkpoint >>
         /\ run[r].owner = a /\ session[r][a].phase = "open"
  <1>1. session[r][a] \in SessionRow
    BY DEF Typed, TypeOK
  <1>2. PICK s \in InOrder(NewSteers(r, a)) : session' = [session EXCEPT ![r][a].offered = @ \o s]
    BY Zenon DEF PollSteers
  <1>3. UNCHANGED << message, run, claim, checkpoint >>
    BY Zenon DEF PollSteers
  <1>4. run[r].owner = a /\ session[r][a].phase = "open"
    BY Zenon DEF PollSteers, Owns
  <1>5. s \in Seq(Entry)
    <2>1. Cardinality(NewSteers(r, a)) \in Nat
      BY FS_Subset, FS_CardinalityType, FiniteAssumption DEF NewSteers
    <2>2. s \in [1 .. Cardinality(NewSteers(r, a)) -> Entry]
      BY DEF InOrder, NewSteers, Entry
    <2> QED BY <2>1, <2>2
  <1> DEFINE all == session[r][a].offered \o s
             row == [session[r][a] EXCEPT !.offered = all]
  <1>6. Becomes(r, a, row)
    BY <1>2 DEF Typed, TypeOK, Becomes
  <1>9. all \in Seq(Entry)
    <2>1. session[r][a].offered \in Seq(Entry)
      BY <1>1 DEF SessionRow
    <2> QED BY <1>5, <2>1
  <1> HIDE DEF all
  <1>7. row \in SessionRow /\ row.phase = "open" /\ row.held = session[r][a].held /\ row.offered = all
    BY <1>1, <1>4, <1>9 DEF SessionRow
  <1> HIDE DEF row
  <1>8. /\ session'[r][a] = row
        /\ \A x \in Message, b \in Attempt : x # r \/ b # a => session'[x][b] = session[x][b]
    BY <1>6, <1>7, OneSession
  <1> QED BY <1>3, <1>4, <1>5, <1>7, <1>8, Zenon DEF all

\* What a step on threads that stay does to one attempt's session, to its
\* token and to the saved session of a run.
LEMMA SessionOf ==
  ASSUME Typed, StayNext, NEW r \in Message, NEW a \in Attempt
  PROVE  /\ \/ session'[r][a] = session[r][a]
            \/ CheckWaits(r, a) \/ OpenSession(r, a) \/ PollSteers(r, a)
            \/ SaveTurn(r, a) \/ ConsumeSteer(r, a) \/ Closes(r, a)
         /\ claim[r][a] => claim'[r][a]
         /\ \/ checkpoint'[r] = checkpoint[r]
            \/ \E b \in Attempt : SaveTurn(r, b) \/ ConsumeSteer(r, b)
            \/ \E b \in Attempt : Closes(r, b) /\ checkpoint'[r] = session[r][b].held
  <1> claim \in [Message -> [Attempt -> BOOLEAN]] /\ checkpoint \in [Message -> Seq(Entry)]
    BY DEF Typed, TypeOK
  <1>1. CASE UNCHANGED << claim, session, checkpoint >>
    BY <1>1
  <1>2. ASSUME NEW x \in Message, NEW b \in Attempt, CheckWaits(x, b) \/ OpenSession(x, b)
        PROVE  UNCHANGED << claim, checkpoint >>
    BY <1>2 DEF CheckWaits, OpenSession
  <1>3. ASSUME NEW x \in Message, NEW b \in Attempt, CheckWaits(x, b) \/ OpenSession(x, b)
        PROVE  session'[r][a] = session[r][a] \/ CheckWaits(r, a) \/ OpenSession(r, a)
    BY <1>3, CheckedColumns, OpenedColumns
  <1>4. ASSUME NEW x \in Message, NEW b \in Attempt, ClaimExecution(x, b)
        PROVE  UNCHANGED << session, checkpoint >> /\ (claim[r][a] => claim'[r][a])
    BY <1>4 DEF ClaimExecution
  <1>5. ASSUME NEW x \in Message, NEW b \in Attempt, PollSteers(x, b)
        PROVE  /\ UNCHANGED << claim, checkpoint >>
               /\ session'[r][a] = session[r][a] \/ PollSteers(r, a)
    BY <1>5, PolledColumns
  <1>6. ASSUME NEW x \in Message, NEW b \in Attempt, SaveTurn(x, b)
        PROVE  /\ UNCHANGED claim
               /\ session'[r][a] = session[r][a] \/ SaveTurn(r, a)
               /\ checkpoint'[r] = checkpoint[r] \/ x = r
    <2>1. PICK p \in Rewritten(session[x][b].held) :
            /\ checkpoint' = [checkpoint EXCEPT ![x] = Append(p, Turn)]
            /\ session'[x][b].held = Append(p, Turn)
      BY <1>6, SavedColumns
    <2>2. /\ UNCHANGED claim
          /\ \A y \in Message, c \in Attempt : y # x \/ c # b => session'[y][c] = session[y][c]
      BY <1>6, SavedColumns
    <2>3. checkpoint'[r] = checkpoint[r] \/ x = r
      BY <2>1
    <2> QED BY <1>6, <2>2, <2>3
  <1>7. ASSUME NEW x \in Message, NEW b \in Attempt, ConsumeSteer(x, b)
        PROVE  /\ UNCHANGED claim
               /\ session'[r][a] = session[r][a] \/ ConsumeSteer(r, a)
               /\ checkpoint'[r] = checkpoint[r] \/ x = r
    <2>1. /\ UNCHANGED claim
          /\ checkpoint' = [checkpoint EXCEPT ![x] = HeldAndRead(x, b)]
          /\ \A y \in Message, c \in Attempt : y # x \/ c # b => session'[y][c] = session[y][c]
      BY <1>7, ReadColumns
    <2> QED BY <1>7, <2>1
  <1>8. ASSUME NEW x \in Message, NEW b \in Attempt, Closes(x, b)
        PROVE  /\ UNCHANGED claim
               /\ session'[r][a] = session[r][a] \/ Closes(r, a)
               /\ checkpoint'[r] = checkpoint[r] \/ (x = r /\ checkpoint'[r] = session[r][b].held)
    <2>1. session'[r][a] = session[r][a] \/ Closes(r, a)
      BY <1>8, ClosedColumns
    <2>2. checkpoint'[r] = checkpoint[r] \/ (x = r /\ checkpoint'[r] = session[r][b].held)
      BY <1>8 DEF Closes
    <2> QED BY <1>8, <2>1, <2>2 DEF Closes
  <1> QED BY <1>1, <1>2, <1>3, <1>4, <1>5, <1>6, <1>7, <1>8, SessionMoves

\* The owner of a run holds its token, only a claimant opens a session, and no
\* session is offered a steer before.
Tokens ==
  \A r \in Message, a \in Attempt :
    /\ run[r].owner = a => claim[r][a] /\ run[r].status # "absent"
    /\ session[r][a].phase = "open" => claim[r][a]
    /\ session[r][a].phase \in {"none", "checked"} => session[r][a].offered = << >>

LEMMA InitTokens == Init => Tokens
  BY NoneAssumption DEF Init, Tokens, NoRun, NoSession

\* An owner was the owner or claims now.
LEMMA OwnerWas ==
  ASSUME Typed, StayNext, NEW r \in Message, NEW a \in Attempt, run'[r].owner = a
  PROVE  run[r].owner = a \/ ClaimExecution(r, a)
  <1>1. CASE \E s \in Message, b \in Attempt : ClaimExecution(s, b)
    <2> PICK s \in Message, b \in Attempt : ClaimExecution(s, b)
      BY <1>1
    <2>1. run' = [run EXCEPT ![s] = [run[s] EXCEPT !.owner = b,
                                       !.generation = workspace[ThreadOf(s)].generation]]
      BY DEF ClaimExecution, Typed, TypeOK
    <2>2. s # r => run'[r] = run[r]
      BY <2>1 DEF Typed, TypeOK
    <2>3. run'[s].owner = b
      BY <2>1 DEF Typed, TypeOK, RunRow
    <2> QED BY <2>2, <2>3
  <1>2. CASE ~\E s \in Message, b \in Attempt : ClaimExecution(s, b)
    BY <1>2, OnlyClaimsMakeOwners, NoneAssumption DEF OwnersKept, StayNext, Next
  <1> QED BY <1>1, <1>2

LEMMA StepTokens ==
  ASSUME Typed, Typed', Lifecycle!Safe, Tokens, [Next]_vars
  PROVE  Tokens'
  <1> SUFFICES ASSUME NEW r \in Message, NEW a \in Attempt
               PROVE  /\ run'[r].owner = a => claim'[r][a] /\ run'[r].status # "absent"
                      /\ session'[r][a].phase = "open" => claim'[r][a]
                      /\ session'[r][a].phase \in {"none", "checked"} => session'[r][a].offered = << >>
    BY DEF Tokens
  <1>0. /\ run[r].owner = a => claim[r][a] /\ run[r].status # "absent"
        /\ session[r][a].phase = "open" => claim[r][a]
        /\ session[r][a].phase \in {"none", "checked"} => session[r][a].offered = << >>
    BY DEF Tokens
  <1>1. CASE StayNext
    <2>1. /\ \/ session'[r][a] = session[r][a]
             \/ CheckWaits(r, a) \/ OpenSession(r, a) \/ PollSteers(r, a)
             \/ SaveTurn(r, a) \/ ConsumeSteer(r, a) \/ Closes(r, a)
          /\ claim[r][a] => claim'[r][a]
      BY <1>1, SessionOf
    <2>2. run'[r].owner = a => claim'[r][a] /\ run'[r].status # "absent"
      <3>1. CASE run[r].owner = a
        BY <1>0, <1>1, <2>1, <3>1, RunsGoOn
      <3>2. CASE ClaimExecution(r, a)
        <4>1. claim' = [claim EXCEPT ![r][a] = TRUE] /\ IsActive(r)
          BY <3>2 DEF ClaimExecution, MayClaim
        <4>2. claim'[r][a]
          BY <4>1 DEF Typed, TypeOK
        <4>3. run[r].status # "absent"
          BY <4>1 DEF IsActive, ActiveStatus
        <4> QED BY <1>1, <4>2, <4>3, RunsGoOn
      <3> QED BY <1>1, <3>1, <3>2, OwnerWas
    <2>3. CASE session'[r][a] = session[r][a]
      BY <1>0, <2>1, <2>2, <2>3
    <2>4. CASE CheckWaits(r, a)
      <3>1. session'[r][a].phase = "checked" /\ session'[r][a].offered = session[r][a].offered
        BY <2>4, CheckedColumns
      <3>2. session[r][a].phase = "none"
        BY <2>4 DEF CheckWaits
      <3> QED BY <1>0, <2>2, <3>1, <3>2
    <2>5. CASE OpenSession(r, a)
      <3>1. session'[r][a].phase = "open"
        BY <2>5, OpenedColumns
      <3>2. run[r].owner = a
        BY <2>5 DEF OpenSession, Owns
      <3> QED BY <1>0, <2>1, <2>2, <3>1, <3>2
    <2>6. CASE PollSteers(r, a) \/ SaveTurn(r, a) \/ ConsumeSteer(r, a)
      <3>1. session'[r][a].phase = "open" /\ session[r][a].phase = "open"
        <4>1. CASE PollSteers(r, a)
          BY <4>1, PolledColumns
        <4>2. CASE SaveTurn(r, a)
          BY <4>2, SavedColumns
        <4>3. CASE ConsumeSteer(r, a)
          BY <4>3, ReadColumns
        <4> QED BY <2>6, <4>1, <4>2, <4>3
      <3> QED BY <1>0, <2>1, <2>2, <3>1
    <2>7. CASE Closes(r, a)
      <3>1. session'[r][a].phase = "closed"
        BY <2>7, ClosedColumns
      <3> QED BY <2>2, <3>1
    <2> QED BY <2>1, <2>3, <2>4, <2>5, <2>6, <2>7
  <1>2. CASE DeletionNext
    <2> PICK t \in Thread : DeleteThread(t) \/ PurgeThread(t)
      BY <1>2 DEF DeletionNext
    <2>1. CASE DeleteThread(t)
      BY <1>0, <2>1 DEF DeleteThread
    <2>2. CASE PurgeThread(t)
      <3>1. \/ run'[r] = run[r] /\ claim'[r] = claim[r] /\ session'[r] = session[r]
            \/ run'[r] = NoRun /\ session'[r][a] = NoSession
        BY <2>2 DEF PurgeThread
      <3>2. NoRun.owner # a /\ NoSession.phase # "open" /\ NoSession.offered = << >>
        BY NoneAssumption DEF NoRun, NoSession
      <3> QED BY <1>0, <3>1, <3>2
    <2> QED BY <2>1, <2>2
  <1> QED BY <1>1, <1>2 DEF Next, StayNext

(***************************************************************************)
(* What the owner's session shares with the rows.                          *)
(***************************************************************************)
\* a is the attempt that works on r: its session is open and it owns the run.
Holds(r, a) == session[r][a].phase = "open" /\ run[r].owner = a

\* What the owner holds is what is saved, so every save of it is an addition.
HeldIsSaved ==
  \A r \in Message, a \in Attempt : Holds(r, a) => session[r][a].held = checkpoint[r]

\* s is a steer for r that still waits, with the text it was offered with.
AsOffered(rows, s, r) ==
  /\ s.message \in Message
  /\ rows[s.message].state = "pending" /\ rows[s.message].version = s.version
  /\ rows[s.message].target = r /\ rows[s.message].mode = "steer"

Distinct(offers) ==
  \A i, j \in DOMAIN offers : offers[i].message = offers[j].message => i = j

Offers ==
  \A r \in Message, a \in Attempt : (Holds(r, a) /\ IsActive(r)) =>
    /\ \A i \in DOMAIN session[r][a].offered : AsOffered(message, session[r][a].offered[i], r)
    /\ Distinct(session[r][a].offered)

\* The entries of a saved session that stand for m.
At(entries, m) == {i \in DOMAIN entries : entries[i].message = m}

OnceRead ==
  /\ \A m \in Message : message[m].state = "consumed" =>
       \E i \in DOMAIN checkpoint[message[m].target] :
         /\ At(checkpoint[message[m].target], m) = {i}
         /\ checkpoint[message[m].target][i].version = message[m].version
  /\ \A r \in Message, m \in Message : At(checkpoint[r], m) # {} =>
       message[m].state = "consumed" /\ message[m].target = r

Sessions == SteersJoin /\ Tokens /\ HeldIsSaved /\ Offers /\ OnceRead

LEMMA InitSessions == Init => Sessions
  <1> SUFFICES ASSUME Init PROVE Sessions
    OBVIOUS
  <1>1. HeldIsSaved /\ Offers
    BY NoneAssumption DEF Init, HeldIsSaved, Offers, Holds, NoSession
  <1>2. OnceRead
    <2>1. \A m \in Message : message[m].state # "consumed"
      BY DEF Init, NoMessage
    <2>2. \A r \in Message : checkpoint[r] = << >>
      BY DEF Init
    <2>3. \A m : At(<< >>, m) = {}
      BY DEF At
    <2> QED BY <2>1, <2>2, <2>3 DEF OnceRead
  <1> QED BY <1>1, <1>2, InitJoined, InitTokens DEF Sessions

\* Who works on a run worked on it before.
LEMMA HeldWas ==
  ASSUME Typed, Tokens, StayNext, NEW r \in Message, NEW a \in Attempt,
         session'[r][a].phase = "open", run'[r].owner = a
  PROVE  run[r].owner = a /\ run[r].status # "absent"
  <1>1. CASE ClaimExecution(r, a)
    <2>1. ~claim[r][a] /\ UNCHANGED session
      BY <1>1 DEF ClaimExecution, MayClaim
    <2> QED BY <2>1 DEF Tokens
  <1> QED BY <1>1, OwnerWas DEF Tokens

\* The saved session of a run is rewritten or added to by its owner, or left as it is.
LEMMA CheckpointMoves ==
  ASSUME Typed, HeldIsSaved, StayNext, NEW r \in Message
  PROVE  \/ checkpoint'[r] = checkpoint[r]
         \/ \E b \in Attempt : SaveTurn(r, b) /\ \E p \in Rewritten(checkpoint[r]) :
                                                 checkpoint'[r] = Append(p, Turn)
         \/ \E b \in Attempt : /\ ConsumeSteer(r, b)
                                /\ checkpoint'[r] = Append(checkpoint[r], FirstOffer(r, b))
  <1> checkpoint \in [Message -> Seq(Entry)]
    BY DEF Typed, TypeOK
  <1>1. ASSUME NEW b \in Attempt, SaveTurn(r, b)
        PROVE  \E p \in Rewritten(checkpoint[r]) : checkpoint'[r] = Append(p, Turn)
    <2>1. run[r].owner = b /\ session[r][b].phase = "open"
      BY <1>1, SavedColumns
    <2>2. session[r][b].held = checkpoint[r]
      BY <2>1 DEF HeldIsSaved, Holds
    <2>3. PICK p \in Rewritten(session[r][b].held) : checkpoint' = [checkpoint EXCEPT ![r] = Append(p, Turn)]
      BY <1>1, SavedColumns
    <2> QED BY <2>2, <2>3
  <1>2. ASSUME NEW b \in Attempt, ConsumeSteer(r, b)
        PROVE  checkpoint'[r] = Append(checkpoint[r], FirstOffer(r, b))
    <2>1. /\ checkpoint' = [checkpoint EXCEPT ![r] = HeldAndRead(r, b)]
          /\ run[r].owner = b /\ session[r][b].phase = "open"
      BY <1>2, ReadColumns
    <2>2. session[r][b].held = checkpoint[r]
      BY <2>1 DEF HeldIsSaved, Holds
    <2> QED BY <2>1, <2>2 DEF HeldAndRead
  <1>3. ASSUME NEW b \in Attempt, Closes(r, b)
        PROVE  session[r][b].held = checkpoint[r]
    BY <1>3 DEF Closes, Owns, HeldIsSaved, Holds
  <1>4. \/ checkpoint'[r] = checkpoint[r]
        \/ \E b \in Attempt : SaveTurn(r, b) \/ ConsumeSteer(r, b)
        \/ \E b \in Attempt : Closes(r, b) /\ checkpoint'[r] = session[r][b].held
    <2>1. CASE Attempt = {}
      BY <2>1, SessionMoves
    <2>2. CASE Attempt # {}
      BY <2>2, SessionOf
    <2> QED BY <2>1, <2>2
  <1> QED BY <1>1, <1>2, <1>3, <1>4

LEMMA StepHeld ==
  ASSUME Typed, Tokens, HeldIsSaved, StayNext
  PROVE  HeldIsSaved'
  <1> SUFFICES ASSUME NEW r \in Message, NEW a \in Attempt,
                      session'[r][a].phase = "open", run'[r].owner = a
               PROVE  session'[r][a].held = checkpoint'[r]
    BY DEF HeldIsSaved, Holds
  <1> checkpoint \in [Message -> Seq(Entry)]
    BY DEF Typed, TypeOK
  <1>1. run[r].owner = a
    BY HeldWas
  <1>2. CASE SaveTurn(r, a)
    <2>1. PICK p \in Rewritten(session[r][a].held) :
            /\ checkpoint' = [checkpoint EXCEPT ![r] = Append(p, Turn)]
            /\ session'[r][a].held = Append(p, Turn)
      BY <1>2, SavedColumns
    <2> QED BY <2>1
  <1>3. CASE ConsumeSteer(r, a)
    BY <1>3, ReadColumns
  <1>4. CASE ~SaveTurn(r, a) /\ ~ConsumeSteer(r, a)
    <2>1. ASSUME NEW b \in Attempt, SaveTurn(r, b) \/ ConsumeSteer(r, b)
          PROVE  FALSE
      <3>1. run[r].owner = b
        <4>1. CASE SaveTurn(r, b)
          BY <4>1, SavedColumns
        <4>2. CASE ConsumeSteer(r, b)
          BY <4>2, ReadColumns
        <4> QED BY <2>1, <4>1, <4>2
      <3> QED BY <1>1, <1>4, <2>1, <3>1
    <2>2. checkpoint'[r] = checkpoint[r]
      BY <2>1, CheckpointMoves
    <2>3. CASE session'[r][a] = session[r][a]
      BY <1>1, <2>2, <2>3 DEF HeldIsSaved, Holds
    <2>4. CASE CheckWaits(r, a) \/ Closes(r, a)
      BY <2>4, CheckedColumns, ClosedColumns
    <2>5. CASE OpenSession(r, a)
      BY <2>2, <2>5, OpenedColumns
    <2>6. CASE PollSteers(r, a)
      <3>1. session'[r][a].held = session[r][a].held /\ session[r][a].phase = "open"
        BY <2>6, PolledColumns
      <3> QED BY <1>1, <2>2, <3>1 DEF HeldIsSaved, Holds
    <2> QED BY <1>4, <2>3, <2>4, <2>5, <2>6, SessionOf
  <1> QED BY <1>2, <1>3, <1>4

\* A steer that waits for a run that goes on is neither changed nor started: only
\* a session of the run takes it.
LEMMA OfferStays ==
  ASSUME Typed, Typed', Lifecycle!Safe, OneActiveRun', SteersJoin, StayNext,
         NEW r \in Message, IsActive(r), run'[r].status \in ActiveStatus,
         NEW m \in Message, message[m].state = "pending", message[m].mode = "steer",
         message[m].target = r
  PROVE  message'[m] = message[m] \/ \E a \in Attempt : Reads(m, r, a)
  <1>1. ~Changes(m)
    BY DEF Changes, Editable
  <1>2. ~Starts(m)
    <2> SUFFICES ASSUME Starts(m) PROVE FALSE
      OBVIOUS
    <2>1. run'[m].status \in ActiveStatus
      BY DEF Starts, ActiveStatus
    <2>2. run[r].status # "absent" /\ run[m].status = "absent"
      BY DEF IsActive, ActiveStatus, Typed, References, StartedHasRun
    <2>3. message'[r] = message[r] /\ message'[m].thread = message[m].thread
      BY <2>2, RunsGoOn, MessageKept
    <2>4. message[r].thread = message[m].thread
      BY DEF SteersJoin, Steering, ThreadOf
    <2>5. m = r
      BY <2>1, <2>3, <2>4 DEF OneActiveRun, AllActiveRuns, IsActive, ThreadOf
    <2> QED BY <2>2, <2>5
  <1>3. ASSUME NEW x \in Message, NEW a \in Attempt, Reads(m, x, a)
        PROVE  x = r
    BY <1>3 DEF Reads
  <1> QED BY <1>1, <1>2, <1>3, MessageKept

\* Offers that were current stay so while nobody reads.
LEMMA CurrentStays ==
  ASSUME NEW rows, NEW later, NEW s, NEW r, AsOffered(rows, s, r),
         later[s.message] = rows[s.message]
  PROVE  AsOffered(later, s, r)
  BY DEF AsOffered

\* What a poll offers is current, and new to the session.
LEMMA PolledOffers ==
  ASSUME Typed, NEW r \in Message, NEW a \in Attempt,
         NEW s \in InOrder(NewSteers(r, a)), s \in Seq(Entry)
  PROVE  /\ \A i \in DOMAIN s : AsOffered(message, s[i], r)
         /\ Distinct(s)
         /\ \A i \in DOMAIN s, j \in DOMAIN session[r][a].offered :
              session[r][a].offered[j].message # s[i].message
  <1>1. /\ \A i \in DOMAIN s : s[i].message \in NewSteers(r, a)
        /\ \A i \in DOMAIN s : s[i].version = message[s[i].message].version
        /\ \A i, j \in DOMAIN s :
             i < j => message[s[i].message].sequence < message[s[j].message].sequence
    BY DEF InOrder
  <1>2. \A i \in DOMAIN s : AsOffered(message, s[i], r)
    BY <1>1 DEF AsOffered, NewSteers
  <1>3. Distinct(s)
    <2> SUFFICES ASSUME NEW i \in DOMAIN s, NEW j \in DOMAIN s, s[i].message = s[j].message, i # j
                 PROVE  FALSE
      BY DEF Distinct
    <2>1. i \in Nat /\ j \in Nat
      OBVIOUS
    <2>2. i < j \/ j < i
      BY <2>1
    <2>3. s[i].message \in Message
      BY <1>1 DEF NewSteers
    <2>4. message[s[i].message].sequence \in Nat
      BY <2>3 DEF Typed, TypeOK, MessageRow
    <2> QED BY <1>1, <2>2, <2>4
  <1> QED BY <1>1, <1>2, <1>3 DEF NewSteers

\* Joining two lists of offers.
LEMMA JoinedOffers ==
  ASSUME NEW p \in Seq(Entry), NEW q \in Seq(Entry), NEW rows, NEW r,
         \A i \in DOMAIN p : AsOffered(rows, p[i], r), Distinct(p),
         \A i \in DOMAIN q : AsOffered(rows, q[i], r), Distinct(q),
         \A i \in DOMAIN q, j \in DOMAIN p : p[j].message # q[i].message
  PROVE  /\ \A i \in DOMAIN (p \o q) : AsOffered(rows, (p \o q)[i], r)
         /\ Distinct(p \o q)
  <1> DEFINE n == Len(p)
  <1>1. \A i \in DOMAIN (p \o q) :
          \/ i \in DOMAIN p /\ (p \o q)[i] = p[i]
          \/ i \notin DOMAIN p /\ i - n \in DOMAIN q /\ (p \o q)[i] = q[i - n]
    OBVIOUS
  <1>2. \A i \in DOMAIN (p \o q) : i \in Int /\ n \in Int
    OBVIOUS
  <1> DEFINE l == p \o q
  <1>3. ASSUME NEW i \in DOMAIN l, NEW j \in DOMAIN l, l[i].message = l[j].message
        PROVE  i = j
    <2>1. CASE i \in DOMAIN p /\ j \in DOMAIN p
      BY <1>1, <1>3, <2>1 DEF Distinct
    <2>2. CASE i \notin DOMAIN p /\ j \notin DOMAIN p
      <3>1. i - n = j - n
        BY <1>1, <1>3, <2>2 DEF Distinct
      <3> QED BY <1>2, <3>1
    <2>3. CASE i \in DOMAIN p /\ j \notin DOMAIN p
      BY <1>1, <1>3, <2>3
    <2>4. CASE i \notin DOMAIN p /\ j \in DOMAIN p
      BY <1>1, <1>3, <2>4
    <2> QED BY <2>1, <2>2, <2>3, <2>4
  <1> QED BY <1>1, <1>3 DEF Distinct

\* Reading the first offer leaves the others as they were.
LEMMA OthersStayOffered ==
  ASSUME NEW p \in Seq(Entry), p # << >>, NEW rows, NEW later, NEW r,
         \A i \in DOMAIN p : AsOffered(rows, p[i], r), Distinct(p),
         \A m \in Message : m # Head(p).message => later[m] = rows[m]
  PROVE  /\ \A i \in DOMAIN Tail(p) : AsOffered(later, Tail(p)[i], r)
         /\ Distinct(Tail(p))
  <1>1. \A i \in DOMAIN Tail(p) : i \in Nat /\ i + 1 \in DOMAIN p /\ Tail(p)[i] = p[i + 1] /\ i + 1 # 1
    OBVIOUS
  <1>2. 1 \in DOMAIN p /\ Head(p) = p[1]
    OBVIOUS
  <1>3. ASSUME NEW i \in DOMAIN Tail(p)
        PROVE  AsOffered(later, Tail(p)[i], r)
    <2>1. p[i + 1].message # Head(p).message
      BY <1>1, <1>2 DEF Distinct
    <2>2. AsOffered(rows, p[i + 1], r)
      BY <1>1
    <2>3. p[i + 1].message \in Message
      BY <2>2 DEF AsOffered
    <2> QED BY <1>1, <2>1, <2>2, <2>3, CurrentStays
  <1>4. ASSUME NEW i \in DOMAIN Tail(p), NEW j \in DOMAIN Tail(p),
               Tail(p)[i].message = Tail(p)[j].message
        PROVE  i = j
    <2>1. i + 1 = j + 1
      BY <1>1, <1>4 DEF Distinct
    <2> QED BY <1>1, <2>1
  <1> QED BY <1>3, <1>4 DEF Distinct

LEMMA StepOffers ==
  ASSUME Typed, Typed', Lifecycle!Safe, OneActiveRun', Sessions, StayNext
  PROVE  Offers'
  <1> SUFFICES ASSUME NEW r \in Message, NEW a \in Attempt, session'[r][a].phase = "open",
                      run'[r].owner = a, run'[r].status \in ActiveStatus
               PROVE  /\ \A i \in DOMAIN session'[r][a].offered :
                           AsOffered(message', session'[r][a].offered[i], r)
                      /\ Distinct(session'[r][a].offered)
    BY DEF Offers, Holds, IsActive
  <1>0. SteersJoin /\ Tokens /\ HeldIsSaved /\ Offers
    BY DEF Sessions
  <1>1. run[r].owner = a /\ run[r].status # "absent"
    BY <1>0, HeldWas
  <1>2. IsActive(r)
    BY <1>1, RunsGoOn
  <1> DEFINE old == session[r][a].offered
  <1>3. old \in Seq(Entry)
    BY DEF Typed, TypeOK, SessionRow
  <1>4. session[r][a].phase = "open" =>
          (\A i \in DOMAIN old : AsOffered(message, old[i], r)) /\ Distinct(old)
    BY <1>0, <1>1, <1>2 DEF Offers, Holds
  <1> HIDE DEF old
  <1>5. CASE ConsumeSteer(r, a)
    <2> DEFINE m == Head(old).message
    <2>1. /\ session'[r][a].offered = Tail(old) /\ old # << >>
          /\ session[r][a].phase = "open"
          /\ Reads(m, r, a)
      BY <1>5, ReadColumns DEF FirstOffer, LaterOffers, old
    <2>2. message' = [message EXCEPT ![m].state = "consumed"]
      BY <2>1 DEF Reads
    <2>3. \A o \in Message : o # m => message'[o] = message[o]
      BY <2>2 DEF Typed, TypeOK
    <2> QED BY <1>3, <1>4, <2>1, <2>3, OthersStayOffered
  <1>6. CASE ~ConsumeSteer(r, a)
    <2>1. ASSUME NEW s, AsOffered(message, s, r)
          PROVE  AsOffered(message', s, r)
      <3>1. /\ s.message \in Message /\ message[s.message].state = "pending"
            /\ message[s.message].mode = "steer" /\ message[s.message].target = r
        BY <2>1 DEF AsOffered
      <3>2. ~\E b \in Attempt : Reads(s.message, r, b)
        <4> SUFFICES ASSUME NEW b \in Attempt, Reads(s.message, r, b) PROVE FALSE
          OBVIOUS
        <4>1. ConsumeSteer(r, b)
          BY DEF Reads
        <4>2. run[r].owner = b
          BY <4>1, ReadColumns
        <4> QED BY <1>1, <1>6, <4>1, <4>2
      <3>3. message'[s.message] = message[s.message]
        BY <1>0, <1>2, <3>1, <3>2, OfferStays
      <3> QED BY <2>1, <3>3, CurrentStays
    <2>2. CASE session[r][a].phase = "open" /\ session'[r][a].offered = old
      BY <1>4, <2>1, <2>2
    <2>3. CASE session'[r][a] = session[r][a] \/ SaveTurn(r, a)
      BY <2>2, <2>3, SavedColumns DEF old
    <2>4. CASE CheckWaits(r, a) \/ Closes(r, a)
      BY <2>4, CheckedColumns, ClosedColumns
    <2>5. CASE OpenSession(r, a)
      <3>1. session'[r][a].offered = old /\ session[r][a].phase = "checked"
        <4>1. session[r][a].phase = "checked"
          BY <2>5 DEF OpenSession
        <4>2. session'[r][a].offered = session[r][a].offered
          BY <2>5, OpenedColumns
        <4> QED BY <4>1, <4>2 DEF old
      <3>2. old = << >>
        BY <1>0, <3>1 DEF Tokens, old
      <3> QED BY <3>1, <3>2 DEF Distinct
    <2>6. CASE PollSteers(r, a)
      <3>1. PICK s \in InOrder(NewSteers(r, a)) :
              s \in Seq(Entry) /\ session'[r][a].offered = old \o s
        BY <2>6, PolledColumns DEF old
      <3>2. UNCHANGED message /\ session[r][a].phase = "open"
        BY <2>6, PolledColumns
      <3>3. /\ \A i \in DOMAIN s : AsOffered(message, s[i], r)
            /\ Distinct(s)
            /\ \A i \in DOMAIN s, j \in DOMAIN old : old[j].message # s[i].message
        BY <3>1, PolledOffers DEF old
      <3> QED BY <1>3, <1>4, <3>1, <3>2, <3>3, JoinedOffers
    <2> QED BY <1>6, <2>3, <2>4, <2>5, <2>6, SessionOf
  <1> QED BY <1>5, <1>6

\* An entry more stands for its message only.
LEMMA AppendedAt ==
  ASSUME NEW p \in Seq(Entry), NEW e \in Entry, NEW m
  PROVE  /\ e.message # m => At(Append(p, e), m) = At(p, m)
         /\ e.message = m => At(Append(p, e), m) = At(p, m) \cup {Len(p) + 1}
         /\ \A i \in DOMAIN p : i \in DOMAIN Append(p, e) /\ Append(p, e)[i] = p[i]
         /\ Len(p) + 1 \in DOMAIN Append(p, e) /\ Append(p, e)[Len(p) + 1] = e
  <1>1. /\ \A i \in DOMAIN p : i \in DOMAIN Append(p, e) /\ Append(p, e)[i] = p[i]
        /\ Len(p) + 1 \in DOMAIN Append(p, e) /\ Append(p, e)[Len(p) + 1] = e
        /\ \A i \in DOMAIN Append(p, e) : i \in DOMAIN p \/ i = Len(p) + 1
    OBVIOUS
  <1> DEFINE q == Append(p, e)
             n == Len(p) + 1
  <1> HIDE DEF q, n
  <1>2. /\ \A i \in DOMAIN p : i \in DOMAIN q /\ q[i] = p[i]
        /\ n \in DOMAIN q /\ q[n] = e
        /\ \A i \in DOMAIN q : i \in DOMAIN p \/ i = n
    BY <1>1 DEF q, n
  <1>3. n \notin DOMAIN p
    BY DEF n
  <1>4. e.message # m => At(q, m) = At(p, m)
    BY <1>2, <1>3 DEF At
  <1>5. e.message = m => At(q, m) = At(p, m) \cup {n}
    BY <1>2, <1>3 DEF At
  <1> QED BY <1>2, <1>4, <1>5 DEF q, n

\* A rewriting keeps the entry of a message, wherever it puts it.
LEMMA RewrittenAt ==
  ASSUME NEW p \in Seq(Entry), NEW q \in Rewritten(p), NEW m \in Message
  PROVE  /\ At(p, m) = {} => At(q, m) = {}
         /\ \A i \in DOMAIN p : At(p, m) = {i} =>
              \E k \in DOMAIN q : At(q, m) = {k} /\ q[k] = p[i]
  <1> DEFINE texts == {p[i] : i \in DOMAIN p}
  <1>1. Turn.message # m
    BY NoneAssumption DEF Turn
  <1>2. /\ \A j \in DOMAIN q : q[j] \in texts \cup {Turn}
        /\ \A s \in texts \ {Turn} : \E k \in DOMAIN q : {j \in DOMAIN q : q[j] = s} = {k}
    <2>1. \E n \in 0 .. Len(p) : q \in [1 .. n -> texts \cup {Turn}]
      BY Zenon DEF Rewritten
    <2>2. \A s \in texts \ {Turn} : \E k \in DOMAIN q : {j \in DOMAIN q : q[j] = s} = {k}
      BY Zenon DEF Rewritten
    <2> HIDE DEF texts
    <2> QED BY <2>1, <2>2
  <1>3. \A j \in At(q, m) : \E i \in At(p, m) : q[j] = p[i]
    BY <1>1, <1>2 DEF At
  <1>4. ASSUME NEW i \in DOMAIN p, At(p, m) = {i}
        PROVE  \E k \in DOMAIN q : At(q, m) = {k} /\ q[k] = p[i]
    <2>1. p[i].message = m /\ p[i] \in texts \ {Turn}
      BY <1>1, <1>4 DEF At
    <2>2. PICK k \in DOMAIN q : {j \in DOMAIN q : q[j] = p[i]} = {k}
      BY <1>2, <2>1
    <2>3. At(q, m) = {j \in DOMAIN q : q[j] = p[i]}
      BY <1>3, <1>4, <2>1 DEF At
    <2> QED BY <2>2, <2>3
  <1> QED BY <1>3, <1>4

\* One message, one entry: what a saved session gains is a turn, or a message that
\* is read now and was not in it.
LEMMA StepRead ==
  ASSUME Typed, Typed', Lifecycle!Safe, Sessions, StayNext
  PROVE  OnceRead'
  <1>0. SteersJoin /\ Tokens /\ HeldIsSaved /\ Offers /\ OnceRead
    BY DEF Sessions
  <1> checkpoint \in [Message -> Seq(Entry)] /\ message \in [Message -> MessageRow]
    BY DEF Typed, TypeOK
  <1>1. Turn \in Entry /\ \A m \in Message : Turn.message # m
    BY LimitAssumption, NoneAssumption DEF Turn, Entry
  <1>2. ASSUME NEW r \in Message, NEW a \in Attempt, ConsumeSteer(r, a)
        PROVE  /\ FirstOffer(r, a) \in Entry /\ FirstOffer(r, a).message \in Message
               /\ Reads(FirstOffer(r, a).message, r, a)
               /\ message[FirstOffer(r, a).message].version = FirstOffer(r, a).version
    <2>1. /\ session[r][a].offered # << >> /\ FirstOffer(r, a) \in Entry
          /\ Reads(FirstOffer(r, a).message, r, a)
          /\ Holds(r, a) /\ ~IsTerminal(r)
      BY <1>2, ReadColumns DEF Holds
    <2>2. IsActive(r)
      BY <1>0, <2>1 DEF Tokens, Holds, Typed, TypeOK, RunRow, IsActive, IsTerminal
    <2>3. session[r][a].offered \in Seq(Entry)
      BY DEF Typed, TypeOK, SessionRow
    <2>4. 1 \in DOMAIN session[r][a].offered /\ FirstOffer(r, a) = session[r][a].offered[1]
      BY <2>1, <2>3 DEF FirstOffer
    <2>5. AsOffered(message, FirstOffer(r, a), r)
      BY <1>0, <2>1, <2>2, <2>4 DEF Offers
    <2> QED BY <2>1, <2>5 DEF AsOffered
  <1>3. ASSUME NEW m \in Message, message'[m].state = "consumed"
        PROVE  \E i \in DOMAIN checkpoint'[message'[m].target] :
                 /\ At(checkpoint'[message'[m].target], m) = {i}
                 /\ checkpoint'[message'[m].target][i].version = message'[m].version
    <2>1. CASE message[m].state = "consumed"
      <3> DEFINE r == message[m].target
      <3>1. message'[m] = message[m] /\ r \in Message
        BY <1>0, <2>1, MessageKept DEF SteersJoin, Steering
      <3> HIDE DEF r
      <3>2. PICK i \in DOMAIN checkpoint[r] :
              At(checkpoint[r], m) = {i} /\ checkpoint[r][i].version = message[m].version
        BY <1>0, <2>1 DEF OnceRead, r
      <3>3. ASSUME NEW q \in Seq(Entry), NEW k \in DOMAIN q, NEW e \in Entry, e.message # m,
                   checkpoint'[r] = Append(q, e), At(q, m) = {k}, q[k] = checkpoint[r][i]
            PROVE  /\ k \in DOMAIN checkpoint'[r] /\ At(checkpoint'[r], m) = {k}
                   /\ checkpoint'[r][k] = checkpoint[r][i]
        BY <3>3, AppendedAt
      <3>4. ASSUME NEW a \in Attempt, ConsumeSteer(r, a)
            PROVE  FirstOffer(r, a) \in Entry /\ FirstOffer(r, a).message # m
        <4>1. FirstOffer(r, a) \in Entry /\ Reads(FirstOffer(r, a).message, r, a)
          BY <1>2, <3>1, <3>4
        <4> QED BY <2>1, <4>1 DEF Reads
      <3>6. ASSUME NEW q \in Rewritten(checkpoint[r])
            PROVE  q \in Seq(Entry) /\ \E k \in DOMAIN q : At(q, m) = {k} /\ q[k] = checkpoint[r][i]
        <4>1. checkpoint[r] \in Seq(Entry)
          BY <3>1
        <4> QED BY <3>2, <3>6, <4>1, RewrittenTyped, RewrittenAt
      <3>5. \E k \in DOMAIN checkpoint'[r] :
              At(checkpoint'[r], m) = {k} /\ checkpoint'[r][k] = checkpoint[r][i]
        <4>1. CASE checkpoint'[r] = checkpoint[r]
          BY <3>2, <4>1
        <4>2. ASSUME NEW q \in Rewritten(checkpoint[r]), checkpoint'[r] = Append(q, Turn)
              PROVE  (\E k \in DOMAIN checkpoint'[r] :
                        At(checkpoint'[r], m) = {k} /\ checkpoint'[r][k] = checkpoint[r][i])
          <5>1. Turn \in Entry /\ Turn.message # m
            BY <1>1
          <5>2. q \in Seq(Entry)
            BY <3>6, <4>2
          <5>3. PICK k \in DOMAIN q : At(q, m) = {k} /\ q[k] = checkpoint[r][i]
            BY <3>6, <4>2
          <5> QED BY <3>3, <4>2, <5>1, <5>2, <5>3
        <4>3. ASSUME NEW a \in Attempt, ConsumeSteer(r, a),
                     checkpoint'[r] = Append(checkpoint[r], FirstOffer(r, a))
              PROVE  (\E k \in DOMAIN checkpoint'[r] :
                        At(checkpoint'[r], m) = {k} /\ checkpoint'[r][k] = checkpoint[r][i])
          <5>1. checkpoint[r] \in Seq(Entry)
            BY <3>1
          <5> QED BY <3>2, <3>3, <3>4, <4>3, <5>1
        <4> QED BY <1>0, <3>1, <4>1, <4>2, <4>3, CheckpointMoves
      <3> QED BY <3>1, <3>2, <3>5 DEF r
    <2>2. CASE message[m].state # "consumed"
      <3>1. PICK r \in Message, a \in Attempt : Reads(m, r, a)
        <4>1. ASSUME NEW o \in Message, Submits(o)
              PROVE  o # m
          <5>1. CASE o = m
            BY <1>3, <4>1, <5>1, SubmittedJoins
          <5> QED BY <5>1
        <4>2. ASSUME NEW o \in Message, Starts(o) \/ Changes(o)
              PROVE  FALSE
          <5>1. /\ message[o].state = "pending"
                /\ \/ message' = [message EXCEPT ![o].state = "started"]
                   \/ message' = [message EXCEPT ![o].state = "removed"]
                   \/ message' = [message EXCEPT ![o].version = message[o].version + 1]
            BY <4>2 DEF Starts, Changes, FirstPending, Editable, PendingMessages
          <5>2. PICK v : \/ message' = [message EXCEPT ![o].state = v] /\ v \in {"started", "removed"}
                        \/ message' = [message EXCEPT ![o].version = v]
            BY <5>1
          <5>3. /\ message'[o].state \in {"started", "removed", "pending"}
                /\ o # m => message'[m] = message[m]
            <6>1. CASE message' = [message EXCEPT ![o].state = v] /\ v \in {"started", "removed"}
              BY <6>1, OneColumn
            <6>2. CASE message' = [message EXCEPT ![o].version = v]
              BY <5>1, <6>2, OneColumn
            <6> QED BY <5>2, <6>1, <6>2
          <5> QED BY <1>3, <2>2, <5>3
        <4>3. ASSUME NEW o \in Message, Submits(o) \/ \E r \in Message, a \in Attempt : Reads(o, r, a), o # m
              PROVE  message'[m] = message[m]
          BY <4>3 DEF Submits, Reads
        <4> QED BY <1>3, <2>2, <4>1, <4>2, <4>3, MessageMoves
      <3>2. /\ ConsumeSteer(r, a) /\ m = FirstOffer(r, a).message /\ message[m].target = r
            /\ message' = [message EXCEPT ![m].state = "consumed"]
        BY <3>1 DEF Reads
      <3>3. message'[m].target = r /\ message'[m].version = message[m].version
        BY <3>2, OneColumn
      <3>4. /\ FirstOffer(r, a) \in Entry
            /\ message[m].version = FirstOffer(r, a).version
        BY <1>2, <3>2
      <3>5. checkpoint'[r] = Append(checkpoint[r], FirstOffer(r, a))
        <4>1. checkpoint' = [checkpoint EXCEPT ![r] = HeldAndRead(r, a)] /\ Holds(r, a)
          BY <3>2, ReadColumns DEF Holds
        <4>2. session[r][a].held = checkpoint[r]
          BY <1>0, <4>1 DEF HeldIsSaved
        <4> QED BY <4>1, <4>2 DEF HeldAndRead
      <3>6. At(checkpoint[r], m) = {}
        BY <1>0, <2>2 DEF OnceRead
      <3> DEFINE n == Len(checkpoint[r]) + 1
      <3>7. /\ At(checkpoint'[r], m) = {n} /\ n \in DOMAIN checkpoint'[r]
            /\ checkpoint'[r][n] = FirstOffer(r, a)
        <4> DEFINE p == checkpoint[r]
                   e == FirstOffer(r, a)
                   q == checkpoint'[r]
        <4>1. p \in Seq(Entry) /\ e \in Entry /\ e.message = m /\ q = Append(p, e) /\ At(p, m) = {}
          BY <3>2, <3>4, <3>5, <3>6
        <4> HIDE DEF p, e, q
        <4>2. At(q, m) = At(p, m) \cup {Len(p) + 1} /\ Len(p) + 1 \in DOMAIN q /\ q[Len(p) + 1] = e
          BY <4>1, AppendedAt, Zenon
        <4>3. At(q, m) = {Len(p) + 1}
          BY <4>1, <4>2
        <4> QED BY <4>2, <4>3 DEF p, e, q
      <3> HIDE DEF n
      <3> QED BY <3>3, <3>4, <3>7
    <2> QED BY <2>1, <2>2
  <1>4. ASSUME NEW r \in Message, NEW m \in Message, At(checkpoint'[r], m) # {}
        PROVE  message'[m].state = "consumed" /\ message'[m].target = r
    <2>1. CASE At(checkpoint[r], m) # {}
      <3>1. message[m].state = "consumed" /\ message[m].target = r
        BY <1>0, <2>1 DEF OnceRead
      <3> QED BY <3>1, MessageKept
    <2>2. CASE At(checkpoint[r], m) = {}
      <3>1. PICK a \in Attempt : /\ ConsumeSteer(r, a) /\ FirstOffer(r, a).message = m
                                 /\ checkpoint'[r] = Append(checkpoint[r], FirstOffer(r, a))
        <4>1. checkpoint'[r] # checkpoint[r]
          BY <1>4, <2>2
        <4>2. ASSUME NEW q \in Rewritten(checkpoint[r])
              PROVE  checkpoint'[r] # Append(q, Turn)
          <5>1. q \in Seq(Entry) /\ At(q, m) = {}
            BY <2>2, <4>2, RewrittenTyped, RewrittenAt
          <5>2. At(Append(q, Turn), m) = At(q, m)
            BY <1>1, <5>1, AppendedAt
          <5> QED BY <1>4, <5>1, <5>2
        <4>3. PICK a \in Attempt : /\ ConsumeSteer(r, a)
                                   /\ checkpoint'[r] = Append(checkpoint[r], FirstOffer(r, a))
          BY <1>0, <4>1, <4>2, CheckpointMoves
        <4>4. FirstOffer(r, a).message = m
          BY <1>2, <1>4, <2>2, <4>3, AppendedAt
        <4> QED BY <4>3, <4>4
      <3>2. Reads(m, r, a)
        BY <1>2, <3>1
      <3>3. message' = [message EXCEPT ![m].state = "consumed"] /\ message[m].target = r
        BY <3>2 DEF Reads
      <3> QED BY <3>3, OneColumn
    <2> QED BY <2>1, <2>2
  <1> QED BY <1>3, <1>4 DEF OnceRead

\* Purging a thread takes its messages and its runs together, so what stays
\* refers to what stays.
LEMMA PurgeKeepsSessions ==
  ASSUME Typed, Sessions, NEW t \in Thread, PurgeThread(t)
  PROVE  HeldIsSaved' /\ Offers' /\ OnceRead'
  <1>0. SteersJoin /\ Tokens /\ HeldIsSaved /\ Offers /\ OnceRead
    BY DEF Sessions
  <1>1. ASSUME NEW r \in Message
        PROVE  /\ message[r].thread = t =>
                    /\ message'[r].state = "purged" /\ run'[r].owner = None
                    /\ checkpoint'[r] = << >>
               /\ message[r].thread # t =>
                    /\ message'[r] = message[r] /\ run'[r] = run[r]
                    /\ session'[r] = session[r] /\ checkpoint'[r] = checkpoint[r]
    BY DEF PurgeThread, NoMessage, NoRun
  <1>2. ASSUME NEW r \in Message, NEW a \in Attempt, session'[r][a].phase = "open", run'[r].owner = a
        PROVE  message[r].thread # t
    BY <1>1, <1>2, NoneAssumption
  <1>3. HeldIsSaved'
    BY <1>0, <1>1, <1>2 DEF HeldIsSaved, Holds
  <1>4. Offers'
    <2> SUFFICES ASSUME NEW r \in Message, NEW a \in Attempt, session'[r][a].phase = "open",
                        run'[r].owner = a, run'[r].status \in ActiveStatus
                 PROVE  /\ \A i \in DOMAIN session'[r][a].offered :
                             AsOffered(message', session'[r][a].offered[i], r)
                        /\ Distinct(session'[r][a].offered)
      BY DEF Offers, Holds, IsActive
    <2>1. message[r].thread # t
      BY <1>2
    <2>2. run'[r] = run[r] /\ session'[r] = session[r]
      BY <1>1, <2>1
    <2>3. /\ \A i \in DOMAIN session[r][a].offered : AsOffered(message, session[r][a].offered[i], r)
          /\ Distinct(session[r][a].offered)
      BY <1>0, <2>2 DEF Offers, Holds, IsActive
    <2>4. ASSUME NEW s, AsOffered(message, s, r)
          PROVE  AsOffered(message', s, r)
      <3>1. s.message \in Message /\ message[s.message].thread = message[r].thread
        BY <1>0, <2>4 DEF AsOffered, SteersJoin, Steering, ThreadOf
      <3> QED BY <1>1, <2>1, <2>4, <3>1, CurrentStays
    <2> QED BY <2>2, <2>3, <2>4
  <1>5. ASSUME NEW m \in Message, message'[m].state = "consumed"
        PROVE  /\ message'[m] = message[m]
               /\ message[m].target \in Message
               /\ checkpoint'[message[m].target] = checkpoint[message[m].target]
    <2>1. message[m].thread # t /\ message'[m] = message[m]
      BY <1>1, <1>5
    <2>2. message[m].target \in Message /\ message[message[m].target].thread = message[m].thread
      BY <1>0, <1>5, <2>1 DEF SteersJoin, Steering, ThreadOf
    <2> QED BY <1>1, <2>1, <2>2
  <1>6. ASSUME NEW r \in Message, NEW m \in Message, At(checkpoint'[r], m) # {}
        PROVE  message'[m].state = "consumed" /\ message'[m].target = r
    <2>1. message[r].thread # t
      BY <1>1, <1>6 DEF At
    <2>2. message[m].state = "consumed" /\ message[m].target = r
      BY <1>0, <1>1, <1>6, <2>1 DEF OnceRead
    <2>3. message[m].thread # t
      BY <1>0, <2>1, <2>2 DEF SteersJoin, Steering, ThreadOf
    <2> QED BY <1>1, <2>2, <2>3
  <1>7. OnceRead'
    <2>1. ASSUME NEW m \in Message, message'[m].state = "consumed"
          PROVE  \E i \in DOMAIN checkpoint'[message'[m].target] :
                   /\ At(checkpoint'[message'[m].target], m) = {i}
                   /\ checkpoint'[message'[m].target][i].version = message'[m].version
      <3>1. /\ message[m].state = "consumed"
            /\ checkpoint'[message'[m].target] = checkpoint[message[m].target]
            /\ message'[m].version = message[m].version
        BY <1>5, <2>1
      <3> QED BY <1>0, <3>1 DEF OnceRead
    <2> QED BY <1>6, <2>1 DEF OnceRead
  <1> QED BY <1>3, <1>4, <1>7

LEMMA StepSessions ==
  ASSUME Typed, Typed', Lifecycle!Safe, OneActiveRun', Sessions, [Next]_vars
  PROVE  Sessions'
  <1>1. SteersJoin' /\ Tokens'
    BY StepJoins, StepTokens DEF Sessions
  <1>2. CASE StayNext
    BY <1>1, <1>2, StepHeld, StepOffers, StepRead DEF Sessions
  <1>3. ASSUME NEW t \in Thread, DeleteThread(t)
        PROVE  Sessions'
    <2>1. UNCHANGED << message, run, claim, session, checkpoint >>
      BY <1>3 DEF DeleteThread
    <2>2. HeldIsSaved'
      BY <2>1 DEF Sessions, HeldIsSaved, Holds
    <2>3. Offers'
      BY <2>1 DEF Sessions, Offers, Holds, IsActive
    <2>4. OnceRead'
      BY <2>1 DEF Sessions, OnceRead
    <2> QED BY <1>1, <2>2, <2>3, <2>4 DEF Sessions
  <1>4. ASSUME NEW t \in Thread, PurgeThread(t)
        PROVE  Sessions'
    BY <1>1, <1>4, PurgeKeepsSessions DEF Sessions
  <1> QED BY <1>2, <1>3, <1>4 DEF Next, StayNext, DeletionNext

LEMMA AlwaysSessions == Spec => [](Typed /\ Sessions)
  <1>1. Typed /\ Typed' /\ Lifecycle!Safe /\ OneActiveRun' /\ Sessions /\ [Next]_vars => Sessions'
    BY StepSessions
  <1> QED BY <1>1, InitSessions, AlwaysTyped, AlwaysSafe, OneRunPerThread, PTL DEF Spec

\* A steer reaches one session of its own model once, as it was last edited:
\* between a poll and the save that takes the steer, the user's edits are refused
\* (updatePendingMessage), a replaced attempt's saves are (assertExecutionOwnership),
\* and an attempt that takes over starts from what was saved (loadCheckpoint).
THEOREM SteersReachOneSession == Spec => []SteersAreKept
  <1>1. Typed /\ Sessions => SteersAreKept
    <2> SUFFICES ASSUME Typed, Sessions PROVE SteersAreKept
      OBVIOUS
    <2>1. ConsumedExactlyOnce
      BY DEF Sessions, OnceRead, At, ConsumedExactlyOnce, EntriesOf
    <2>2. OfferedIsCurrent
      <3>1. ASSUME NEW r \in Message, NEW a \in Attempt,
                   session[r][a].phase = "open", Owns(r, a), IsActive(r),
                   NEW i \in DOMAIN session[r][a].offered
            PROVE  AsOffered(message, session[r][a].offered[i], r)
        BY <3>1 DEF Sessions, Offers, Holds, Owns
      <3> QED BY <3>1 DEF AsOffered, OfferedIsCurrent
    <2>3. SteersShareModel
      BY DEF Sessions, SteersJoin, Steering, SteersShareModel
    <2> QED BY <2>1, <2>2, <2>3 DEF SteersAreKept
  <1> QED BY <1>1, AlwaysSessions, PTL

-----------------------------------------------------------------------------
(***************************************************************************)
(* Commands in a workspace: who may have one in flight, beside which       *)
(* others, and in which filesystem.                                        *)
(***************************************************************************)

(***************************************************************************)
(* The inductive invariant.                                                *)
(***************************************************************************)
Open(c)  == command[c].state \in UnsettledState
Sent(c)  == command[c].state \in DispatchedState
Place(c) == ThreadOf(command[c].run)

\* Two commands in flight in one workspace are reads, on different slots.
SideBySide ==
  \A c, d \in Command : Sent(c) /\ Sent(d) /\ Place(c) = Place(d) /\ c # d =>
    command[c].access = "read" /\ command[c].slot # command[d].slot

\* They are of one run, sent by one attempt that owns it.
OneSender ==
  \A c, d \in Command : Sent(c) /\ Sent(d) /\ Place(c) = Place(d) =>
    /\ command[c].run = command[d].run
    /\ command[c].attempt = command[d].attempt
    /\ run[command[c].run].owner = command[c].attempt

OpenIsCurrent ==
  \A c \in Command : Open(c) => command[c].generation = workspace[Place(c)].generation

\* An unsettled command keeps its workspace from being paused or deleted.
OpenIsRunning ==
  \A c \in Command : Open(c) => workspace[Place(c)].state \notin {"paused", "deleted"}

Commands == SideBySide /\ OneSender /\ OpenIsCurrent /\ OpenIsRunning

LEMMA InitCommands == Init => Commands
  BY DEF Init, Commands, SideBySide, OneSender, OpenIsCurrent, OpenIsRunning, Open, Sent,
     UnsettledState, DispatchedState, NoCommand

\* What is in flight is unsettled.
LEMMA SentIsOpen == ASSUME NEW c, Sent(c) PROVE Open(c)
  BY DEF Sent, Open, DispatchedState, UnsettledState

\* An unsettled command is one of its workspace's outstanding commands.
LEMMA OpenIsOutstanding ==
  ASSUME Typed, Commands, NEW c \in Command, Open(c)
  PROVE  /\ c \in Outstanding(Place(c))
         /\ command[c].run \in Message /\ Exists(command[c].run) /\ Place(c) \in Thread
  <1>1. command[c].state # "absent"
    BY DEF Open, UnsettledState
  <1>2. command[c].run \in Message /\ Exists(command[c].run) /\ Place(c) \in Thread
    BY <1>1, CommandHasRun, RunHasThread DEF Exists, Place
  <1> QED BY <1>1, <1>2 DEF Outstanding, CommandsOf, Commands, OpenIsCurrent, Open, Place

\* What CommandsAreOwned says of the rows.
LEMMA CommandsOwned == Typed /\ Commands => CommandsAreOwned
  <1> SUFFICES ASSUME Typed, Commands PROVE CommandsAreOwned
    OBVIOUS
  <1>1. ASSUME NEW t \in Thread, NEW c \in InFlight(t)
        PROVE  Sent(c) /\ Place(c) = t /\ c \in Command
    BY DEF InFlight, Outstanding, CommandsOf, Sent, Place, UnsettledState, DispatchedState
  <1>2. CommandExclusion
    BY <1>1 DEF CommandExclusion, Commands, SideBySide
  <1>3. DispatchedByOwner
    BY <1>1 DEF DispatchedByOwner, Commands, OneSender
  <1>4. NoCommandOutlivesWorkspace
    BY DEF NoCommandOutlivesWorkspace, Workspace, Commands, OpenIsCurrent, Open, Place
  <1>5. StoppedIsQuiet
    BY DEF StoppedIsQuiet, Outstanding, CommandsOf, Commands, OpenIsRunning, Open, Place
  <1> QED BY <1>2, <1>3, <1>4, <1>5 DEF CommandsAreOwned

(***************************************************************************)
(* Steps that open nothing.                                                *)
(***************************************************************************)
\* A command stays where it is and as it was begun.
Same(c) ==
  /\ command'[c].run = command[c].run
  /\ command'[c].attempt = command[c].attempt
  /\ command'[c].generation = command[c].generation
  /\ command'[c].access = command[c].access
  /\ command'[c].slot = command[c].slot
  /\ message'[command[c].run].thread = Place(c)

\* The workspace of c is the one it was, and not stopped.
SameWorkspace(c) ==
  /\ workspace'[Place(c)].generation = workspace[Place(c)].generation
  /\ workspace'[Place(c)].state \in {"paused", "deleted"} =>
       workspace[Place(c)].state \in {"paused", "deleted"}

\* When commands are only settled, and those that are not keep their place and
\* their sender, the commands stay in order.
LEMMA CommandsKept ==
  ASSUME Commands,
         \A c \in Command : Open(c)' =>
           /\ Open(c) /\ Same(c) /\ SameWorkspace(c)
           /\ Sent(c)' => Sent(c) /\ run'[command[c].run].owner = run[command[c].run].owner
  PROVE  Commands'
  <1>1. ASSUME NEW c \in Command, Open(c)'
        PROVE  /\ Open(c) /\ Place(c)' = Place(c)
               /\ command'[c].generation = workspace'[Place(c)].generation
               /\ workspace'[Place(c)].state \notin {"paused", "deleted"}
    BY <1>1 DEF Same, SameWorkspace, Place, ThreadOf, Commands, OpenIsCurrent, OpenIsRunning
  <1>2. ASSUME NEW c \in Command, Sent(c)'
        PROVE  /\ Sent(c) /\ Place(c)' = Place(c) /\ Same(c)
               /\ run'[command[c].run].owner = run[command[c].run].owner
    <2>1. Open(c)'
      BY <1>2 DEF Open, Sent, DispatchedState, UnsettledState
    <2> QED BY <1>1, <1>2, <2>1
  <1>3. SideBySide'
    BY <1>2 DEF Commands, SideBySide, Same
  <1>4. OneSender'
    BY <1>2 DEF Commands, OneSender, Same
  <1>5. OpenIsCurrent' /\ OpenIsRunning'
    BY <1>1 DEF OpenIsCurrent, OpenIsRunning
  <1> QED BY <1>3, <1>4, <1>5 DEF Commands

\* An unsettled command's run exists after the step.
LEMMA OpenHasRunNext ==
  ASSUME Typed'
  PROVE  \A c \in Command : Open(c)' =>
           command'[c].run \in Message /\ run'[command'[c].run].status # "absent"
  BY DEF Typed, References, RowsHaveRun, NoCommand, Open, UnsettledState

\* Dropping the queued commands of a run changes no other row.
LEMMA DroppedRows ==
  ASSUME NEW r, DropQueuedCommands(r), NEW c \in Command
  PROVE  command'[c] = command[c] \/ command'[c] = [command[c] EXCEPT !.state = "failed"]
  BY DEF DropQueuedCommands

\* A row that has failed is settled.
LEMMA FailedIsSettled ==
  ASSUME Typed, NEW c \in Command, command'[c] = [command[c] EXCEPT !.state = "failed"]
  PROVE  ~(Open(c)')
  BY DEF Typed, TypeOK, CommandRow, Open, UnsettledState

\* A step that neither claims nor deletes, and of the commands at most drops
\* queued ones.
LEMMA QuietCommands ==
  ASSUME Typed, Typed', Lifecycle!Safe, Commands, UNCHANGED workspace,
         \/ SubmitNext \/ QueueNext \/ RunNext \/ SessionNext \/ QuestionNext
         \/ GitNext \/ DispatchNext \/ UNCHANGED vars,
         ~\E r \in Message, a \in Attempt : ClaimExecution(r, a),
         command' = command \/ \E r \in Message : DropQueuedCommands(r)
  PROVE  Commands'
  <1> SUFFICES ASSUME NEW c \in Command, Open(c)'
               PROVE  /\ Open(c) /\ Same(c) /\ SameWorkspace(c)
                      /\ Sent(c)' => Sent(c) /\ run'[command[c].run].owner = run[command[c].run].owner
    BY CommandsKept
  <1>1. command'[c] = command[c]
    BY DroppedRows, FailedIsSettled
  <1>2. Open(c) /\ (Sent(c)' => Sent(c))
    BY <1>1 DEF Open, Sent
  <1>3. Exists(command[c].run) /\ run'[command[c].run].status # "absent"
    BY <1>1, <1>2, OpenIsOutstanding, OpenHasRunNext
  <1>4. message'[command[c].run].thread = Place(c)
    BY <1>3, RunsKeepThread DEF Place, Exists
  <1>5. run'[command[c].run].owner = run[command[c].run].owner
    BY <1>3, OnlyClaimsMakeOwners DEF OwnersKept, Exists, Next
  <1> QED BY <1>1, <1>2, <1>4, <1>5 DEF Same, SameWorkspace

\* Purging a thread purges its commands.
LEMMA DeletionKeepsCommands ==
  ASSUME Typed, Commands, DeletionNext
  PROVE  Commands'
  <1> PICK t \in Thread : DeleteThread(t) \/ PurgeThread(t)
    BY DEF DeletionNext
  <1> SUFFICES ASSUME NEW c \in Command, Open(c)'
               PROVE  /\ Open(c) /\ Same(c) /\ SameWorkspace(c)
                      /\ Sent(c)' => Sent(c) /\ run'[command[c].run].owner = run[command[c].run].owner
    BY CommandsKept
  <1>1. CASE DeleteThread(t)
    <2>1. UNCHANGED << message, run, command, workspace >>
      BY <1>1 DEF DeleteThread
    <2>2. Open(c) /\ (Sent(c)' => Sent(c))
      BY <2>1 DEF Open, Sent
    <2> QED BY <2>1, <2>2 DEF Same, SameWorkspace, Place, ThreadOf
  <1>2. CASE PurgeThread(t)
    <2> DEFINE M == {m \in Message : message[m].thread = t}
    <2>1. command'[c] = IF command[c].run \in M THEN NoCommand ELSE command[c]
      BY <1>2 DEF PurgeThread
    <2>2. command'[c] = command[c] /\ command[c].run \notin M
      BY <2>1 DEF Open, UnsettledState, NoCommand
    <2>3. Open(c) /\ (Sent(c)' => Sent(c))
      BY <2>2 DEF Open, Sent
    <2>4. command[c].run \in Message \ M /\ Place(c) \in Thread \ {t}
      BY <2>2, <2>3, OpenIsOutstanding DEF Place, ThreadOf
    <2>5. message'[command[c].run] = message[command[c].run] /\ run'[command[c].run] = run[command[c].run]
      BY <1>2, <2>4 DEF PurgeThread
    <2>6. workspace'[Place(c)] = workspace[Place(c)]
      BY <1>2, <2>4 DEF PurgeThread, Typed, TypeOK
    <2> QED BY <2>2, <2>3, <2>5, <2>6 DEF Same, SameWorkspace, Place, ThreadOf
  <1> QED BY <1>1, <1>2

\* claimExecutionOwnership passes a run on only when nothing of it is in flight.
LEMMA ClaimKeepsCommands ==
  ASSUME Typed, Commands, NEW r \in Message, NEW a \in Attempt, ClaimExecution(r, a)
  PROVE  Commands'
  <1>1. UNCHANGED << message, workspace >> /\ DropQueuedCommands(r)
    BY DEF ClaimExecution
  <1>2. \A s \in Message \ {r} : run'[s] = run[s]
    BY DEF ClaimExecution, Typed, TypeOK
  <1>3. ASSUME NEW c \in Command, Sent(c) PROVE command[c].run # r
    <2>1. Open(c)
      BY <1>3, SentIsOpen
    <2>2. command[c].generation = workspace[ThreadOf(command[c].run)].generation
      BY <2>1 DEF Commands, OpenIsCurrent, Place
    <2> QED BY <1>3, <2>2 DEF ClaimExecution, MayClaim, Sent
  <1> SUFFICES ASSUME NEW c \in Command, Open(c)'
               PROVE  /\ Open(c) /\ Same(c) /\ SameWorkspace(c)
                      /\ Sent(c)' => Sent(c) /\ run'[command[c].run].owner = run[command[c].run].owner
    BY CommandsKept
  <1>4. command'[c] = command[c]
    BY <1>1, DroppedRows, FailedIsSettled
  <1>5. Open(c) /\ (Sent(c)' => Sent(c))
    BY <1>4 DEF Open, Sent
  <1>6. command[c].run \in Message
    BY <1>5, OpenIsOutstanding
  <1> QED BY <1>1, <1>2, <1>3, <1>4, <1>5, <1>6 DEF Same, SameWorkspace, Place, ThreadOf

(***************************************************************************)
(* The transactions of commands.ts.                                        *)
(***************************************************************************)
\* A command is begun for the filesystem there is, which is not stopped.
LEMMA BeginKeepsCommands ==
  ASSUME Typed, Commands, NEW c \in Command, NEW r \in Message, NEW a \in Attempt,
         NEW access \in {"exclusive", "read"}, BeginCommand(c, r, a, access)
  PROVE  Commands'
  <1>1. /\ command'[c].state = "queued" /\ command'[c].run = r
        /\ command'[c].generation = workspace[ThreadOf(r)].generation
        /\ workspace[ThreadOf(r)].state \notin {"paused", "deleted"}
    BY DEF BeginCommand, Typed, TypeOK
  <1>2. \A d \in Command \ {c} : command'[d] = command[d]
    BY DEF BeginCommand, Typed, TypeOK
  <1>3. UNCHANGED << message, run, workspace >>
    BY DEF BeginCommand
  <1>4. ASSUME NEW d \in Command, Sent(d)'
        PROVE  Sent(d) /\ command'[d] = command[d] /\ Place(d)' = Place(d)
    BY <1>1, <1>2, <1>3, <1>4 DEF Sent, DispatchedState, Place, ThreadOf
  <1>5. SideBySide' /\ OneSender'
    BY <1>3, <1>4 DEF Commands, SideBySide, OneSender
  <1>6. ASSUME NEW d \in Command, Open(d)'
        PROVE  /\ command'[d].generation = workspace'[Place(d)'].generation
               /\ workspace'[Place(d)'].state \notin {"paused", "deleted"}
    <2>1. CASE d = c
      BY <1>1, <1>3, <2>1 DEF Place, ThreadOf
    <2>2. CASE d # c
      BY <1>2, <1>3, <1>6, <2>2 DEF Commands, OpenIsCurrent, OpenIsRunning, Open, Place, ThreadOf
    <2> QED BY <2>1, <2>2
  <1>7. OpenIsCurrent' /\ OpenIsRunning'
    BY <1>6 DEF OpenIsCurrent, OpenIsRunning
  <1> QED BY <1>5, <1>7 DEF Commands

\* A command is admitted for the owner of its run, beside what it may run beside.
LEMMA AdmitKeepsCommands ==
  ASSUME Typed, Commands, NEW c \in Command, AdmitCommand(c)
  PROVE  Commands'
  <1>1. PICK s \in 0 .. MaxReads :
          /\ LowestFree(c, s)
          /\ command' = [command EXCEPT ![c].state = "pending", ![c].slot = s]
    BY DEF AdmitCommand
  <1>2. /\ Open(c) /\ ~Sent(c)
        /\ run[command[c].run].owner = command[c].attempt
        /\ InTurn(c)
        /\ \A d \in Dispatched(c) : /\ command[d].run = command[c].run
                                    /\ command[d].attempt = command[c].attempt
        /\ UNCHANGED << message, run, workspace >>
    BY DEF AdmitCommand, Owns, Open, UnsettledState, Sent, DispatchedState
  <1>3. /\ command'[c].state = "pending" /\ command'[c].slot = s
        /\ command'[c].run = command[c].run /\ command'[c].attempt = command[c].attempt
        /\ command'[c].access = command[c].access
        /\ command'[c].generation = command[c].generation
        /\ \A d \in Command \ {c} : command'[d] = command[d]
    BY <1>1 DEF Typed, TypeOK, CommandRow
  <1>4. \A d \in Command : Place(d)' = Place(d)
    BY <1>2, <1>3 DEF Place, ThreadOf
  <1>5. ASSUME NEW d \in Command, Sent(d), Place(d) = Place(c)
        PROVE  d \in Dispatched(c)
    <2>1. d \in Outstanding(Place(d))
      BY <1>5, SentIsOpen, OpenIsOutstanding
    <2> QED BY <1>5, <2>1 DEF Dispatched, Place, Sent, DispatchedState
  <1>6. ASSUME NEW d \in Command, Sent(d), Place(d) = Place(c)
        PROVE  /\ command[c].access = "read" /\ command[d].access = "read"
               /\ command[d].slot # s
    <2>1. d \in Dispatched(c)
      BY <1>5, <1>6
    <2>2. command[c].access # "exclusive" /\ command[d].access = "read"
      BY <1>2, <2>1 DEF InTurn
    <2>3. s \in FreeSlots(c)
      BY <1>1, <2>2 DEF LowestFree
    <2>4. command[c].access = "read"
      BY <2>2 DEF Typed, TypeOK, CommandRow
    <2> QED BY <2>1, <2>2, <2>3, <2>4 DEF FreeSlots
  <1>7. SideBySide'
    BY <1>2, <1>3, <1>4, <1>6 DEF Commands, SideBySide, Sent
  <1>8. OneSender'
    BY <1>2, <1>3, <1>4, <1>5 DEF Commands, OneSender, Sent
  <1>9. \A d \in Command : Open(d)' => Open(d)
    BY <1>2, <1>3 DEF Open
  <1>10. OpenIsCurrent' /\ OpenIsRunning'
    BY <1>2, <1>3, <1>4, <1>9 DEF Commands, OpenIsCurrent, OpenIsRunning
  <1> QED BY <1>7, <1>8, <1>10 DEF Commands

\* What is learned of a command settles it, or leaves it in flight.
LEMMA ReportKeepsCommands ==
  ASSUME Typed, Commands, NEW c \in Command, MarkRunning(c) \/ SettleCommand(c) \/ MarkUnknown(c)
  PROVE  Commands'
  <1>1. PICK to \in {"running", "completed", "failed", "unknown"} :
          /\ command' = [command EXCEPT ![c].state = to]
          /\ Open(c) /\ (to \in {"running", "unknown"} => Sent(c))
          /\ UNCHANGED << message, run, workspace >>
    BY DEF MarkRunning, SettleCommand, MarkUnknown, UpdateCommand, Open, Sent, UnsettledState,
       DispatchedState
  <1> SUFFICES ASSUME NEW d \in Command, Open(d)'
               PROVE  /\ Open(d) /\ Same(d) /\ SameWorkspace(d)
                      /\ Sent(d)' => Sent(d) /\ run'[command[d].run].owner = run[command[d].run].owner
    BY CommandsKept
  <1>2. Open(d) /\ (Sent(d)' => Sent(d))
    BY <1>1 DEF Open, Sent, UnsettledState, DispatchedState, Typed, TypeOK
  <1>3. Same(d)
    BY <1>1 DEF Same, Place, ThreadOf, Typed, TypeOK, CommandRow
  <1> QED BY <1>1, <1>2, <1>3 DEF SameWorkspace

(***************************************************************************)
(* Workspaces.                                                             *)
(***************************************************************************)
\* A step that writes one workspace row, keeps its generation, and stops it only
\* when nothing is open in it.
LEMMA RowKeepsCommands ==
  ASSUME Typed, Commands, NEW t \in Thread, UNCHANGED << message, run, command >>,
         \A u \in Thread \ {t} : workspace'[u] = workspace[u],
         workspace'[t].generation = workspace[t].generation,
         workspace'[t].state \in {"paused", "deleted"} =>
           workspace[t].state \in {"paused", "deleted"} \/ Outstanding(t) = {}
  PROVE  Commands'
  <1> SUFFICES ASSUME NEW c \in Command, Open(c)'
               PROVE  /\ Open(c) /\ Same(c) /\ SameWorkspace(c)
                      /\ Sent(c)' => Sent(c) /\ run'[command[c].run].owner = run[command[c].run].owner
    BY CommandsKept
  <1>1. Open(c) /\ (Sent(c)' => Sent(c)) /\ Same(c)
    BY DEF Open, Sent, Same, Place, ThreadOf
  <1>2. SameWorkspace(c)
    BY <1>1, OpenIsOutstanding DEF SameWorkspace
  <1> QED BY <1>1, <1>2

\* A provider that lost the filesystem: every command in it fails.
LEMMA ResetKeepsCommands ==
  ASSUME Typed, Commands, NEW t \in Thread, ResetWorkspace(t)
  PROVE  Commands'
  <1>1. UNCHANGED << message, run >> /\ \A u \in Thread \ {t} : workspace'[u] = workspace[u]
    BY DEF ResetWorkspace, Typed, TypeOK
  <1>2. \A c \in Command : command'[c] = IF c \in LostCommands(t)
                                         THEN [command[c] EXCEPT !.state = "failed"] ELSE command[c]
    BY DEF ResetWorkspace
  <1> SUFFICES ASSUME NEW c \in Command, Open(c)'
               PROVE  /\ Open(c) /\ Same(c) /\ SameWorkspace(c)
                      /\ Sent(c)' => Sent(c) /\ run'[command[c].run].owner = run[command[c].run].owner
    BY CommandsKept
  <1>3. command'[c] = command[c] /\ c \notin LostCommands(t)
    BY <1>2, FailedIsSettled
  <1>4. Open(c) /\ (Sent(c)' => Sent(c))
    BY <1>3 DEF Open, Sent
  <1>5. c \in Outstanding(Place(c)) /\ Place(c) \in Thread
    BY <1>4, OpenIsOutstanding
  <1>6. Place(c) # t
    <2>1. ASSUME Place(c) = t PROVE FALSE
      <3>1. c \in CommandsOf(t) /\ command[c].generation = workspace[t].generation
        BY <1>5, <2>1 DEF Outstanding
      <3>2. command[c].generation <= workspace[t].generation
        BY <3>1 DEF Typed, TypeOK, WorkspaceRow
      <3> QED BY <1>3, <1>4, <3>1, <3>2 DEF LostCommands, Open
    <2> QED BY <2>1
  <1> QED BY <1>1, <1>3, <1>4, <1>5, <1>6 DEF Same, SameWorkspace, Place, ThreadOf

\* Pausing and deleting wait for the commands.
LEMMA WorkspaceKeepsCommands ==
  ASSUME Typed, Commands, WorkspaceNext
  PROVE  Commands'
  <1> PICK t \in Thread :
        \/ CreateWorkspace(t) \/ CancelTransition(t) \/ ResetWorkspace(t) \/ RequestWake(t)
        \/ \E state \in {"provisioning", "running", "quarantined"} : UpdateWorkspace(t, state)
        \/ \E target \in {"paused", "deleted"} : BeginTransition(t, target)
        \/ \E waiting \in Message \cup {None}, missing \in BOOLEAN : Cleanup(t, waiting, missing)
    BY DEF WorkspaceNext
  <1>0. /\ workspace \in [Thread -> WorkspaceRow]
        /\ workspace[t] \in [state : {"absent", "provisioning", "running", "paused",
                                      "deleted", "quarantined"},
                             generation : 1 .. MaxGeneration, target : {None, "paused", "deleted"}]
    BY DEF Typed, TypeOK, WorkspaceRow
  <1>1. CASE ResetWorkspace(t)
    BY <1>1, ResetKeepsCommands
  <1>2. CASE RequestWake(t)
    BY <1>2, RowKeepsCommands DEF RequestWake
  <1>3. CASE CreateWorkspace(t)
    <2>1. UNCHANGED << message, run, command >> /\ workspace' = [workspace EXCEPT ![t].state = "provisioning"]
      BY <1>3 DEF CreateWorkspace
    <2> QED BY <1>0, <2>1, RowKeepsCommands
  <1>4. CASE CancelTransition(t)
    <2>1. UNCHANGED << message, run, command >> /\ workspace' = [workspace EXCEPT ![t].target = None]
      BY <1>4 DEF CancelTransition
    <2> QED BY <1>0, <2>1, RowKeepsCommands
  <1>5. ASSUME NEW state \in {"provisioning", "running", "quarantined"}, UpdateWorkspace(t, state)
        PROVE  Commands'
    <2>1. UNCHANGED << message, run, command >> /\ workspace' = [workspace EXCEPT ![t].state = state]
      BY <1>5 DEF UpdateWorkspace
    <2> QED BY <1>0, <2>1, RowKeepsCommands
  <1>6. ASSUME NEW target \in {"paused", "deleted"}, BeginTransition(t, target)
        PROVE  Commands'
    <2>1. UNCHANGED << message, run, command >> /\ workspace' = [workspace EXCEPT ![t].target = target]
      BY <1>6 DEF BeginTransition
    <2> QED BY <1>0, <2>1, RowKeepsCommands
  <1>7. ASSUME NEW waiting \in Message \cup {None}, NEW missing \in BOOLEAN, Cleanup(t, waiting, missing)
        PROVE  Commands'
    <2>1. UNCHANGED << message, run, command >> /\ Outstanding(t) = {}
      BY <1>7 DEF Cleanup, CleanupBlocked
    <2>2. /\ \A u \in Thread \ {t} : workspace'[u] = workspace[u]
          /\ workspace'[t].generation = workspace[t].generation
      BY <1>0, <1>7 DEF Cleanup
    <2> QED BY <2>1, <2>2, RowKeepsCommands
  <1> QED BY <1>1, <1>2, <1>3, <1>4, <1>5, <1>6, <1>7

(***************************************************************************)
(* The theorem.                                                            *)
(***************************************************************************)
\* Which transactions write commands.
LEMMA WhoWritesCommands ==
  ASSUME \/ SubmitNext \/ QueueNext \/ RunNext \/ SessionNext \/ QuestionNext
         \/ GitNext \/ DispatchNext \/ UNCHANGED vars,
         ~\E r \in Message, a \in Attempt : ClaimExecution(r, a)
  PROVE  /\ UNCHANGED workspace
         /\ command' = command \/ \E r \in Message : DropQueuedCommands(r)
  <1>1. CASE SubmitNext
    BY <1>1 DEF SubmitNext, SubmitRun, SubmitPending
  <1>2. CASE QueueNext
    BY <1>2 DEF QueueNext, StartQueuedMessage, EditPending, RemovePending
  <1>3. CASE RunNext
    BY <1>3 DEF RunNext, RequestCancel, StartRun, FinishRun
  <1>4. CASE SessionNext
    <2> PICK r \in Message, a \in Attempt :
          \/ CheckWaits(r, a) \/ OpenSession(r, a)
          \/ PollSteers(r, a) \/ SaveTurn(r, a) \/ ConsumeSteer(r, a) \/ CompleteRun(r, a)
      BY <1>4 DEF SessionNext
    <2>1. CASE CheckWaits(r, a)
      BY <2>1, Zenon DEF CheckWaits
    <2>2. CASE OpenSession(r, a)
      BY <2>2, Zenon DEF OpenSession
    <2>3. CASE PollSteers(r, a)
      BY <2>3, Zenon DEF PollSteers
    <2>4. CASE SaveTurn(r, a)
      BY <2>4, Zenon DEF SaveTurn
    <2>5. CASE ConsumeSteer(r, a)
      BY <2>5, Zenon DEF ConsumeSteer
    <2>6. CASE CompleteRun(r, a)
      BY <2>6, Zenon DEF CompleteRun
    <2> QED BY <2>1, <2>2, <2>3, <2>4, <2>5, <2>6
  <1>5. CASE QuestionNext
    BY <1>5 DEF QuestionNext, PublishQuestion, Answer, ResumeQuestions, TakeBrowser, HandBack, AnswerRow
  <1>6. CASE GitNext
    BY <1>6 DEF GitNext, PublishProposal, Lapse, RejectWrite, Decide, ClaimWrite, FinishWrite,
       ExpireApprovals, ResumeApproval
  <1>7. CASE DispatchNext \/ UNCHANGED vars
    BY <1>7 DEF DispatchNext, MarkDelivered, vars
  <1> QED BY <1>1, <1>2, <1>3, <1>4, <1>5, <1>6, <1>7

\* Commands run in turn, for the attempt that owns the run, in the filesystem
\* they were begun for, whatever a replaced worker still reports, and nothing is
\* paused or replaced under them (threads/commands.ts, runs.ts, workspaces.ts).
THEOREM CommandsAreTheOwners == Spec => []CommandsAreOwned
  <1>1. Typed /\ Typed' /\ Lifecycle!Safe /\ Commands /\ [Next]_vars => Commands'
    <2> SUFFICES ASSUME Typed, Typed', Lifecycle!Safe, Commands, [Next]_vars
                 PROVE  Commands'
      OBVIOUS
    <2>1. CASE \E r \in Message, a \in Attempt : ClaimExecution(r, a)
      BY <2>1, ClaimKeepsCommands
    <2>2. CASE CommandNext
      BY <2>2, BeginKeepsCommands, AdmitKeepsCommands, ReportKeepsCommands DEF CommandNext
    <2>3. CASE WorkspaceNext
      BY <2>3, WorkspaceKeepsCommands
    <2>4. CASE DeletionNext
      BY <2>4, DeletionKeepsCommands
    <2>5. CASE /\ ~\E r \in Message, a \in Attempt : ClaimExecution(r, a)
               /\ \/ SubmitNext \/ QueueNext \/ RunNext \/ SessionNext \/ QuestionNext
                  \/ GitNext \/ DispatchNext \/ UNCHANGED vars
      BY <2>5, WhoWritesCommands, QuietCommands
    <2> QED BY <2>1, <2>2, <2>3, <2>4, <2>5 DEF Next
  <1> QED BY <1>1, InitCommands, CommandsOwned, AlwaysSafe, PTL DEF Spec
=============================================================================
