-------------------------- MODULE GitBroker_proofs --------------------------
(***************************************************************************)
(* A write to GitHub leaves at most once, is never beside another one, and *)
(* what is recorded of it is what happened.                                *)
(***************************************************************************)
EXTENDS GitBroker, FiniteSetTheorems, TLAPS

(***************************************************************************)
(* The inductive invariant.                                                *)
(***************************************************************************)
WorkerState ==
  [pc : {"idle", "access", "claim", "write", "sent", "inspect", "finish"}, op : Op \cup {None},
   read : {"not_started", None} \cup Pending, dispatch : BOOLEAN,
   outcome : Settled \cup {"unknown", None}]

Typed == TypeOK /\ worker \in [Callers -> WorkerState]

Started(g) == execution[g] \notin {"absent", "not_started"}

\* A call that has claimed its operation, looks for it or reconciles it found it
\* started; a call that writes has claimed it.
CallsKnow ==
  \A w \in Callers :
    /\ At(w, "idle") \/ At(w, "access") \/ At(w, "claim") => ~worker[w].dispatch
    /\ At(w, "write") \/ At(w, "sent") => worker[w].dispatch
    /\ At(w, "idle") \/ At(w, "access") \/ At(w, "claim") \/ Started(worker[w].op)
    /\ At(w, "idle") \/ execution[worker[w].op] # "absent"
    /\ w = Cleaner => At(w, "idle") \/ Started(worker[w].op)
    /\ At(w, "write") => flight[worker[w].op] = "none" /\ execution[worker[w].op] # "failed"
    /\ At(w, "sent") => flight[worker[w].op] # "none"

\* What a call is about to record.  (A branch of an empty repository cannot be asked
\* for, which is read as a refusal: LookFails.)
OutcomesKnown ==
  \A w \in Callers :
    /\ worker[w].outcome = "succeeded" =>
         flight[worker[w].op] = "landed" \/ worker[w].op \in States
    /\ worker[w].outcome = "failed" =>
         worker[w].dispatch /\ (EmptyRepository \/ flight[worker[w].op] \in {"none", "refused"})

\* One call in the life of an operation dispatches it.
OneDispatcher ==
  \A v, w \in Callers :
    worker[v].dispatch /\ worker[w].dispatch /\ worker[v].op = worker[w].op => v = w

\* What left was dispatched, once.
Sent ==
  \A g \in Op :
    /\ sends[g] \in {0, 1}
    /\ sends[g] = 0 <=> flight[g] = "none"
    /\ ~Started(g) => flight[g] = "none"

\* What an inspection finds there has arrived.
Arrived ==
  /\ EmptyRepository \/ head # "none"
  /\ head \in Pushes => flight[head] = "landed"
  /\ \A g \in shown : g \in States \/ flight[g] = "landed"

\* One operation at a time is not settled.
OnePending == \A g, h \in Op : execution[g] \in Pending /\ execution[h] \in Pending => g = h

Broker ==
  /\ Typed
  /\ CallsKnow
  /\ OutcomesKnown
  /\ OneDispatcher
  /\ Sent
  /\ Arrived
  /\ OnePending
  /\ EmptyRepository \/ OutcomeIsTrue

LEMMA OtherCalls ==
  ASSUME Broker, NEW w \in Callers, NEW c, worker' = [worker EXCEPT ![w] = c], CallOK(w)'
  PROVE  (\A v \in Callers : CallOK(v))'
  BY DEF Broker, Typed, TypeOK, CallOK

LEMMA SameCalls ==
  ASSUME Broker, worker' = worker PROVE (\A v \in Callers : CallOK(v))'
  BY DEF Broker, Typed, TypeOK, CallOK

LEMMA KeepPropose ==
  ASSUME GitBrokerAssumption, Broker, NEW g \in Op, Propose(g) PROVE Broker'
  <1>1. RowsOK'
    BY DEF GitBrokerAssumption, Propose, Broker, Typed, TypeOK, RowsOK, Settled, Pending,
       Callers, git
  <1>2. (worker \in [Callers -> WorkerState])'
    BY DEF GitBrokerAssumption, Propose, Broker, Typed, WorkerState, Settled, Pending, Callers,
       git
  <1>3. (\A v \in Callers : CallOK(v))'
    BY SameCalls DEF Propose, git
  <1>4. CallsKnow'
    BY DEF GitBrokerAssumption, Propose, Broker, Typed, CallsKnow, Started, At, Callers, git
  <1>5. OutcomesKnown'
    BY DEF GitBrokerAssumption, Propose, Broker, Typed, OutcomesKnown, States, Callers, git
  <1>6. OneDispatcher'
    BY DEF GitBrokerAssumption, Propose, Broker, Typed, OneDispatcher, Callers, git
  <1>7. Sent'
    BY DEF GitBrokerAssumption, Propose, Broker, Typed, Sent, Started, Callers, git
  <1>8. Arrived'
    BY DEF GitBrokerAssumption, Propose, Broker, Typed, Arrived, States, Callers, git
  <1>9. OnePending'
    BY DEF GitBrokerAssumption, Propose, Broker, Typed, OnePending, Pending, Callers, git
  <1>10. (EmptyRepository \/ OutcomeIsTrue)'
    BY DEF GitBrokerAssumption, Propose, Broker, Typed, OutcomeIsTrue, States, Callers, git
  <1> QED BY <1>1, <1>2, <1>3, <1>4, <1>5, <1>6, <1>7, <1>8, <1>9, <1>10 DEF Broker, Typed, TypeOK

LEMMA KeepLand ==
  ASSUME GitBrokerAssumption, Broker, NEW g \in Op, Land(g) PROVE Broker'
  <1>1. RowsOK'
    BY DEF GitBrokerAssumption, Land, Broker, Typed, TypeOK, RowsOK, Settled, Pending, Callers
  <1>2. (worker \in [Callers -> WorkerState])'
    BY DEF GitBrokerAssumption, Land, Broker, Typed, WorkerState, Settled, Pending, Callers
  <1>3. (\A v \in Callers : CallOK(v))'
    BY SameCalls DEF Land, git
  <1>4. CallsKnow'
    BY DEF GitBrokerAssumption, Land, Broker, Typed, CallsKnow, Started, At, Callers
  <1>5. OutcomesKnown'
    BY DEF GitBrokerAssumption, Land, Broker, Typed, OutcomesKnown, States, Callers
  <1>6. OneDispatcher'
    BY DEF GitBrokerAssumption, Land, Broker, Typed, OneDispatcher, Callers
  <1>7. Sent'
    BY DEF GitBrokerAssumption, Land, Broker, Typed, Sent, Started, Callers
  <1>8. Arrived'
    BY DEF GitBrokerAssumption, Land, Broker, Typed, TypeOK, RowsOK, Arrived, Settled, Pending,
       States, Callers
  <1>9. OnePending'
    BY DEF GitBrokerAssumption, Land, Broker, Typed, OnePending, Pending, Callers
  <1>10. (EmptyRepository \/ OutcomeIsTrue)'
    BY DEF GitBrokerAssumption, Land, Broker, Typed, OutcomeIsTrue, States, Callers
  <1> QED BY <1>1, <1>2, <1>3, <1>4, <1>5, <1>6, <1>7, <1>8, <1>9, <1>10 DEF Broker, Typed, TypeOK

LEMMA KeepRefused ==
  ASSUME GitBrokerAssumption, Broker, NEW g \in Op, Refused(g) PROVE Broker'
  <1>1. RowsOK'
    BY DEF GitBrokerAssumption, Refused, Broker, Typed, TypeOK, RowsOK, Settled, Pending, Callers
  <1>2. (worker \in [Callers -> WorkerState])'
    BY DEF GitBrokerAssumption, Refused, Broker, Typed, WorkerState, Settled, Pending, Callers
  <1>3. (\A v \in Callers : CallOK(v))'
    BY SameCalls DEF Refused, git
  <1>4. CallsKnow'
    BY DEF GitBrokerAssumption, Refused, Broker, Typed, CallsKnow, Started, At, Callers
  <1>5. OutcomesKnown'
    BY DEF GitBrokerAssumption, Refused, Broker, Typed, OutcomesKnown, States, Callers
  <1>6. OneDispatcher'
    BY DEF GitBrokerAssumption, Refused, Broker, Typed, OneDispatcher, Callers
  <1>7. Sent'
    BY DEF GitBrokerAssumption, Refused, Broker, Typed, Sent, Started, Callers
  <1>8. Arrived'
    BY DEF GitBrokerAssumption, Refused, Broker, Typed, Arrived, States, Callers
  <1>9. OnePending'
    BY DEF GitBrokerAssumption, Refused, Broker, Typed, OnePending, Pending, Callers
  <1>10. (EmptyRepository \/ OutcomeIsTrue)'
    BY DEF GitBrokerAssumption, Refused, Broker, Typed, OutcomeIsTrue, States, Callers
  <1> QED BY <1>1, <1>2, <1>3, <1>4, <1>5, <1>6, <1>7, <1>8, <1>9, <1>10 DEF Broker, Typed, TypeOK

LEMMA KeepLost ==
  ASSUME GitBrokerAssumption, Broker, NEW g \in Op, Lost(g) PROVE Broker'
  <1>1. RowsOK'
    BY DEF GitBrokerAssumption, Lost, Broker, Typed, TypeOK, RowsOK, Settled, Pending, Callers
  <1>2. (worker \in [Callers -> WorkerState])'
    BY DEF GitBrokerAssumption, Lost, Broker, Typed, WorkerState, Settled, Pending, Callers
  <1>3. (\A v \in Callers : CallOK(v))'
    BY SameCalls DEF Lost, git
  <1>4. CallsKnow'
    BY DEF GitBrokerAssumption, Lost, Broker, Typed, CallsKnow, Started, At, Callers
  <1>5. OutcomesKnown'
    BY DEF GitBrokerAssumption, Lost, Broker, Typed, OutcomesKnown, States, Callers
  <1>6. OneDispatcher'
    BY DEF GitBrokerAssumption, Lost, Broker, Typed, OneDispatcher, Callers
  <1>7. Sent'
    BY DEF GitBrokerAssumption, Lost, Broker, Typed, Sent, Started, Callers
  <1>8. Arrived'
    BY DEF GitBrokerAssumption, Lost, Broker, Typed, Arrived, States, Callers
  <1>9. OnePending'
    BY DEF GitBrokerAssumption, Lost, Broker, Typed, OnePending, Pending, Callers
  <1>10. (EmptyRepository \/ OutcomeIsTrue)'
    BY DEF GitBrokerAssumption, Lost, Broker, Typed, OutcomeIsTrue, States, Callers
  <1> QED BY <1>1, <1>2, <1>3, <1>4, <1>5, <1>6, <1>7, <1>8, <1>9, <1>10 DEF Broker, Typed, TypeOK

LEMMA KeepSweep ==
  ASSUME GitBrokerAssumption, Broker, NEW g \in Op, Sweep(g) PROVE Broker'
  <1>1. RowsOK'
    BY DEF GitBrokerAssumption, Sweep, Broker, Typed, TypeOK, RowsOK, Settled, Pending, Callers,
       git
  <1>2. (worker \in [Callers -> WorkerState])'
    BY DEF GitBrokerAssumption, Sweep, Broker, Typed, WorkerState, Settled, Pending, Callers, git
  <1>3. (\A v \in Callers : CallOK(v))'
    BY SameCalls DEF Sweep, git
  <1>4. CallsKnow'
    BY DEF GitBrokerAssumption, Sweep, Broker, Typed, CallsKnow, Started, At, Pending, Callers,
       git
  <1>5. OutcomesKnown'
    BY DEF GitBrokerAssumption, Sweep, Broker, Typed, OutcomesKnown, Pending, States, Callers,
       git
  <1>6. OneDispatcher'
    BY DEF GitBrokerAssumption, Sweep, Broker, Typed, OneDispatcher, Pending, Callers, git
  <1>7. Sent'
    BY DEF GitBrokerAssumption, Sweep, Broker, Typed, Sent, Started, Pending, Callers, git
  <1>8. Arrived'
    BY DEF GitBrokerAssumption, Sweep, Broker, Typed, Arrived, Pending, States, Callers, git
  <1>9. OnePending'
    BY DEF GitBrokerAssumption, Sweep, Broker, Typed, OnePending, Pending, Callers, git
  <1>10. (EmptyRepository \/ OutcomeIsTrue)'
    BY DEF GitBrokerAssumption, Sweep, Broker, Typed, OutcomeIsTrue, Pending, States, Callers,
       git
  <1> QED BY <1>1, <1>2, <1>3, <1>4, <1>5, <1>6, <1>7, <1>8, <1>9, <1>10 DEF Broker, Typed, TypeOK

LEMMA KeepRemove ==
  ASSUME GitBrokerAssumption, Broker, NEW g \in Op, Remove(g) PROVE Broker'
  <1>1. RowsOK'
    BY DEF GitBrokerAssumption, Remove, Broker, Typed, TypeOK, RowsOK, Settled, Pending, Callers,
       git
  <1>2. (worker \in [Callers -> WorkerState])'
    BY DEF GitBrokerAssumption, Remove, Broker, Typed, WorkerState, Settled, Pending, Callers,
       git
  <1>3. (\A v \in Callers : CallOK(v))'
    BY SameCalls DEF Remove, git
  <1>4. CallsKnow'
    BY DEF GitBrokerAssumption, Remove, Broker, Typed, CallsKnow, Started, At, Callers, git
  <1>5. OutcomesKnown'
    BY DEF GitBrokerAssumption, Remove, Broker, Typed, OutcomesKnown, States, Callers, git
  <1>6. OneDispatcher'
    BY DEF GitBrokerAssumption, Remove, Broker, Typed, OneDispatcher, Callers, git
  <1>7. Sent'
    BY DEF GitBrokerAssumption, Remove, Broker, Typed, Sent, Started, Callers, git
  <1>8. Arrived'
    BY DEF GitBrokerAssumption, Remove, Broker, Typed, Arrived, States, Callers, git
  <1>9. OnePending'
    BY DEF GitBrokerAssumption, Remove, Broker, Typed, OnePending, Pending, Callers, git
  <1>10. (EmptyRepository \/ OutcomeIsTrue)'
    BY DEF GitBrokerAssumption, Remove, Broker, Typed, OutcomeIsTrue, States, Callers, git
  <1> QED BY <1>1, <1>2, <1>3, <1>4, <1>5, <1>6, <1>7, <1>8, <1>9, <1>10 DEF Broker, Typed, TypeOK

LEMMA KeepBegin ==
  ASSUME GitBrokerAssumption, Broker, NEW w \in Callers, NEW g \in Op, Begin(w, g) PROVE Broker'
  <1>1. RowsOK'
    BY DEF GitBrokerAssumption, Begin, Broker, Typed, TypeOK, RowsOK, At, Idle, Settled, Pending,
       Callers, git, Reconciled
  <1>2. (worker \in [Callers -> WorkerState])'
    BY DEF GitBrokerAssumption, Begin, Broker, Typed, WorkerState, At, Idle, Settled, Pending,
       Callers, git, Reconciled
  <1>3. (\A v \in Callers : CallOK(v))'
    <2>1. PICK c : worker' = [worker EXCEPT ![w] = c]
      BY DEF Begin, Goto, Conclude, Over, NoAnswer, Answered
    <2>2. worker'[w] = [pc |-> "access", op |-> g, read |-> execution[g], dispatch |-> FALSE,
                        outcome |-> None]
      BY DEF Begin, Idle, Broker, Typed
    <2>3. execution[g] \in {"not_started"} \cup Pending
      BY DEF Begin, Reconciled
    <2>4. CallOK(w)'
      BY <2>2, <2>3 DEF CallOK
    <2> QED BY <2>1, <2>4, OtherCalls
  <1>4. CallsKnow'
    BY DEF GitBrokerAssumption, Begin, Broker, Typed, CallsKnow, Started, At, Idle, Pending,
       Callers, git, Reconciled
  <1>5. OutcomesKnown'
    BY DEF GitBrokerAssumption, Begin, Broker, Typed, OutcomesKnown, At, Idle, Pending, States,
       Callers, git, Reconciled
  <1>6. OneDispatcher'
    BY DEF GitBrokerAssumption, Begin, Broker, Typed, OneDispatcher, At, Idle, Pending, Callers,
       git, Reconciled
  <1>7. Sent'
    BY DEF GitBrokerAssumption, Begin, Broker, Typed, Sent, Started, At, Idle, Pending, Callers,
       git, Reconciled
  <1>8. Arrived'
    BY DEF GitBrokerAssumption, Begin, Broker, Typed, Arrived, At, Idle, Pending, States,
       Callers, git, Reconciled
  <1>9. OnePending'
    BY DEF GitBrokerAssumption, Begin, Broker, Typed, OnePending, At, Idle, Pending, Callers,
       git, Reconciled
  <1>10. (EmptyRepository \/ OutcomeIsTrue)'
    BY DEF GitBrokerAssumption, Begin, Broker, Typed, OutcomeIsTrue, At, Idle, Pending, States,
       Callers, git, Reconciled
  <1> QED BY <1>1, <1>2, <1>3, <1>4, <1>5, <1>6, <1>7, <1>8, <1>9, <1>10 DEF Broker, Typed, TypeOK

LEMMA KeepOthers ==
  ASSUME GitBrokerAssumption, Broker, Others PROVE Broker'
  <1>1. RowsOK'
    BY DEF GitBrokerAssumption, Others, Broker, Typed, TypeOK, RowsOK, Settled, Pending, States,
       Callers
  <1>2. (worker \in [Callers -> WorkerState])'
    BY DEF GitBrokerAssumption, Others, Broker, Typed, WorkerState, Settled, Pending, States,
       Callers
  <1>3. (\A v \in Callers : CallOK(v))'
    BY SameCalls DEF Others, git
  <1>4. CallsKnow'
    BY DEF GitBrokerAssumption, Others, Broker, Typed, CallsKnow, Started, At, States, Callers
  <1>5. OutcomesKnown'
    BY DEF GitBrokerAssumption, Others, Broker, Typed, OutcomesKnown, States, Callers
  <1>6. OneDispatcher'
    BY DEF GitBrokerAssumption, Others, Broker, Typed, OneDispatcher, States, Callers
  <1>7. Sent'
    BY DEF GitBrokerAssumption, Others, Broker, Typed, Sent, Started, States, Callers
  <1>8. Arrived'
    BY DEF GitBrokerAssumption, Others, Broker, Typed, Arrived, States, Callers
  <1>9. OnePending'
    BY DEF GitBrokerAssumption, Others, Broker, Typed, OnePending, Pending, States, Callers
  <1>10. (EmptyRepository \/ OutcomeIsTrue)'
    BY DEF GitBrokerAssumption, Others, Broker, Typed, OutcomeIsTrue, States, Callers
  <1> QED BY <1>1, <1>2, <1>3, <1>4, <1>5, <1>6, <1>7, <1>8, <1>9, <1>10 DEF Broker, Typed, TypeOK

LEMMA KeepAccess ==
  ASSUME GitBrokerAssumption, Broker, NEW w \in Callers, Access(w) PROVE Broker'
  <1>1. RowsOK'
    BY DEF GitBrokerAssumption, Access, Broker, Typed, TypeOK, RowsOK, At, Goto, Settled,
       Pending, Callers, git
  <1>2. (worker \in [Callers -> WorkerState])'
    BY DEF GitBrokerAssumption, Access, Broker, Typed, WorkerState, At, Goto, Settled, Pending,
       Callers, git
  <1>3. (\A v \in Callers : CallOK(v))'
    <2>1. PICK c : worker' = [worker EXCEPT ![w] = c]
      BY DEF Access, Goto, Conclude, Over, NoAnswer, Answered
    <2>2. CallOK(w)'
      BY <1>2 DEF GitBrokerAssumption, Access, Broker, Typed, TypeOK, RowsOK, CallOK, At, Goto,
         Idle, Settled, Pending, Callers, git
    <2> QED BY <2>1, <2>2, OtherCalls
  <1>4. CallsKnow'
    BY DEF GitBrokerAssumption, Access, Broker, Typed, CallsKnow, Started, At, Goto, Callers, git
  <1>5. OutcomesKnown'
    BY DEF GitBrokerAssumption, Access, Broker, Typed, OutcomesKnown, At, Goto, States, Callers,
       git
  <1>6. OneDispatcher'
    BY DEF GitBrokerAssumption, Access, Broker, Typed, OneDispatcher, At, Goto, Callers, git
  <1>7. Sent'
    BY DEF GitBrokerAssumption, Access, Broker, Typed, Sent, Started, At, Goto, Callers, git
  <1>8. Arrived'
    BY DEF GitBrokerAssumption, Access, Broker, Typed, Arrived, At, Goto, States, Callers, git
  <1>9. OnePending'
    BY DEF GitBrokerAssumption, Access, Broker, Typed, OnePending, At, Goto, Pending, Callers,
       git
  <1>10. (EmptyRepository \/ OutcomeIsTrue)'
    BY DEF GitBrokerAssumption, Access, Broker, Typed, OutcomeIsTrue, At, Goto, States, Callers,
       git
  <1> QED BY <1>1, <1>2, <1>3, <1>4, <1>5, <1>6, <1>7, <1>8, <1>9, <1>10 DEF Broker, Typed, TypeOK

LEMMA KeepNoAccess ==
  ASSUME GitBrokerAssumption, Broker, NEW w \in Callers, NoAccess(w) PROVE Broker'
  <1> DEFINE g == worker[w].op
  <1>0. \/ UNCHANGED execution
        \/ /\ g \in Op /\ execution[g] = "not_started"
           /\ execution' = [execution EXCEPT ![g] = "failed"]
    BY DEF NoAccess, Broker, Typed, TypeOK, CallOK, Idle, At
  <1>1. RowsOK'
    BY DEF GitBrokerAssumption, NoAccess, Broker, Typed, TypeOK, RowsOK, At, Over, Idle, Settled,
       Pending, Callers, git
  <1>2. (worker \in [Callers -> WorkerState])'
    BY DEF GitBrokerAssumption, NoAccess, Broker, Typed, WorkerState, At, Over, Idle, Settled,
       Pending, Callers, git
  <1>3. (\A v \in Callers : CallOK(v))'
    <2>1. PICK c : worker' = [worker EXCEPT ![w] = c]
      BY DEF NoAccess, Goto, Conclude, Over, NoAnswer, Answered
    <2>2. CallOK(w)'
      BY <1>2 DEF GitBrokerAssumption, NoAccess, Broker, Typed, CallOK, At, Over, Idle, Settled,
         Pending, Callers, git
    <2> QED BY <2>1, <2>2, OtherCalls
  <1>4. CallsKnow'
    <2>1. CASE UNCHANGED execution
      BY <2>1 DEF NoAccess, GitBrokerAssumption, Broker, Typed, TypeOK, RowsOK, WorkerState,
         CallOK, CallsKnow, OneDispatcher, Sent, Started, At, Over, Idle, Settled, Pending,
         Callers, git
    <2>2. CASE ~UNCHANGED execution
      BY <1>0, <2>2 DEF NoAccess, GitBrokerAssumption, Broker, Typed, TypeOK, RowsOK,
         WorkerState, CallOK, CallsKnow, OneDispatcher, Sent, Started, At, Over, Idle, Settled,
         Pending, Callers, git
    <2> QED BY <2>1, <2>2
  <1>5. OutcomesKnown'
    BY DEF GitBrokerAssumption, NoAccess, Broker, Typed, OutcomesKnown, At, Over, Idle, States,
       Callers, git
  <1>6. OneDispatcher'
    BY DEF GitBrokerAssumption, NoAccess, Broker, Typed, OneDispatcher, At, Over, Idle, Callers,
       git
  <1>7. Sent'
    BY DEF GitBrokerAssumption, NoAccess, Broker, Typed, TypeOK, RowsOK, Sent, Started, At, Over,
       Idle, Settled, Pending, Callers, git
  <1>8. Arrived'
    BY DEF GitBrokerAssumption, NoAccess, Broker, Typed, Arrived, At, Over, Idle, States,
       Callers, git
  <1>9. OnePending'
    BY DEF GitBrokerAssumption, NoAccess, Broker, Typed, TypeOK, RowsOK, OnePending, At, Over,
       Idle, Settled, Pending, Callers, git
  <1>10. (EmptyRepository \/ OutcomeIsTrue)'
    <2>1. CASE UNCHANGED execution
      BY <2>1 DEF NoAccess, GitBrokerAssumption, Broker, Typed, TypeOK, RowsOK, WorkerState,
         CallOK, CallsKnow, OutcomesKnown, OneDispatcher, Sent, Arrived, OnePending,
         OutcomeIsTrue, Started, At, Goto, Conclude, Over, Idle, Settled, Pending, States,
         Callers, git, Visible, Unsettled, Dispatches
    <2>2. CASE ~UNCHANGED execution
      BY <1>0, <2>2 DEF NoAccess, GitBrokerAssumption, Broker, Typed, TypeOK, RowsOK,
         WorkerState, CallOK, CallsKnow, OutcomesKnown, OneDispatcher, Sent, Arrived, OnePending,
         OutcomeIsTrue, Started, At, Goto, Conclude, Over, Idle, Settled, Pending, States,
         Callers, git, Visible, Unsettled, Dispatches
    <2> QED BY <2>1, <2>2
  <1> QED BY <1>1, <1>2, <1>3, <1>4, <1>5, <1>6, <1>7, <1>8, <1>9, <1>10 DEF Broker, Typed, TypeOK

LEMMA KeepClaim ==
  ASSUME GitBrokerAssumption, Broker, NEW w \in Callers, Claim(w) PROVE Broker'
  <1> DEFINE g == worker[w].op
  <1>a. g \in Op /\ At(w, "claim") /\ worker[w].outcome = None
    BY DEF Claim, Broker, Typed, TypeOK, CallOK, Idle, At
  <1>b. ~Dispatches(w, g) => Started(g)
    BY <1>a DEF Broker, CallsKnow, Dispatches, Started, At
  <1>c. Dispatches(w, g) => w # Cleaner
    BY <1>a DEF Broker, CallsKnow, Dispatches, Started, At
  <1>0. \/ /\ worker' = [worker EXCEPT ![w] = [worker[w] EXCEPT !.pc = "write", !.dispatch = TRUE]]
           /\ execution[g] = "not_started" /\ w # Cleaner /\ Unsettled = {}
           /\ execution' = [execution EXCEPT ![g] = "executing"]
        \/ /\ worker' = [worker EXCEPT ![w] = [worker[w] EXCEPT !.pc = "inspect"]]
           /\ Started(g) /\ UNCHANGED execution
        \/ worker' = [worker EXCEPT ![w] = Idle] /\ UNCHANGED execution
    BY <1>a, <1>b, <1>c DEF Claim, Dispatches, Goto, Over, Broker, Typed, WorkerState
  <1>1. RowsOK'
    BY <1>0, <1>a DEF GitBrokerAssumption, Claim, Broker, Typed, TypeOK, RowsOK, At, Goto, Over,
       Idle, Settled, Pending, Callers, git, Unsettled, Dispatches
  <1>2. (worker \in [Callers -> WorkerState])'
    <2>1. worker \in [Callers -> WorkerState]
      BY DEF Broker, Typed
    <2>2. [worker[w] EXCEPT !.pc = "write", !.dispatch = TRUE] \in WorkerState
      BY <2>1 DEF WorkerState
    <2>3. [worker[w] EXCEPT !.pc = "inspect"] \in WorkerState /\ Idle \in WorkerState
      BY <2>1 DEF WorkerState, Idle
    <2> QED BY <1>0, <2>1, <2>2, <2>3
  <1>3. (\A v \in Callers : CallOK(v))'
    <2>1. PICK c : worker' = [worker EXCEPT ![w] = c]
      BY <1>0
    <2>2. worker \in [Callers -> WorkerState] /\ CallOK(w)
      BY DEF Broker, Typed, TypeOK
    <2>3. ASSUME w # Cleaner,
                 worker' = [worker EXCEPT
                   ![w] = [worker[w] EXCEPT !.pc = "write", !.dispatch = TRUE]]
          PROVE  CallOK(w)'
      BY <1>a, <2>2, <2>3 DEF CallOK, At, Idle, WorkerState
    <2>4. ASSUME worker' = [worker EXCEPT ![w] = [worker[w] EXCEPT !.pc = "inspect"]]
          PROVE  CallOK(w)'
      BY <1>a, <2>2, <2>4 DEF CallOK, At, Idle, WorkerState
    <2>5. ASSUME worker' = [worker EXCEPT ![w] = Idle] PROVE CallOK(w)'
      BY <2>2, <2>5 DEF CallOK
    <2>6. CallOK(w)'
      BY <1>0, <2>3, <2>4, <2>5
    <2> QED BY <2>1, <2>6, OtherCalls
  <1>4. CallsKnow'
    BY <1>0, <1>a DEF GitBrokerAssumption, Claim, Broker, Typed, TypeOK, RowsOK, WorkerState,
       CallOK, CallsKnow, Started, At, Goto, Over, Idle, Settled, Pending, Callers, git,
       Unsettled, Dispatches
  <1>5. OutcomesKnown'
    BY <1>0, <1>a DEF GitBrokerAssumption, Claim, Broker, Typed, TypeOK, RowsOK, WorkerState,
       CallOK, OutcomesKnown, At, Goto, Over, Idle, Settled, Pending, States, Callers, git,
       Unsettled, Dispatches
  <1>6. OneDispatcher'
    BY <1>0, <1>a DEF GitBrokerAssumption, Claim, Broker, Typed, TypeOK, RowsOK, WorkerState,
       CallOK, OneDispatcher, At, Goto, Over, Idle, Settled, Pending, Callers, git, Unsettled,
       Dispatches
  <1>7. Sent'
    BY <1>0, <1>a DEF GitBrokerAssumption, Claim, Broker, Typed, TypeOK, RowsOK, Sent, Started,
       At, Goto, Over, Idle, Settled, Pending, Callers, git, Unsettled, Dispatches
  <1>8. Arrived'
    BY <1>0, <1>a DEF GitBrokerAssumption, Claim, Broker, Typed, Arrived, At, Goto, Over, Idle,
       Pending, States, Callers, git, Unsettled, Dispatches
  <1>9. OnePending'
    BY <1>0, <1>a DEF GitBrokerAssumption, Claim, Broker, Typed, TypeOK, RowsOK, OnePending, At,
       Goto, Over, Idle, Settled, Pending, Callers, git, Unsettled, Dispatches
  <1>10. (EmptyRepository \/ OutcomeIsTrue)'
    BY <1>0, <1>a DEF GitBrokerAssumption, Claim, Broker, Typed, TypeOK, RowsOK, OutcomeIsTrue,
       At, Goto, Over, Idle, Settled, Pending, States, Callers, git, Unsettled, Dispatches
  <1> QED BY <1>1, <1>2, <1>3, <1>4, <1>5, <1>6, <1>7, <1>8, <1>9, <1>10 DEF Broker, Typed, TypeOK

LEMMA KeepRefuse ==
  ASSUME GitBrokerAssumption, Broker, NEW w \in Callers, Refuse(w) PROVE Broker'
  <1>1. RowsOK'
    BY DEF GitBrokerAssumption, Refuse, Broker, Typed, TypeOK, RowsOK, At, Conclude, Settled,
       Pending, Callers, git
  <1>2. (worker \in [Callers -> WorkerState])'
    BY DEF GitBrokerAssumption, Refuse, Broker, Typed, WorkerState, At, Conclude, Settled,
       Pending, Callers, git
  <1>3. (\A v \in Callers : CallOK(v))'
    <2>1. PICK c : worker' = [worker EXCEPT ![w] = c]
      BY DEF Refuse, Goto, Conclude, Over, NoAnswer, Answered
    <2>2. CallOK(w)'
      BY <1>2 DEF GitBrokerAssumption, Refuse, Broker, Typed, TypeOK, RowsOK, WorkerState,
         CallOK, At, Conclude, Idle, Settled, Pending, Callers, git
    <2> QED BY <2>1, <2>2, OtherCalls
  <1>4. CallsKnow'
    BY DEF GitBrokerAssumption, Refuse, Broker, Typed, TypeOK, RowsOK, WorkerState, CallOK,
       CallsKnow, Started, At, Conclude, Idle, Settled, Pending, Callers, git
  <1>5. OutcomesKnown'
    BY DEF GitBrokerAssumption, Refuse, Broker, Typed, TypeOK, RowsOK, WorkerState, CallOK,
       OutcomesKnown, At, Conclude, Idle, Settled, Pending, States, Callers, git
  <1>6. OneDispatcher'
    BY DEF GitBrokerAssumption, Refuse, Broker, Typed, TypeOK, RowsOK, WorkerState, CallOK,
       OneDispatcher, At, Conclude, Idle, Settled, Pending, Callers, git
  <1>7. Sent'
    BY DEF GitBrokerAssumption, Refuse, Broker, Typed, Sent, Started, At, Conclude, Callers, git
  <1>8. Arrived'
    BY DEF GitBrokerAssumption, Refuse, Broker, Typed, Arrived, At, Conclude, States, Callers,
       git
  <1>9. OnePending'
    BY DEF GitBrokerAssumption, Refuse, Broker, Typed, OnePending, At, Conclude, Pending,
       Callers, git
  <1>10. (EmptyRepository \/ OutcomeIsTrue)'
    BY DEF GitBrokerAssumption, Refuse, Broker, Typed, OutcomeIsTrue, At, Conclude, States,
       Callers, git
  <1> QED BY <1>1, <1>2, <1>3, <1>4, <1>5, <1>6, <1>7, <1>8, <1>9, <1>10 DEF Broker, Typed, TypeOK

LEMMA KeepSend ==
  ASSUME GitBrokerAssumption, Broker, NEW w \in Callers, Send(w) PROVE Broker'
  <1>1. RowsOK'
    BY DEF GitBrokerAssumption, Send, Broker, Typed, TypeOK, RowsOK, WorkerState, CallOK, At,
       Goto, Idle, Settled, Pending, Callers
  <1>2. (worker \in [Callers -> WorkerState])'
    BY DEF GitBrokerAssumption, Send, Broker, Typed, WorkerState, At, Goto, Settled, Pending,
       Callers
  <1>3. (\A v \in Callers : CallOK(v))'
    <2>1. PICK c : worker' = [worker EXCEPT ![w] = c]
      BY DEF Send, Goto, Conclude, Over, NoAnswer, Answered
    <2>2. CallOK(w)'
      BY <1>2 DEF GitBrokerAssumption, Send, Broker, Typed, TypeOK, RowsOK, CallOK, At, Goto,
         Idle, Settled, Pending, Callers
    <2> QED BY <2>1, <2>2, OtherCalls
  <1>4. CallsKnow'
    BY DEF GitBrokerAssumption, Send, Broker, Typed, TypeOK, RowsOK, WorkerState, CallOK,
       CallsKnow, OneDispatcher, Sent, Started, At, Goto, Idle, Settled, Pending, Callers
  <1>5. OutcomesKnown'
    BY DEF GitBrokerAssumption, Send, Broker, Typed, TypeOK, RowsOK, WorkerState, CallOK,
       CallsKnow, OutcomesKnown, OneDispatcher, Sent, Started, At, Goto, Idle, Settled, Pending,
       States, Callers
  <1>6. OneDispatcher'
    BY DEF GitBrokerAssumption, Send, Broker, Typed, OneDispatcher, At, Goto, Callers
  <1>7. Sent'
    BY DEF GitBrokerAssumption, Send, Broker, Typed, TypeOK, RowsOK, WorkerState, CallOK,
       CallsKnow, OneDispatcher, Sent, Started, At, Goto, Idle, Settled, Pending, Callers
  <1>8. Arrived'
    BY DEF GitBrokerAssumption, Send, Broker, Typed, TypeOK, RowsOK, WorkerState, CallOK,
       CallsKnow, OneDispatcher, Sent, Arrived, Started, At, Goto, Idle, Settled, Pending,
       States, Callers
  <1>9. OnePending'
    BY DEF GitBrokerAssumption, Send, Broker, Typed, OnePending, At, Goto, Pending, Callers
  <1>10. (EmptyRepository \/ OutcomeIsTrue)'
    BY DEF GitBrokerAssumption, Send, Broker, Typed, TypeOK, RowsOK, WorkerState, CallOK,
       CallsKnow, OneDispatcher, Sent, OutcomeIsTrue, Started, At, Goto, Idle, Settled, Pending,
       States, Callers
  <1> QED BY <1>1, <1>2, <1>3, <1>4, <1>5, <1>6, <1>7, <1>8, <1>9, <1>10 DEF Broker, Typed, TypeOK

LEMMA KeepReply ==
  ASSUME GitBrokerAssumption, Broker, NEW w \in Callers, Reply(w) PROVE Broker'
  <1>1. RowsOK'
    BY DEF GitBrokerAssumption, Reply, Broker, Typed, TypeOK, RowsOK, At, Goto, Conclude,
       Settled, Pending, Callers, git, NoAnswer, Answered
  <1>2. (worker \in [Callers -> WorkerState])'
    BY DEF GitBrokerAssumption, Reply, Broker, Typed, WorkerState, At, Goto, Conclude, Settled,
       Pending, Callers, git, NoAnswer, Answered
  <1>3. (\A v \in Callers : CallOK(v))'
    <2>1. PICK c : worker' = [worker EXCEPT ![w] = c]
      BY DEF Reply, Goto, Conclude, Over, NoAnswer, Answered
    <2>2. CallOK(w)'
      BY <1>2 DEF GitBrokerAssumption, Reply, Broker, Typed, TypeOK, RowsOK, WorkerState, CallOK,
         At, Goto, Conclude, Idle, Settled, Pending, Callers, git, NoAnswer, Answered
    <2> QED BY <2>1, <2>2, OtherCalls
  <1>4. CallsKnow'
    BY DEF GitBrokerAssumption, Reply, Broker, Typed, TypeOK, RowsOK, WorkerState, CallOK,
       CallsKnow, Started, At, Goto, Conclude, Idle, Settled, Pending, Callers, git, NoAnswer,
       Answered
  <1>5. OutcomesKnown'
    BY DEF GitBrokerAssumption, Reply, Broker, Typed, TypeOK, RowsOK, WorkerState, CallOK,
       OutcomesKnown, At, Goto, Conclude, Idle, Settled, Pending, States, Callers, git, NoAnswer,
       Answered
  <1>6. OneDispatcher'
    BY DEF Reply, Goto, Conclude, NoAnswer, Answered, OneDispatcher, Broker, Typed, WorkerState
  <1>7. Sent'
    BY DEF GitBrokerAssumption, Reply, Broker, Typed, Sent, Started, At, Goto, Conclude, Callers,
       git, NoAnswer, Answered
  <1>8. Arrived'
    BY DEF GitBrokerAssumption, Reply, Broker, Typed, Arrived, At, Goto, Conclude, States,
       Callers, git, NoAnswer, Answered
  <1>9. OnePending'
    BY DEF GitBrokerAssumption, Reply, Broker, Typed, OnePending, At, Goto, Conclude, Pending,
       Callers, git, NoAnswer, Answered
  <1>10. (EmptyRepository \/ OutcomeIsTrue)'
    BY DEF GitBrokerAssumption, Reply, Broker, Typed, OutcomeIsTrue, At, Goto, Conclude, States,
       Callers, git, NoAnswer, Answered
  <1> QED BY <1>1, <1>2, <1>3, <1>4, <1>5, <1>6, <1>7, <1>8, <1>9, <1>10 DEF Broker, Typed, TypeOK

LEMMA KeepLook ==
  ASSUME GitBrokerAssumption, Broker, NEW w \in Callers, Look(w) PROVE Broker'
  <1>1. RowsOK'
    BY DEF GitBrokerAssumption, Look, Broker, Typed, TypeOK, RowsOK, At, Conclude, Settled,
       Pending, Callers, git, Visible
  <1>2. (worker \in [Callers -> WorkerState])'
    BY DEF GitBrokerAssumption, Look, Broker, Typed, WorkerState, At, Conclude, Settled, Pending,
       Callers, git, Visible
  <1>3. (\A v \in Callers : CallOK(v))'
    <2>1. PICK c : worker' = [worker EXCEPT ![w] = c]
      BY DEF Look, Goto, Conclude, Over, NoAnswer, Answered
    <2>2. CallOK(w)'
      BY <1>2 DEF GitBrokerAssumption, Look, Broker, Typed, TypeOK, RowsOK, CallOK, At, Conclude,
         Idle, Settled, Pending, Callers, git, Visible
    <2> QED BY <2>1, <2>2, OtherCalls
  <1>4. CallsKnow'
    BY DEF GitBrokerAssumption, Look, Broker, Typed, CallsKnow, Started, At, Conclude, Callers,
       git, Visible
  <1>5. OutcomesKnown'
    BY DEF GitBrokerAssumption, Look, Broker, Typed, TypeOK, RowsOK, WorkerState, CallOK,
       OutcomesKnown, At, Conclude, Idle, Settled, Pending, States, Callers, git, Visible
  <1>6. OneDispatcher'
    BY DEF GitBrokerAssumption, Look, Broker, Typed, OneDispatcher, At, Conclude, Callers, git,
       Visible
  <1>7. Sent'
    BY DEF GitBrokerAssumption, Look, Broker, Typed, Sent, Started, At, Conclude, Callers, git,
       Visible
  <1>8. Arrived'
    BY DEF GitBrokerAssumption, Look, Broker, Typed, Arrived, At, Conclude, States, Callers, git,
       Visible
  <1>9. OnePending'
    BY DEF GitBrokerAssumption, Look, Broker, Typed, OnePending, At, Conclude, Pending, Callers,
       git, Visible
  <1>10. (EmptyRepository \/ OutcomeIsTrue)'
    BY DEF GitBrokerAssumption, Look, Broker, Typed, OutcomeIsTrue, At, Conclude, States,
       Callers, git, Visible
  <1> QED BY <1>1, <1>2, <1>3, <1>4, <1>5, <1>6, <1>7, <1>8, <1>9, <1>10 DEF Broker, Typed, TypeOK

LEMMA KeepLookFails ==
  ASSUME GitBrokerAssumption, Broker, NEW w \in Callers, LookFails(w) PROVE Broker'
  <1>1. RowsOK'
    BY DEF GitBrokerAssumption, LookFails, Broker, Typed, TypeOK, RowsOK, At, Conclude, Settled,
       Pending, Callers, git
  <1>2. (worker \in [Callers -> WorkerState])'
    BY DEF GitBrokerAssumption, LookFails, Broker, Typed, WorkerState, At, Conclude, Settled,
       Pending, Callers, git
  <1>3. (\A v \in Callers : CallOK(v))'
    <2>1. PICK c : worker' = [worker EXCEPT ![w] = c]
      BY DEF LookFails, Goto, Conclude, Over, NoAnswer, Answered
    <2>2. CallOK(w)'
      BY <1>2 DEF GitBrokerAssumption, LookFails, Broker, Typed, TypeOK, RowsOK, WorkerState,
         CallOK, At, Conclude, Idle, Settled, Pending, Callers, git
    <2> QED BY <2>1, <2>2, OtherCalls
  <1>4. CallsKnow'
    BY DEF GitBrokerAssumption, LookFails, Broker, Typed, TypeOK, RowsOK, WorkerState, CallOK,
       CallsKnow, Started, At, Conclude, Idle, Settled, Pending, Callers, git
  <1>5. OutcomesKnown'
    BY DEF GitBrokerAssumption, LookFails, Broker, Typed, TypeOK, RowsOK, WorkerState, CallOK,
       OutcomesKnown, At, Conclude, Idle, Settled, Pending, States, Callers, git
  <1>6. OneDispatcher'
    BY DEF GitBrokerAssumption, LookFails, Broker, Typed, TypeOK, RowsOK, WorkerState, CallOK,
       OneDispatcher, At, Conclude, Idle, Settled, Pending, Callers, git
  <1>7. Sent'
    BY DEF GitBrokerAssumption, LookFails, Broker, Typed, Sent, Started, At, Conclude, Callers,
       git
  <1>8. Arrived'
    BY DEF GitBrokerAssumption, LookFails, Broker, Typed, Arrived, At, Conclude, States, Callers,
       git
  <1>9. OnePending'
    BY DEF GitBrokerAssumption, LookFails, Broker, Typed, OnePending, At, Conclude, Pending,
       Callers, git
  <1>10. (EmptyRepository \/ OutcomeIsTrue)'
    BY DEF GitBrokerAssumption, LookFails, Broker, Typed, OutcomeIsTrue, At, Conclude, States,
       Callers, git
  <1> QED BY <1>1, <1>2, <1>3, <1>4, <1>5, <1>6, <1>7, <1>8, <1>9, <1>10 DEF Broker, Typed, TypeOK

LEMMA KeepFinish ==
  ASSUME GitBrokerAssumption, Broker, NEW w \in Callers, Finish(w) PROVE Broker'
  <1>1. RowsOK'
    BY DEF GitBrokerAssumption, Finish, Broker, Typed, TypeOK, RowsOK, WorkerState, CallOK, At,
       Over, Idle, Settled, Pending, Callers, git
  <1>2. (worker \in [Callers -> WorkerState])'
    BY DEF GitBrokerAssumption, Finish, Broker, Typed, WorkerState, At, Over, Idle, Settled,
       Pending, Callers, git
  <1>3. (\A v \in Callers : CallOK(v))'
    <2>1. PICK c : worker' = [worker EXCEPT ![w] = c]
      BY DEF Finish, Goto, Conclude, Over, NoAnswer, Answered
    <2>2. CallOK(w)'
      BY <1>2 DEF GitBrokerAssumption, Finish, Broker, Typed, CallOK, At, Over, Idle, Settled,
         Pending, Callers, git
    <2> QED BY <2>1, <2>2, OtherCalls
  <1>4. CallsKnow'
    BY DEF GitBrokerAssumption, Finish, Broker, Typed, TypeOK, RowsOK, WorkerState, CallOK,
       CallsKnow, OutcomesKnown, OneDispatcher, Sent, Arrived, OnePending, OutcomeIsTrue,
       Started, At, Goto, Conclude, Over, Idle, Settled, Pending, States, Callers, git, Visible,
       Unsettled, Dispatches, NoAnswer, Answered, Reconciled
  <1>5. OutcomesKnown'
    BY DEF GitBrokerAssumption, Finish, Broker, Typed, OutcomesKnown, At, Over, Idle, Settled,
       States, Callers, git
  <1>6. OneDispatcher'
    BY DEF GitBrokerAssumption, Finish, Broker, Typed, OneDispatcher, At, Over, Idle, Settled,
       Callers, git
  <1>7. Sent'
    BY DEF GitBrokerAssumption, Finish, Broker, Typed, TypeOK, RowsOK, WorkerState, CallOK, Sent,
       Started, At, Over, Idle, Settled, Pending, Callers, git
  <1>8. Arrived'
    BY DEF GitBrokerAssumption, Finish, Broker, Typed, Arrived, At, Over, Idle, Settled, States,
       Callers, git
  <1>9. OnePending'
    BY DEF GitBrokerAssumption, Finish, Broker, Typed, TypeOK, RowsOK, WorkerState, CallOK,
       CallsKnow, OneDispatcher, Sent, OnePending, Started, At, Over, Idle, Settled, Pending,
       Callers, git
  <1>10. (EmptyRepository \/ OutcomeIsTrue)'
    BY DEF GitBrokerAssumption, Finish, Broker, Typed, TypeOK, RowsOK, WorkerState, CallOK,
       CallsKnow, OutcomesKnown, OneDispatcher, Sent, Arrived, OnePending, OutcomeIsTrue,
       Started, At, Goto, Conclude, Over, Idle, Settled, Pending, States, Callers, git, Visible,
       Unsettled, Dispatches, NoAnswer, Answered, Reconciled
  <1> QED BY <1>1, <1>2, <1>3, <1>4, <1>5, <1>6, <1>7, <1>8, <1>9, <1>10 DEF Broker, Typed, TypeOK

LEMMA KeepCrash ==
  ASSUME GitBrokerAssumption, Broker, NEW w \in Callers, Crash(w) PROVE Broker'
  <1>1. RowsOK'
    BY DEF GitBrokerAssumption, Crash, Broker, Typed, TypeOK, RowsOK, At, Over, Idle, Settled,
       Pending, Callers, git
  <1>2. (worker \in [Callers -> WorkerState])'
    BY DEF GitBrokerAssumption, Crash, Broker, Typed, WorkerState, At, Over, Idle, Settled,
       Pending, Callers, git
  <1>3. (\A v \in Callers : CallOK(v))'
    <2>1. PICK c : worker' = [worker EXCEPT ![w] = c]
      BY DEF Crash, Goto, Conclude, Over, NoAnswer, Answered
    <2>2. CallOK(w)'
      BY <1>2 DEF GitBrokerAssumption, Crash, Broker, Typed, CallOK, At, Over, Idle, Settled,
         Pending, Callers, git
    <2> QED BY <2>1, <2>2, OtherCalls
  <1>4. CallsKnow'
    BY DEF GitBrokerAssumption, Crash, Broker, Typed, CallsKnow, Started, At, Over, Idle,
       Callers, git
  <1>5. OutcomesKnown'
    BY DEF GitBrokerAssumption, Crash, Broker, Typed, OutcomesKnown, At, Over, Idle, States,
       Callers, git
  <1>6. OneDispatcher'
    BY DEF GitBrokerAssumption, Crash, Broker, Typed, OneDispatcher, At, Over, Idle, Callers, git
  <1>7. Sent'
    BY DEF GitBrokerAssumption, Crash, Broker, Typed, Sent, Started, At, Over, Idle, Callers, git
  <1>8. Arrived'
    BY DEF GitBrokerAssumption, Crash, Broker, Typed, Arrived, At, Over, Idle, States, Callers,
       git
  <1>9. OnePending'
    BY DEF GitBrokerAssumption, Crash, Broker, Typed, OnePending, At, Over, Idle, Pending,
       Callers, git
  <1>10. (EmptyRepository \/ OutcomeIsTrue)'
    BY DEF GitBrokerAssumption, Crash, Broker, Typed, OutcomeIsTrue, At, Over, Idle, States,
       Callers, git
  <1> QED BY <1>1, <1>2, <1>3, <1>4, <1>5, <1>6, <1>7, <1>8, <1>9, <1>10 DEF Broker, Typed, TypeOK

LEMMA BrokerBegins == ASSUME GitBrokerAssumption, Init PROVE Broker
  <1>1. Typed
    BY DEF GitBrokerAssumption, Init, Typed, TypeOK, RowsOK, CallOK, WorkerState, Idle, Pending,
       Settled
  <1>2. CallsKnow /\ OutcomesKnown /\ OneDispatcher
    BY DEF GitBrokerAssumption, Init, CallsKnow, OutcomesKnown, OneDispatcher, Idle, At
  <1>3. Sent /\ Arrived /\ OnePending /\ OutcomeIsTrue
    BY DEF GitBrokerAssumption, Init, Sent, Arrived, OnePending, OutcomeIsTrue, Started, Pending
  <1> QED BY <1>1, <1>2, <1>3 DEF Broker

LEMMA BrokerStays == ASSUME GitBrokerAssumption, Broker, [Next]_vars PROVE Broker'
  <1>1. CASE \E w \in Callers : Call(w) \/ \E g \in Op : Begin(w, g)
    BY <1>1, KeepBegin, KeepAccess, KeepNoAccess, KeepClaim, KeepRefuse, KeepSend, KeepReply,
       KeepLook, KeepLookFails, KeepFinish, KeepCrash DEF Call
  <1>2. CASE \E g \in Op :
               Propose(g) \/ Land(g) \/ Refused(g) \/ Lost(g) \/ Sweep(g) \/ Remove(g)
    BY <1>2, KeepPropose, KeepLand, KeepRefused, KeepLost, KeepSweep, KeepRemove
  <1>3. CASE Others
    BY <1>3, KeepOthers
  <1>4. CASE UNCHANGED vars
    BY <1>4 DEF vars, git, Broker, Typed, TypeOK, RowsOK, CallOK, CallsKnow, OutcomesKnown,
       OneDispatcher, Sent, Arrived, OnePending, OutcomeIsTrue, At, Started
  <1> QED BY <1>1, <1>2, <1>3, <1>4 DEF Next

LEMMA AlwaysBroker == ASSUME GitBrokerAssumption PROVE Spec => []Broker
  BY BrokerBegins, BrokerStays, PTL DEF Spec

(***************************************************************************)
(* What it says.                                                           *)
(***************************************************************************)

\* Whatever calls crash, repeat or race, a write is sent to GitHub at most once.
THEOREM WritesGoOutOnce == ASSUME GitBrokerAssumption PROVE Spec => []DispatchedOnce
  <1>1. Broker => DispatchedOnce
    BY DEF Broker, Sent, DispatchedOnce
  <1> QED BY <1>1, AlwaysBroker, PTL

\* What is recorded of a write is what became of it, in a repository that has a
\* commit: an outcome is never guessed from an answer that did not come.
THEOREM OutcomesAreTrue ==
  ASSUME GitBrokerAssumption, ~EmptyRepository PROVE Spec => []OutcomeIsTrue
  <1>1. Broker => OutcomeIsTrue
    BY DEF Broker
  <1> QED BY <1>1, AlwaysBroker, PTL

\* There is no second write on its way to the repository, because a write without
\* a recorded outcome keeps the others from being claimed.
THEOREM WritesGoAlone ==
  ASSUME GitBrokerAssumption, ~EmptyRepository PROVE Spec => []OneWriteInFlight
  <1>1. ASSUME Broker PROVE OneWriteInFlight
    <2> DEFINE Away == {g \in Op \ States : flight[g] = "sent"}
    <2>1. \A g \in Away : execution[g] \in Pending
      BY <1>1 DEF Broker, Typed, TypeOK, RowsOK, Sent, Started, OutcomeIsTrue, Settled
    <2>2. \A g, h \in Away : g = h
      BY <1>1, <2>1 DEF Broker, OnePending
    <2>3. Away = {} \/ \E g \in Op : Away = {g}
      BY <2>2
    <2>4. Cardinality(Away) <= 1
      <3>1. CASE Away = {}
        BY <3>1, FS_EmptySet
      <3>2. ASSUME NEW g \in Op, Away = {g} PROVE Cardinality(Away) <= 1
        BY <3>2, FS_Singleton
      <3> QED BY <2>3, <3>1, <3>2
    <2> QED BY <2>4 DEF OneWriteInFlight
  <1> QED BY <1>1, AlwaysBroker, PTL

\* An outcome that was recorded is never replaced, whoever answers later.
THEOREM OutcomesAreFinal ==
  ASSUME GitBrokerAssumption PROVE Spec => [][OutcomeIsFinal]_vars
  <1>1. ASSUME Broker, Next PROVE OutcomeIsFinal
    <2>1. CASE \E w \in Callers : Call(w) \/ \E g \in Op : Begin(w, g)
      BY <1>1, <2>1 DEF Call, Begin, Access, NoAccess, Claim, Refuse, Send, Reply, Look,
         LookFails, Finish, Crash, Dispatches, OutcomeIsFinal, Settled, Broker, Typed, TypeOK,
         RowsOK
    <2>2. CASE \/ \E g \in Op :
                    Propose(g) \/ Land(g) \/ Refused(g) \/ Lost(g) \/ Sweep(g) \/ Remove(g)
               \/ Others
      BY <1>1, <2>2 DEF Propose, Land, Refused, Lost, Sweep, Remove, Others, OutcomeIsFinal,
         Settled, Broker, Typed, TypeOK, RowsOK
    <2> QED BY <1>1, <2>1, <2>2 DEF Next
  <1> QED BY <1>1, AlwaysBroker, PTL DEF Spec
=============================================================================
