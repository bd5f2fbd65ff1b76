------------------------ MODULE RunLifecycle_proofs -------------------------
(***************************************************************************)
(* What RunLifecycle promises follows from its actions, for any number of  *)
(* threads and messages and any limit.                                     *)
(***************************************************************************)
EXTENDS RunLifecycle, FiniteSetTheorems, TLAPS

Safe == Types /\ OneAtATime /\ WorkIsLive /\ Admitted

\* No message is accepted at first.
LEMMA InitSafe == LifecycleAssumption /\ Init => Safe
  <1> SUFFICES ASSUME LifecycleAssumption, Init PROVE Safe
    OBVIOUS
  <1>1. WorkIn(phase) = {}
    BY DEF Init, WorkIn, Working
  <1>2. Cardinality(WorkIn(phase)) = 0
    BY <1>1, FS_EmptySet
  <1> QED BY <1>1, <1>2
          DEF LifecycleAssumption, Init, Safe, Types, Phases, OneAtATime, WorkIsLive, Admitted

\* The admission count: what is at work is a finite set, and starting one more
\* message of it, or ending some, counts as expected.
LEMMA Counting ==
  ASSUME LifecycleAssumption, NEW p, NEW q
  PROVE  /\ Cardinality(WorkIn(p)) \in Nat
         /\ WorkIn(q) \subseteq WorkIn(p) => Cardinality(WorkIn(q)) <= Cardinality(WorkIn(p))
         /\ \A m \in Message : WorkIn(q) \subseteq WorkIn(p) \cup {m} =>
              Cardinality(WorkIn(q)) <= Cardinality(WorkIn(p)) + 1
  <1>1. IsFiniteSet(WorkIn(p)) /\ IsFiniteSet(WorkIn(q))
    BY FS_Subset DEF LifecycleAssumption, WorkIn
  <1>2. Cardinality(WorkIn(p)) \in Nat /\ Cardinality(WorkIn(q)) \in Nat
    BY <1>1, FS_CardinalityType
  <1>3. ASSUME WorkIn(q) \subseteq WorkIn(p)
        PROVE  Cardinality(WorkIn(q)) <= Cardinality(WorkIn(p))
    BY <1>1, <1>3, FS_Subset
  <1>4. ASSUME NEW m \in Message, WorkIn(q) \subseteq WorkIn(p) \cup {m}
        PROVE  Cardinality(WorkIn(q)) <= Cardinality(WorkIn(p)) + 1
    <2>1. /\ IsFiniteSet(WorkIn(p) \cup {m})
          /\ Cardinality(WorkIn(p) \cup {m}) <= Cardinality(WorkIn(p)) + 1
      <3>1. /\ IsFiniteSet(WorkIn(p) \cup {m})
            /\ \/ Cardinality(WorkIn(p) \cup {m}) = Cardinality(WorkIn(p))
               \/ Cardinality(WorkIn(p) \cup {m}) = Cardinality(WorkIn(p)) + 1
        BY <1>1, FS_AddElement
      <3> QED BY <3>1, <1>2
    <2>2. Cardinality(WorkIn(q)) <= Cardinality(WorkIn(p) \cup {m})
      BY <2>1, <1>4, FS_Subset
    <2>3. Cardinality(WorkIn(p) \cup {m}) \in Nat
      BY <2>1, FS_CardinalityType
    <2> QED BY <1>2, <2>1, <2>2, <2>3
  <1> QED BY <1>2, <1>3, <1>4

\* A message starts on a thread where nothing works, with room for it.
LEMMA StartKeepsSafe ==
  ASSUME LifecycleAssumption, Safe, NEW t \in Thread, NEW m \in Message, phase[m] \notin Working,
         WorkOf(t) = {}, Room(phase),
         Types', home' = [home EXCEPT ![m] = t], life'[t] = "live",
         \A s \in Thread \ {t} : life'[s] = life[s],
         phase' = [phase EXCEPT ![m] = "queued"]
  PROVE  Safe'
  <1>1. WorkIn(phase') = WorkIn(phase) \cup {m}
    BY DEF Safe, Types, WorkIn, Working
  <1>2. OneAtATime'
    BY <1>1 DEF Safe, Types, OneAtATime, WorkOf
  <1>3. WorkIsLive'
    BY <1>1 DEF Safe, Types, WorkIsLive
  <1>4. Admitted'
    <2>1. Cardinality(WorkIn(phase')) <= Cardinality(WorkIn(phase)) + 1
      BY <1>1, Counting
    <2>2. /\ Cardinality(WorkIn(phase)) \in Nat /\ Cardinality(WorkIn(phase')) \in Nat
          /\ Cardinality(WorkIn(phase)) < MaxActiveRuns
      BY Counting DEF Room
    <2> QED BY <2>1, <2>2 DEF LifecycleAssumption, Admitted
  <1> QED BY <1>2, <1>3, <1>4 DEF Safe

\* A step after which no more is at work than before, where it was.
LEMMA NoMoreWork ==
  ASSUME LifecycleAssumption, Safe, Types', WorkIn(phase') \subseteq WorkIn(phase),
         \A m \in WorkIn(phase') : home'[m] = home[m] /\ life'[home[m]] = life[home[m]]
  PROVE  Safe'
  <1>1. Admitted'
    <2>1. Cardinality(WorkIn(phase')) <= Cardinality(WorkIn(phase))
      BY Counting
    <2>2. Cardinality(WorkIn(phase)) \in Nat /\ Cardinality(WorkIn(phase')) \in Nat
      BY Counting
    <2> QED BY <2>1, <2>2 DEF LifecycleAssumption, Safe, Admitted
  <1> QED BY <1>1 DEF Safe, OneAtATime, WorkIsLive

\* No step leaves the safe states.
LEMMA NextSafe == LifecycleAssumption /\ Safe /\ [Next]_lifecycle => Safe'
  <1> SUFFICES ASSUME LifecycleAssumption, Safe, [Next]_lifecycle PROVE Safe'
    OBVIOUS
  <1>1. ASSUME NEW t \in Thread, NEW m \in Message, Accept(t, m) PROVE Safe'
    <2>1. Types'
      BY <1>1 DEF Accept, Safe, Types, Phases, Working
    <2>2. CASE WorkOf(t) = {} /\ life' = [life EXCEPT ![t] = "live"]
      BY <1>1, <2>1, <2>2, StartKeepsSafe DEF Accept, Working, Safe, Types
    <2>3. CASE phase' = [phase EXCEPT ![m] = "waiting"] /\ UNCHANGED life
      BY <1>1, <2>1, <2>3, NoMoreWork DEF Accept, WorkIn, Working, Safe, Types
    <2> QED BY <1>1, <2>2, <2>3 DEF Accept
  <1>2. ASSUME NEW t \in Thread, NEW m \in Message, Restart(t, m) PROVE Safe'
    <2>1. Types' /\ home' = [home EXCEPT ![m] = t]
      BY <1>2 DEF Restart, WaitingOf, Safe, Types, Phases, Working
    <2> QED BY <1>2, <2>1, StartKeepsSafe DEF Restart, WaitingOf, Working
  <1>3. ASSUME NEW m \in Message, Withdraw(m) \/ Begin(m) \/ Cancelled(m) PROVE Safe'
    <2>1. Types'
      BY <1>3 DEF Withdraw, Begin, Cancelled, Safe, Types, Phases, Working, Ended
    <2>2. WorkIn(phase') \subseteq WorkIn(phase) /\ UNCHANGED << life, home >>
      BY <1>3 DEF Withdraw, Begin, Cancelled, WorkIn, Working, Safe, Types
    <2> QED BY <2>1, <2>2, NoMoreWork
  <1>4. ASSUME NEW r \in Message, NEW result \in {"completed", "failed"}, HandOver(r, result)
        PROVE  Safe'
    <2> DEFINE p == EndAs(r, result)
    <2>1. /\ p \in [Message -> Phases]
          /\ WorkIn(p) = WorkIn(phase) \ {r}
          /\ r \in WorkIn(phase)
      BY <1>4 DEF HandOver, EndAs, Safe, Types, Phases, Working, Ended, WorkIn
    <2>2. CASE phase' = p
      <3>1. Types'
        BY <1>4, <2>1, <2>2 DEF HandOver, Safe, Types
      <3> QED BY <1>4, <2>1, <2>2, <3>1, NoMoreWork DEF HandOver
    <2>3. ASSUME NEW m \in WaitingOf(home[r]), Room(p), phase' = [p EXCEPT ![m] = "queued"]
          PROVE  Safe'
      <3>1. m \in Message /\ home[m] = home[r] /\ m \notin WorkIn(phase)
        BY DEF WaitingOf, WorkIn, Working
      <3>2. Types' /\ WorkIn(phase') = WorkIn(p) \cup {m}
        BY <1>4, <2>1, <2>3, <3>1 DEF HandOver, Safe, Types, WorkIn, Working, Phases
      <3>3. OneAtATime'
        BY <1>4, <2>1, <3>1, <3>2 DEF HandOver, Safe, OneAtATime
      <3>4. WorkIsLive'
        BY <1>4, <2>1, <3>1, <3>2 DEF HandOver, Safe, WorkIsLive
      <3>5. Admitted'
        <4>1. Cardinality(WorkIn(phase')) <= Cardinality(WorkIn(p)) + 1
          BY <3>1, <3>2, Counting
        <4>2. /\ Cardinality(WorkIn(p)) \in Nat /\ Cardinality(WorkIn(phase')) \in Nat
              /\ Cardinality(WorkIn(p)) < MaxActiveRuns
          BY <2>3, Counting DEF Room
        <4> QED BY <4>1, <4>2 DEF LifecycleAssumption, Admitted
      <3> QED BY <3>2, <3>3, <3>4, <3>5 DEF Safe
    <2> QED BY <1>4, <2>2, <2>3 DEF HandOver, HandsOver
  <1>5. ASSUME NEW t \in Thread, Delete(t) PROVE Safe'
    <2>1. Types'
      BY <1>5 DEF Delete, Safe, Types
    <2>2. \A m \in WorkIn(phase) : home[m] # t
      BY <1>5 DEF Delete, WorkOf
    <2> QED BY <1>5, <2>1, <2>2, NoMoreWork DEF Delete, Safe, Types, WorkIsLive
  <1>6. ASSUME NEW t \in Thread, Purge(t) PROVE Safe'
    <2>1. Types'
      BY <1>6 DEF Purge, Safe, Types, Phases
    <2>2. /\ WorkIn(phase') \subseteq WorkIn(phase)
          /\ \A m \in WorkIn(phase') : home[m] # t
      BY <1>6 DEF Purge, WorkIn, Working, Safe, Types
    <2> QED BY <1>6, <2>1, <2>2, NoMoreWork DEF Purge, Safe, Types, WorkIsLive, WorkIn
  <1>7. CASE UNCHANGED lifecycle
    BY <1>7 DEF lifecycle, Safe, Types, OneAtATime, WorkIsLive, Admitted
  <1> QED BY <1>1, <1>2, <1>3, <1>4, <1>5, <1>6, <1>7 DEF Next, WorkNext

\* The promise holds for ever.
THEOREM LifecycleIsSafe == ASSUME LifecycleAssumption PROVE Spec => []Safe
  <1>1. Init => Safe
    BY InitSafe
  <1>2. Safe /\ [Next]_lifecycle => Safe'
    BY NextSafe
  <1> QED BY <1>1, <1>2, PTL DEF Spec

\* Work takes nothing away.
LEMMA WorkTakesNothing ==
  ASSUME Safe, [WorkNext]_lifecycle
  PROVE  NothingIsTaken
  <1> USE DEF NothingIsTaken, Safe, Types
  <1>1. ASSUME NEW t \in Thread, NEW m \in Message, Accept(t, m)
        PROVE  NothingIsTaken
    BY <1>1 DEF Accept
  <1>2. ASSUME UNCHANGED << life, home >>
        PROVE  NothingIsTaken
    BY <1>2
  <1> QED BY <1>1, <1>2 DEF WorkNext, lifecycle, Restart, Withdraw, Begin, Cancelled, HandOver

\* What one step may do with ended runs and waiting messages.
LEMMA StepKeepsPromise ==
  ASSUME LifecycleAssumption, Safe, [Next]_lifecycle
  PROVE  EndsForGood /\ StallsByCancel /\ CancelLeavesWaiting
  <1> USE DEF Safe, Types
  <1>1. EndsForGood
    BY DEF EndsForGood, Next, WorkNext, lifecycle, Accept, Withdraw, Restart, WaitingOf, Begin, Cancelled,
       HandOver, EndAs, Delete, Purge, Working, Ended, Phases
  <1>2. ASSUME NEW r \in Message, NEW result \in {"completed", "failed"}, HandOver(r, result)
        PROVE  StallsByCancel /\ CancelLeavesWaiting
    <2>1. Room(EndAs(r, result))
      <3>1. WorkIn(EndAs(r, result)) = WorkIn(phase) \ {r} /\ r \in WorkIn(phase)
        BY <1>2 DEF HandOver, EndAs, WorkIn, Working, Phases
      <3>2. IsFiniteSet(WorkIn(phase))
        BY FS_Subset DEF LifecycleAssumption, WorkIn
      <3>3. Cardinality(WorkIn(phase) \ {r}) = Cardinality(WorkIn(phase)) - 1
        BY <3>1, <3>2, FS_RemoveElement
      <3>4. Cardinality(WorkIn(phase)) \in Nat
        BY <3>2, FS_CardinalityType
      <3> QED BY <3>1, <3>3, <3>4 DEF LifecycleAssumption, Admitted, Room
    <2>2. UNCHANGED << life, home >>
      BY <1>2 DEF HandOver
    <2>3. \A m \in Message : phase'[m] = "cancelled" => phase[m] = "cancelled"
      BY <1>2 DEF HandOver, EndAs, WaitingOf, Phases
    <2>4. CancelLeavesWaiting
      BY <2>3 DEF CancelLeavesWaiting, Working
    <2>5. CASE WaitingOf(home[r]) = {} /\ phase' = EndAs(r, result)
      <3>1. \A t \in Thread : WaitingOf(t)' = WaitingOf(t)
        BY <1>2, <2>2, <2>5 DEF HandOver, EndAs, WaitingOf, Working, Phases
      <3>2. \A t \in Thread : t # home[r] => WorkOf(t)' = WorkOf(t)
        BY <1>2, <2>2, <2>5 DEF HandOver, EndAs, WorkOf, WorkIn, Working, Phases
      <3>3. StallsByCancel
        BY <2>5, <3>1, <3>2 DEF StallsByCancel
      <3> QED BY <2>4, <3>3
    <2>6. ASSUME NEW m \in WaitingOf(home[r]), phase' = [EndAs(r, result) EXCEPT ![m] = "queued"]
          PROVE  StallsByCancel
      <3>1. \A t \in Thread : t # home[r] => WorkOf(t)' = WorkOf(t)
        BY <1>2, <2>2, <2>6 DEF HandOver, EndAs, WorkOf, WorkIn, WaitingOf, Working, Phases
      <3>2. \A t \in Thread : t = home[r] => m \in WorkOf(t)'
        BY <2>2, <2>6 DEF EndAs, WorkOf, WorkIn, WaitingOf, Working, Phases
      <3> QED BY <3>1, <3>2 DEF StallsByCancel
    <2> QED BY <1>2, <2>1, <2>4, <2>5, <2>6 DEF HandOver, HandsOver
  <1>3. ASSUME NEW r \in Message, Cancelled(r)
        PROVE  StallsByCancel /\ CancelLeavesWaiting
    <2>1. r \in WorkIn(phase) /\ \A s \in WorkIn(phase) : home[s] = home[r] => s = r
      BY <1>3 DEF Cancelled, OneAtATime, WorkIn
    <2>2. WorkIn(phase') = WorkIn(phase) \ {r} /\ UNCHANGED << life, home >>
      BY <1>3 DEF Cancelled, WorkIn, Working, Phases
    <2>3. WorkOf(home[r])' = {} /\ WaitingOf(home[r])' = WaitingOf(home[r])
      <3>1. WorkOf(home[r])' = {}
        BY <2>1, <2>2 DEF WorkOf
      <3>2. \A m \in Message : phase'[m] = "waiting" <=> phase[m] = "waiting"
        BY <1>3 DEF Cancelled, Working, Phases
      <3>3. WaitingOf(home[r])' = WaitingOf(home[r])
        BY <2>2, <3>2 DEF WaitingOf
      <3> QED BY <3>1, <3>3
    <2>4. \A s \in Message \ {r} : phase'[s] = phase[s]
      BY <1>3 DEF Cancelled
    <2>5. CancelLeavesWaiting
      <3> SUFFICES ASSUME NEW s \in Message, phase[s] \in Working, phase'[s] = "cancelled"
                   PROVE  s = r
        BY <2>2, <2>3 DEF CancelLeavesWaiting
      <3> QED BY <2>4 DEF Working
    <2>6. StallsByCancel
      <3> SUFFICES ASSUME NEW t \in Thread, NEW s \in WorkOf(t), WorkOf(t)' = {}
                   PROVE  phase'[s] = "cancelled"
        BY DEF StallsByCancel
      <3>1. s = r
        BY <2>2 DEF WorkOf
      <3> QED BY <1>3, <3>1 DEF Cancelled, Phases
    <2> QED BY <2>5, <2>6
  <1>4. ASSUME NEW t \in Thread, Delete(t) \/ Purge(t)
        PROVE  StallsByCancel /\ CancelLeavesWaiting
    <2>1. \A r \in WorkIn(phase) : home[r] # t
      BY <1>4 DEF Delete, Purge, WorkIsLive, WorkOf
    <2>2. \A r \in WorkIn(phase) : phase'[r] = phase[r] /\ home'[r] = home[r]
      BY <1>4, <2>1 DEF Delete, Purge, WorkIn
    <2>3. \A s \in Thread : \A r \in WorkOf(s) : r \in WorkOf(s)'
      BY <2>2 DEF WorkOf, WorkIn
    <2>4. StallsByCancel
      BY <2>3 DEF StallsByCancel
    <2>5. CancelLeavesWaiting
      BY <2>2 DEF CancelLeavesWaiting, WorkIn, Working
    <2> QED BY <2>4, <2>5
  <1>5. ASSUME \A r \in WorkIn(phase) : phase'[r] \in Working /\ home'[r] = home[r]
        PROVE  StallsByCancel /\ CancelLeavesWaiting
    BY <1>5 DEF StallsByCancel, CancelLeavesWaiting, WorkOf, WorkIn, Working
  <1>6. ASSUME NEW t \in Thread, NEW m \in Message, Accept(t, m) \/ Restart(t, m)
        PROVE  StallsByCancel /\ CancelLeavesWaiting
    BY <1>5, <1>6 DEF Accept, Restart, WaitingOf, WorkIn, Working
  <1>7. ASSUME NEW m \in Message, Withdraw(m) \/ Begin(m)
        PROVE  StallsByCancel /\ CancelLeavesWaiting
    BY <1>5, <1>7 DEF Withdraw, Begin, WorkIn, Working
  <1>8. ASSUME UNCHANGED lifecycle
        PROVE  StallsByCancel /\ CancelLeavesWaiting
    BY <1>5, <1>8 DEF lifecycle, WorkIn, Working
  <1>9. StallsByCancel /\ CancelLeavesWaiting
    BY <1>2, <1>3, <1>4, <1>6, <1>7, <1>8 DEF Next, WorkNext
  <1> QED BY <1>1, <1>9

\* What ended stays ended, and a thread stops only when its run is cancelled.
THEOREM LifecycleKeepsPromise == ASSUME LifecycleAssumption PROVE Spec => Promise
  <1>1. Safe /\ [Next]_lifecycle => EndsForGood /\ StallsByCancel /\ CancelLeavesWaiting
    BY StepKeepsPromise
  <1> QED BY <1>1, LifecycleIsSafe, PTL DEF Spec, Promise
=============================================================================
