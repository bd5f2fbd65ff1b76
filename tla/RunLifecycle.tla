---------------------------- MODULE RunLifecycle ----------------------------
(***************************************************************************)
(* What the thread store promises about runs, without the rows that keep   *)
(* it: a thread works on one accepted message at a time, messages that     *)
(* find it busy wait, and the end of a run hands over to a waiting message *)
(* unless the run was cancelled.                                           *)
(***************************************************************************)
EXTENDS Integers, FiniteSets

CONSTANTS Thread, Message, None, MaxActiveRuns

\* What the theorems need of the constants.
LifecycleAssumption ==
  MaxActiveRuns \in Nat \ {0} /\ IsFiniteSet(Message) /\ None \notin Thread

VARIABLES
  life,   (* threads: absent, live, deleted or purged                      *)
  home,   (* the thread that accepted a message                            *)
  phase   (* messages: waiting, at work (queued or running) or done with   *)

lifecycle == << life, home, phase >>

Working == {"queued", "running"}
Ended   == {"completed", "failed", "cancelled"}
Phases  == {"absent", "waiting", "withdrawn", "purged"} \cup Working \cup Ended

Types ==
  /\ life \in [Thread -> {"absent", "live", "deleted", "purged"}]
  /\ home \in [Message -> Thread \cup {None}]
  /\ phase \in [Message -> Phases]

WorkIn(p)    == {m \in Message : p[m] \in Working}
WorkOf(t)    == {m \in WorkIn(phase) : home[m] = t}
WaitingOf(t) == {m \in Message : phase[m] = "waiting" /\ home[m] = t}

\* There is room for one more run.
Room(p) == Cardinality(WorkIn(p)) < MaxActiveRuns

Init ==
  /\ life = [t \in Thread |-> "absent"]
  /\ home = [m \in Message |-> None]
  /\ phase = [m \in Message |-> "absent"]

\* A message that finds its thread idle starts, one that finds it busy waits.
Accept(t, m) ==
  /\ phase[m] = "absent"
  /\ home' = [home EXCEPT ![m] = t]
  /\ \/ /\ life[t] \in {"absent", "live"}
        /\ WorkOf(t) = {} /\ Room(phase)
        /\ life' = [life EXCEPT ![t] = "live"]
        /\ phase' = [phase EXCEPT ![m] = "queued"]
     \/ /\ life[t] = "live"
        /\ WorkOf(t) # {}
        /\ phase' = [phase EXCEPT ![m] = "waiting"]
        /\ UNCHANGED life

\* A waiting message is removed, or read by the run at work.
Withdraw(m) ==
  /\ phase[m] = "waiting"
  /\ phase' = [phase EXCEPT ![m] = "withdrawn"]
  /\ UNCHANGED << life, home >>

\* The user lets an idle thread go on with a waiting message.
Restart(t, m) ==
  /\ life[t] = "live"
  /\ WorkOf(t) = {} /\ Room(phase)
  /\ m \in WaitingOf(t)
  /\ phase' = [phase EXCEPT ![m] = "queued"]
  /\ UNCHANGED << life, home >>

Begin(r) ==
  /\ phase[r] = "queued"
  /\ phase' = [phase EXCEPT ![r] = "running"]
  /\ UNCHANGED << life, home >>

\* A cancelled run leaves the waiting messages waiting.
Cancelled(r) ==
  /\ phase[r] \in Working
  /\ phase' = [phase EXCEPT ![r] = "cancelled"]
  /\ UNCHANGED << life, home >>

EndAs(r, result) == [phase EXCEPT ![r] = result]

HandsOver(r, result) == WaitingOf(home[r]) # {} /\ Room(EndAs(r, result))

\* A run that succeeds or fails hands over when a message waits and there is
\* room without it.
HandOver(r, result) ==
  /\ phase[r] \in Working
  /\ IF HandsOver(r, result)
     THEN \E m \in WaitingOf(home[r]) : phase' = [EndAs(r, result) EXCEPT ![m] = "queued"]
     ELSE phase' = EndAs(r, result)
  /\ UNCHANGED << life, home >>

\* Only an idle thread is deleted, and nothing of a deleted thread works.
Delete(t) ==
  /\ life[t] = "live"
  /\ WorkOf(t) = {}
  /\ life' = [life EXCEPT ![t] = "deleted"]
  /\ UNCHANGED << home, phase >>

Purge(t) ==
  /\ life[t] = "deleted"
  /\ life' = [life EXCEPT ![t] = "purged"]
  /\ phase' = [m \in Message |-> IF home[m] = t THEN "purged" ELSE phase[m]]
  /\ home' = [m \in Message |-> IF home[m] = t THEN None ELSE home[m]]

WorkNext ==
  \/ \E t \in Thread, m \in Message : Accept(t, m) \/ Restart(t, m)
  \/ \E m \in Message : Withdraw(m) \/ Begin(m) \/ Cancelled(m)
  \/ \E m \in Message, result \in {"completed", "failed"} : HandOver(m, result)

Next == WorkNext \/ \E t \in Thread : Delete(t) \/ Purge(t)

Spec == Init /\ [][Next]_lifecycle

(***************************************************************************)
(* What follows from it.                                                   *)
(***************************************************************************)
\* One run at a time works on a thread.
OneAtATime == \A r, s \in WorkIn(phase) : home[r] = home[s] => r = s

\* Nothing works for a thread that is not live.
WorkIsLive == \A r \in WorkIn(phase) : home[r] \in Thread /\ life[home[r]] = "live"

\* No more runs work than are admitted.
Admitted == Cardinality(WorkIn(phase)) <= MaxActiveRuns

\* An ended run stays as it ended until its thread is purged.
EndsForGood ==
  \A r \in Message : phase[r] \in Ended => phase'[r] \in {phase[r], "purged"}

\* A thread goes idle with messages waiting only when its run is cancelled.
StallsByCancel ==
  \A t \in Thread :
    (WorkOf(t) # {} /\ WorkOf(t)' = {} /\ WaitingOf(t)' # {})
      => \A r \in WorkOf(t) : phase'[r] = "cancelled"

\* A cancellation starts nothing and leaves what waits waiting.
CancelLeavesWaiting ==
  \A r \in Message :
    (phase[r] \in Working /\ phase'[r] = "cancelled")
      => /\ WorkOf(home[r])' = {}
         /\ WaitingOf(home[r])' = WaitingOf(home[r])
         /\ home'[r] = home[r]

\* Only a deletion takes a thread or a message of it away.
NothingIsTaken ==
  /\ \A m \in Message : phase[m] # "absent" => home'[m] = home[m]
  /\ \A t \in Thread : life'[t] \in {life[t], "live"}

Promise == [][EndsForGood /\ StallsByCancel /\ CancelLeavesWaiting]_lifecycle
=============================================================================
