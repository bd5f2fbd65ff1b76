---------------------------- MODULE ReviewPanel -----------------------------
(***************************************************************************)
(* A panel that reads a workspace keeps it awake and wakes it once:        *)
(* workspace-panel.tsx, routers/workspace.ts, the review operations of     *)
(* threads/workspaces.ts, and the idle wait of threadWorkflow.             *)
(*                                                                         *)
(* A tick is the minute that touchWorkspaceReview allows a timestamp to    *)
(* lag behind.                                                             *)
(***************************************************************************)
EXTENDS Integers, Sequences

CONSTANTS
  Idle,       \* ticks of an idle period
  Life,       \* ticks that a sandbox lives
  Margin,     \* lifecyclePauseMarginMs
  MaxRuns, MaxOpens, MaxClicks, MaxRequests, MaxNews   \* bounds

ReviewPanelAssumption ==
  /\ {Idle, Life, Margin, MaxRuns, MaxOpens, MaxClicks, MaxRequests, MaxNews} \subseteq Nat
  /\ 1 < Idle /\ 0 < Margin /\ Idle + Margin < Life

VARIABLES
  sandbox,    \* its state and the ticks it has left
  age,        \* ticks since the review the row records
  used,       \* ticks since the last read
  run,        \* none, active, or waiting for a person
  loop,       \* the workflow: where it waits, for how long, and the wake it was sent
  waiting,    \* an undelivered outbox row asks for a wake
  panel,      \* the page
  news,       \* states of the workspace that the page was not told yet
  asks,       \* requests for a wake under way: those the page still follows
  count       \* runs, openings, clicks and wakes so far

vars == << sandbox, age, used, run, loop, waiting, panel, news, asks, count >>

Closed == [open |-> FALSE, auto |-> TRUE, wake |-> "idle", failed |-> FALSE,
           timedOut |-> FALSE, seen |-> "paused"]

Init ==
  /\ sandbox = [state |-> "paused", left |-> 0]
  /\ age = Idle /\ used = Idle
  /\ run = "none"
  /\ loop = [at |-> "parked", timer |-> 0, wake |-> FALSE]
  /\ waiting = FALSE
  /\ panel = Closed
  /\ news = << >>
  /\ asks = << >>
  /\ count = [runs |-> 0, opens |-> 0, clicks |-> 0, wakes |-> 0]

Becomes(state) ==
  /\ sandbox' = [state |-> state, left |-> IF state = "running" THEN Life ELSE 0]
  /\ news' = IF panel.open THEN Append(news, state) ELSE << >>

(***************************************************************************)
(* The thread's workflow.                                                  *)
(***************************************************************************)
\* idleElapsed: the first wait is a whole idle period.
Idles == loop' = [at |-> "idle", timer |-> Idle, wake |-> FALSE]

\* A sandbox without the lifetime a run needs is replaced by a fresh one.
StartRun ==
  /\ run = "none" /\ loop.at # "pausing" /\ count.runs < MaxRuns
  /\ run' = "active"
  /\ loop' = [loop EXCEPT !.at = "run"]
  /\ IF sandbox.state = "running"
     THEN sandbox' = [sandbox EXCEPT !.left = Life] /\ UNCHANGED news
     ELSE Becomes("running")
  /\ count' = [count EXCEPT !.runs = @ + 1]
  /\ UNCHANGED << age, used, waiting, panel, asks >>

\* waitForPerson pauses a workspace that nobody reads.
PauseForPerson ==
  /\ run = "active"
  /\ age = Idle /\ Len(news) < MaxNews
  /\ run' = "asking"
  /\ Becomes("paused")
  /\ UNCHANGED << age, used, loop, waiting, panel, asks, count >>

Answer ==
  /\ run = "asking"
  /\ run' = "active"
  /\ Becomes("running")
  /\ UNCHANGED << age, used, loop, waiting, panel, asks, count >>

EndRun ==
  /\ run = "active"
  /\ run' = "none"
  /\ IF loop.wake THEN loop' = [loop EXCEPT !.at = "waking"] ELSE Idles
  /\ UNCHANGED << sandbox, age, used, waiting, panel, news, asks, count >>

\* The outbox row of a wake is delivered as a signal.
Deliver ==
  /\ waiting
  /\ waiting' = FALSE
  /\ loop' = [loop EXCEPT !.wake = TRUE,
                          !.at = IF @ \in {"idle", "parked"} THEN "waking" ELSE @]
  /\ UNCHANGED << sandbox, age, used, run, panel, news, asks, count >>

\* wakeWorkspace: only a paused workspace wakes; the activity may fail.
Wake ==
  /\ loop.at = "waking"
  /\ Idles
  /\ \/ sandbox.state = "paused" /\ Becomes("running") /\ count' = [count EXCEPT !.wakes = @ + 1]
     \/ UNCHANGED << sandbox, news, count >>
  /\ UNCHANGED << age, used, run, waiting, panel, asks >>

Least(a, b) == IF a < b THEN a ELSE b

\* reviewDeferralMs: the grace that a read gives, never past the hard timeout.
Deferral == IF age = Idle THEN 0 ELSE Least(Idle - age, sandbox.left - Margin)

\* A deferral that cannot be computed is taken for none.
IdleElapsed ==
  /\ loop.at = "idle" /\ loop.timer = 0
  /\ IF sandbox.state = "running" /\ Deferral > 0
     THEN loop' = [loop EXCEPT !.timer = Deferral]
     ELSE loop' = [loop EXCEPT !.at = "pausing"]
  /\ UNCHANGED << sandbox, age, used, run, waiting, panel, news, asks, count >>

Pause ==
  /\ loop.at = "pausing"
  /\ loop' = [loop EXCEPT !.at = IF loop.wake THEN "waking" ELSE "parked"]
  /\ IF sandbox.state = "running" THEN Becomes("paused") ELSE UNCHANGED << sandbox, news >>
  /\ UNCHANGED << age, used, run, waiting, panel, asks, count >>

Older(n) == Least(n + 1, Idle)

\* Timers that are due and activities go before the next minute.  The lifetime of
\* a sandbox covers a run; a hard timeout that comes true is left out.
Tick ==
  /\ loop.at \in {"run", "parked"} \/ (loop.at = "idle" /\ loop.timer > 0)
  /\ age' = Older(age) /\ used' = Older(used)
  /\ IF loop.at = "idle"
     THEN /\ loop' = [loop EXCEPT !.timer = @ - 1]
          /\ sandbox.state = "running" => sandbox.left > 0
          /\ sandbox' = IF sandbox.state = "running" THEN [sandbox EXCEPT !.left = @ - 1] ELSE sandbox
     ELSE /\ << age, used >> # << Idle, Idle >>
          /\ UNCHANGED << loop, sandbox >>
  /\ UNCHANGED << run, waiting, panel, news, asks, count >>

(***************************************************************************)
(* The API server.                                                         *)
(***************************************************************************)
\* touchWorkspaceReview: most reads skip the write.
Touch == IF age > 1 THEN 0 ELSE age

\* A successful read of the panel.
Review ==
  /\ panel.open /\ panel.seen = "running" /\ sandbox.state = "running"
  /\ age' = Touch /\ used' = 0
  /\ UNCHANGED << sandbox, run, loop, waiting, panel, news, asks, count >>

Resolved(status) == IF Head(asks) THEN [panel EXCEPT !.wake = status] ELSE panel

\* requestWorkspaceWake: one undelivered wake is enough; a run that waits for
\* an answer wakes its workspace itself.
Asked ==
  /\ asks # << >>
  /\ asks' = Tail(asks)
  /\ IF sandbox.state = "paused" /\ run # "none"
     THEN panel' = Resolved("error") /\ UNCHANGED waiting
     ELSE panel' = Resolved("success") /\ waiting' = (waiting \/ sandbox.state = "paused")
  /\ UNCHANGED << sandbox, age, used, run, loop, news, count >>

(***************************************************************************)
(* The page.                                                               *)
(***************************************************************************)
Open ==
  /\ ~panel.open /\ count.opens < MaxOpens
  /\ panel' = [Closed EXCEPT !.open = TRUE, !.seen = sandbox.state]
  /\ news' = << >>
  /\ count' = [count EXCEPT !.opens = @ + 1]
  /\ UNCHANGED << sandbox, age, used, run, loop, waiting, asks >>

Unfollowed == [k \in DOMAIN asks |-> FALSE]

Close ==
  /\ panel.open
  /\ panel' = Closed /\ news' = << >> /\ asks' = Unfollowed
  /\ UNCHANGED << sandbox, age, used, run, loop, waiting, count >>

\* The summary of a workspace that paused meanwhile is refused.
SummaryFails ==
  /\ panel.open /\ panel.seen = "running" /\ sandbox.state = "paused"
  /\ panel' = [panel EXCEPT !.failed = TRUE]
  /\ UNCHANGED << sandbox, age, used, run, loop, waiting, news, asks, count >>

\* Events arrive in order and are shown together; one who sees the workspace
\* run forgets the wake.
Learn ==
  /\ panel.open
  /\ \E k \in 1 .. Len(news) :
       LET seen == news[k] turned == seen = "running" /\ panel.seen # "running" IN
       /\ news' = SubSeq(news, k + 1, Len(news))
       /\ panel' = [panel EXCEPT !.seen = seen,
                      !.failed = IF turned THEN FALSE ELSE @,
                      !.wake = IF turned THEN "idle" ELSE @,
                      !.timedOut = IF turned THEN FALSE ELSE @]
       /\ asks' = IF turned THEN Unfollowed ELSE asks
  /\ UNCHANGED << sandbox, age, used, run, loop, waiting, count >>

\* A mutation follows its last call only.
Ask == Len(asks) < MaxRequests /\ asks' = Append(Unfollowed, TRUE)

AutoAfterWake == FALSE

\* Opening the panel wakes a paused sandbox once.
AutoWake ==
  /\ panel.open /\ panel.auto /\ (panel.seen = "paused" \/ panel.failed)
  /\ panel' = [panel EXCEPT !.auto = AutoAfterWake, !.wake = "pending"]
  /\ Ask
  /\ UNCHANGED << sandbox, age, used, run, loop, waiting, news, count >>

\* "The workspace did not wake."
WakeTimesOut ==
  /\ panel.wake = "success" /\ panel.seen = "paused" /\ ~panel.timedOut
  /\ panel' = [panel EXCEPT !.timedOut = TRUE]
  /\ UNCHANGED << sandbox, age, used, run, loop, waiting, news, asks, count >>

WakeButton ==
  /\ panel.open /\ panel.seen # "running"
  /\ panel.wake = "error" \/ panel.timedOut \/ (panel.seen = "paused" /\ panel.wake = "idle")

Click ==
  /\ WakeButton /\ ~panel.auto /\ count.clicks < MaxClicks
  /\ panel' = [panel EXCEPT !.timedOut = FALSE, !.wake = "pending"]
  /\ Ask
  /\ count' = [count EXCEPT !.clicks = @ + 1]
  /\ UNCHANGED << sandbox, age, used, run, loop, waiting, news >>

Next ==
  \/ StartRun \/ PauseForPerson \/ Answer \/ EndRun
  \/ Deliver \/ Wake \/ IdleElapsed \/ Pause \/ Tick
  \/ Review \/ Asked
  \/ Open \/ Close \/ SummaryFails \/ Learn \/ AutoWake \/ WakeTimesOut \/ Click

Spec == Init /\ [][Next]_vars

\* Activities, requests, events and the page's effects; the user need not click.
Fairness ==
  /\ WF_vars(Learn) /\ WF_vars(AutoWake) /\ WF_vars(Asked) /\ WF_vars(WakeTimesOut)

-----------------------------------------------------------------------------
TypeOK ==
  /\ sandbox \in [state : {"running", "paused"}, left : 0 .. Life]
  /\ age \in 0 .. Idle /\ used \in 0 .. Idle
  /\ run \in {"none", "active", "asking"}
  /\ loop \in [at : {"idle", "waking", "pausing", "parked", "run"}, timer : 0 .. Idle, wake : BOOLEAN]
  /\ waiting \in BOOLEAN
  /\ panel \in [open : BOOLEAN, auto : BOOLEAN, wake : {"idle", "pending", "success", "error"},
                failed : BOOLEAN, timedOut : BOOLEAN, seen : {"running", "paused"}]
  /\ asks \in Seq(BOOLEAN)

\* workspace-panel.tsx:96: "a later pause waits for the user instead of
\* re-waking in a loop": each wake goes back to an opening of the panel or a click.
NoWakeLoop == count.wakes <= count.opens + count.clicks

\* The idle loop decides to pause only what was not read for an idle period (less
\* the minute that timestamps lag), or what nears its hard timeout.
InUseIsKept ==
  loop.at # "pausing" /\ loop'.at = "pausing" /\ sandbox.state = "running"
    => used >= Idle - 1 \/ sandbox.left <= Margin

\* An open panel that finds the workspace paused sees it run again or offers to
\* wake it.
WakeIsOffered ==
  (panel.open /\ panel.seen = "paused") ~> (~panel.open \/ panel.seen = "running" \/ WakeButton)
=============================================================================
