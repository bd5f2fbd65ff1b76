----------------------------- MODULE DiffCounts -----------------------------
(***************************************************************************)
(* The counts of changed files that a thread shows: diff-stat.ts, the      *)
(* activities that ask for a count, recordDiffStat and the diff route of   *)
(* routers/workspace.ts.                                                   *)
(*                                                                         *)
(* A count reads the files at one moment and is recorded at a later one,   *)
(* by the attempt of a run, by a wake or by a panel's read.                *)
(***************************************************************************)
EXTENDS Integers, TLC

CONSTANTS
  Reader,     \* reads of the whole diff by panels
  Total,      \* the totals of each state of the files: equal for some
  MaxGen      \* bound: generations of the workspace

Off   == [at |-> "off"]
State == DOMAIN Total

DiffCountsAssumption ==
  /\ State = 0 .. 2 /\ MaxGen \in Nat \ {0}
  /\ {"wake", "late"} \cap Reader = {}

\* The count of a wake, and one that an attempt left behind when it failed.
Counter == Reader \cup {"wake", "late"}

VARIABLES
  workspace,  \* its state and generation
  files,      \* the state of its files
  pill,       \* the latest of the events diff.updated and workspace.reset
  run,        \* the attempt: what its tool and its refresher are doing
  count       \* the counts that others have under way

vars == << workspace, files, pill, run, count >>

NoRun == [at |-> "none", tool |-> FALSE, queued |-> FALSE, counting |-> Off, failed |-> FALSE]

Init ==
  /\ workspace = [state |-> "running", generation |-> 1]
  /\ files = 0
  /\ pill = [by |-> "reset"]
  /\ run = NoRun
  /\ count = [c \in Counter |-> Off]

Active == run.at = "working"

(***************************************************************************)
(* recordDiffStat: a count of another generation and totals that are shown *)
(* already are left out.                                                   *)
(***************************************************************************)
Shows(pl, state) == pl.by # "reset" /\ pl.total = Total[state]

RecordDiffStat(c, by) ==
  pill' = IF c.generation # workspace.generation \/ Shows(pill, c.seen) THEN pill
          ELSE [by |-> by, total |-> Total[c.seen], generation |-> c.generation]

(***************************************************************************)
(* The attempt and its refresher: at most one count runs and one waits.    *)
(***************************************************************************)
\* The first count finds the files as the run does.
StartRun ==
  /\ ~Active
  /\ workspace' = [workspace EXCEPT !.state = "running"]
  /\ run' = [NoRun EXCEPT !.at = "working", !.queued = TRUE]
  /\ UNCHANGED << files, pill, count >>

\* bash, edit or write changes files and completes later.
Edit ==
  /\ run.at = "working" /\ ~run.tool
  /\ files' \in State /\ files' > files
  /\ run' = [run EXCEPT !.tool = TRUE]
  /\ UNCHANGED << workspace, pill, count >>

\* tool.completed: refresh
Completed ==
  /\ run.at = "working" /\ run.tool
  /\ run' = [run EXCEPT !.tool = FALSE, !.queued = TRUE]
  /\ UNCHANGED << workspace, files, pill, count >>

Exec == [at |-> "exec", generation |-> workspace.generation]
Seen(c) == [c EXCEPT !.at = "seen"] @@ [seen |-> files]

Begin == run' = [run EXCEPT !.queued = FALSE, !.counting = Exec]

BeginCount ==
  /\ run.at # "none" /\ run.queued /\ run.counting = Off
  /\ Begin
  /\ UNCHANGED << workspace, files, pill, count >>

\* readDiffStat, which may fail, time out or find no repository.
ReadCount ==
  /\ run.counting.at = "exec"
  /\ \/ run' = [run EXCEPT !.counting = Seen(@)]
     \/ run' = [run EXCEPT !.counting = Off, !.failed = TRUE]
  /\ UNCHANGED << workspace, files, pill, count >>

PublishCount ==
  /\ run.counting.at = "seen"
  /\ RecordDiffStat(run.counting, "run")
  /\ run' = [run EXCEPT !.counting = Off]
  /\ UNCHANGED << workspace, files, count >>

\* (fault) the attempt does not wait for its counts
Unsettled == TRUE

\* settled: the count of the last tool lands before the run turns terminal.
Settled == ~run.queued /\ run.counting = Off

EndRun ==
  /\ run.at = "working" /\ ~run.tool
  /\ Settled
  /\ run' = [run EXCEPT !.at = "ended"]
  /\ UNCHANGED << workspace, files, pill, count >>

\* An attempt that fails leaves a count behind that it was about to record.
FailRun ==
  /\ run.at = "working"
  /\ run' = [NoRun EXCEPT !.at = "ended", !.failed = TRUE]
  /\ IF run.counting.at = "seen" /\ count["late"] = Off
     THEN count' = [count EXCEPT !["late"] = run.counting] ELSE UNCHANGED count
  /\ UNCHANGED << workspace, files, pill >>

(***************************************************************************)
(* The workspace.                                                          *)
(***************************************************************************)
Pause ==
  /\ ~Active /\ workspace.state = "running"
  /\ workspace' = [workspace EXCEPT !.state = "paused"]
  /\ UNCHANGED << files, pill, run, count >>

\* wakeWorkspace counts what it restored.
Wake ==
  /\ ~Active /\ workspace.state = "paused" /\ count["wake"] = Off
  /\ workspace' = [workspace EXCEPT !.state = "running"]
  /\ count' = [count EXCEPT !["wake"] = Exec]
  /\ UNCHANGED << files, pill, run >>

\* resetWorkspace appends workspace.reset, which clears the count.
Reset ==
  /\ ~Active /\ workspace.generation < MaxGen
  /\ workspace' = [workspace EXCEPT !.generation = @ + 1]
  /\ files' = 0
  /\ pill' = [by |-> "reset"]
  /\ run' = NoRun
  /\ UNCHANGED count

(***************************************************************************)
(* A panel's read (routers/workspace.ts).                                  *)
(***************************************************************************)
\* target: only a running workspace can be read.
Target(r) ==
  /\ count[r] = Off /\ workspace.state = "running"
  /\ count' = [count EXCEPT ![r] = Exec]
  /\ UNCHANGED << workspace, files, pill, run >>

\* The sandbox may be gone by then, or not answer.
Read(c) ==
  /\ count[c].at = "exec"
  /\ \/ /\ workspace.state = "running" /\ workspace.generation = count[c].generation
        /\ count' = [count EXCEPT ![c] = Seen(@)]
     \/ count' = [count EXCEPT ![c] = Off]
  /\ UNCHANGED << workspace, files, pill, run >>

Record(c) ==
  /\ count[c].at = "seen"
  /\ RecordDiffStat(count[c], c)
  /\ count' = [count EXCEPT ![c] = Off]
  /\ UNCHANGED << workspace, files, run >>

Next ==
  \/ StartRun \/ Edit \/ Completed \/ BeginCount \/ ReadCount \/ PublishCount
  \/ EndRun \/ FailRun \/ Pause \/ Wake \/ Reset
  \/ \E r \in Reader : Target(r)
  \/ \E c \in Counter : Read(c) \/ Record(c)

Spec == Init /\ [][Next]_vars

-----------------------------------------------------------------------------
TypeOK ==
  /\ workspace \in [state : {"running", "paused"}, generation : 1 .. MaxGen]
  /\ files \in State
  /\ pill.by \in {"reset", "run"} \cup Counter
  /\ run.at \in {"none", "working", "ended"}
  /\ \A c \in Counter : count[c].at \in {"off", "exec", "seen"}

\* The counts shown are those of the filesystem the workspace has, whichever
\* count of the one before is recorded late.
CountIsOfGeneration == pill.by # "reset" => pill.generation = workspace.generation

\* activities.ts:1152: "The last mutating tool's count must land before the run
\* turns terminal."  It does unless a count failed; only a read that overlaps
\* with the run can leave an older count.
LastCountLands ==
  (run.at = "ended" /\ ~run.failed /\ pill.by = "run") => pill.total = Total[files]

\* A run that ended in order leaves a count, of its own or of an overlapping read.
RunIsCounted == (run.at = "ended" /\ ~run.failed) => pill.by # "reset"
=============================================================================
