--------------------------- MODULE ScriptedRunner ---------------------------
(***************************************************************************)
(* The scripted execution of a run (apps/runner/src/scripted.ts and        *)
(* runScriptedLocked of activities.ts): five steps, the second with one    *)
(* command, each of which tells its events and then saves a checkpoint     *)
(* under its own key.  An attempt that follows skips what is saved for the *)
(* generation of the workspace it works in, also when the workspace was    *)
(* replaced in between, or the attempt before it lost the lock and goes on.*)
(***************************************************************************)
EXTENDS Naturals, Sequences

CONSTANTS
  Attempt,  \* execution attempts
  MaxGen,   \* how far the generation of the workspace is followed
  None

ScriptAssumption ==
  /\ MaxGen \in Nat \ {0}
  /\ None \notin Attempt \cup {"ok", "failed"}

VARIABLES
  generation,  \* of the workspace
  status,      \* of the run
  cancelled,   \* run.cancelRequestedAt
  ownership,   \* the attempt that has the execution token, and its generation
  checkpoint,  \* by key: what was saved last
  told,        \* the thread's events
  ran,         \* the commands that were begun, and how they ended
  work         \* where each attempt is

vars == << generation, status, cancelled, ownership, checkpoint, told, ran, work >>

\* What each step tells; the command runs after the first event of the second.
Script ==
  << << "assistant" >>, << "tool", "output", "done" >>, << "delta0" >>, << "delta1" >>,
     << "delta2" >> >>

Step    == 1 .. Len(Script)
Says    == UNION {{Script[s][i] : i \in 1 .. Len(Script[s])} : s \in Step}
Outcome == {"ok", "failed"}

TypeOK ==
  /\ generation \in 1 .. MaxGen
  /\ status \in {"active", "completed", "failed", "cancelled"}
  /\ cancelled \in BOOLEAN
  /\ ownership \in [by : Attempt \cup {None}, gen : 0 .. MaxGen]
  /\ checkpoint \in
       [Step -> [gen : 0 .. MaxGen, by : Attempt \cup {None}, result : Outcome \cup {None}]]
  /\ told \in Seq([by : Attempt, says : Says, outcome : Outcome \cup {None}])
  /\ ran \in Seq([by : Attempt, gen : 1 .. MaxGen, outcome : Outcome])
  /\ work \in [Attempt ->
       [pc : {"idle", "load", "act", "active", "complete", "gone"}, gen : 0 .. MaxGen,
        step : Step, said : 0 .. 3, result : Outcome \cup {None}]]

Init ==
  /\ generation = 1
  /\ status = "active"
  /\ cancelled = FALSE
  /\ ownership = [by |-> None, gen |-> 0]
  /\ checkpoint = [s \in Step |-> [gen |-> 0, by |-> None, result |-> None]]
  /\ told = << >>
  /\ ran = << >>
  /\ work = [a \in Attempt |-> [pc |-> "idle", gen |-> 0, step |-> 1, said |-> 0, result |-> None]]

run == << generation, status, cancelled, ownership >>

\* assertExecutionOwnership.
Owns(a) == ownership = [by |-> a, gen |-> generation]

\* What appendRunEvent and saveCheckpoint ask for.
MayWrite(a) == status = "active" /\ Owns(a)

At(a, pc) == work[a].pc = pc
Fails(a)  == work' = [work EXCEPT ![a].pc = "gone"]

-----------------------------------------------------------------------------
(* Around the attempts. *)

\* prepareWorkspace claims the run for an attempt of its own, in the generation
\* it found or in a new one.
Prepare ==
  /\ status = "active"
  /\ generation' \in {generation, generation + 1} \cap 1 .. MaxGen
  /\ ownership' = [by |-> None, gen |-> generation']
  /\ UNCHANGED << status, cancelled, checkpoint, told, ran, work >>

RequestCancel ==
  /\ status = "active" /\ ~cancelled
  /\ cancelled' = TRUE
  /\ UNCHANGED << generation, status, ownership, checkpoint, told, ran, work >>

\* failRun and cancelRun of the workflow.
Finish ==
  /\ status = "active"
  /\ status' = IF cancelled THEN "cancelled" ELSE "failed"
  /\ UNCHANGED << generation, cancelled, ownership, checkpoint, told, ran, work >>

-----------------------------------------------------------------------------
(* An attempt. *)

\* It claims the run in the generation of the workspace and, unless it was
\* cancelled, executes the script.
Claim(a) ==
  /\ At(a, "idle")
  /\ status = "active"
  /\ ownership' = [by |-> a, gen |-> generation]
  /\ work' = [work EXCEPT ![a].pc = IF cancelled THEN "gone" ELSE "load", ![a].gen = generation]
  /\ UNCHANGED << generation, status, cancelled, checkpoint, told, ran >>

\* Goes on behind the current step; the result of the command, if it is not a
\* success, ends the attempt.
GoOn(a, result) ==
  work' = [work EXCEPT
    ![a].pc = IF work[a].step = 2 /\ result # "ok" THEN "gone"
              ELSE IF work[a].step = Len(Script) THEN "active" ELSE "load",
    ![a].step = IF @ = Len(Script) THEN @ ELSE @ + 1,
    ![a].said = 0,
    ![a].result = result]

\* (fault) a checkpoint of any generation counts
SavedEver(a) == checkpoint[work[a].step].gen # 0

\* loadCheckpoint finds the step saved for the generation of the attempt.
Saved(a) == checkpoint[work[a].step].gen = work[a].gen

Load(a) ==
  /\ At(a, "load")
  /\ IF Saved(a)
     THEN GoOn(a, IF work[a].step = 2 THEN checkpoint[2].result ELSE work[a].result)
     ELSE work' = [work EXCEPT ![a].pc = "act"]
  /\ UNCHANGED << run, checkpoint, told, ran >>

\* The command is due, or the next event.
CommandDue(a) == work[a].step = 2 /\ work[a].said = 1 /\ work[a].result = None
EventDue(a)   == ~CommandDue(a) /\ work[a].said < Len(Script[work[a].step])

\* emit: the event is scoped by the attempt, so that it is told once by each.
Emit(a) ==
  /\ At(a, "act") /\ EventDue(a)
  /\ LET event == [by |-> a, says |-> Script[work[a].step][work[a].said + 1],
                   outcome |-> IF work[a].step = 2 THEN work[a].result ELSE None]
     IN  IF MayWrite(a)
         THEN /\ told' = Append(told, event)
              /\ work' = [work EXCEPT ![a].said = @ + 1]
         ELSE Fails(a) /\ UNCHANGED told
  /\ UNCHANGED << run, checkpoint, ran >>

\* The command is begun for the owner of an active run only, and not once its
\* cancellation was requested.
Execute(a) ==
  /\ At(a, "act") /\ CommandDue(a)
  /\ IF MayWrite(a) /\ ~cancelled
     THEN \E outcome \in Outcome :
            /\ ran' = Append(ran, [by |-> a, gen |-> work[a].gen, outcome |-> outcome])
            /\ work' = [work EXCEPT ![a].result = outcome]
     ELSE Fails(a) /\ UNCHANGED ran
  /\ UNCHANGED << run, checkpoint, told >>

\* saveCheckpoint replaces what the key had.
Save(a) ==
  /\ At(a, "act") /\ ~CommandDue(a) /\ ~EventDue(a)
  /\ IF MayWrite(a)
     THEN /\ checkpoint' = [checkpoint EXCEPT ![work[a].step] =
               [gen |-> work[a].gen, by |-> a,
                result |-> IF work[a].step = 2 THEN work[a].result ELSE None]]
          /\ GoOn(a, work[a].result)
     ELSE Fails(a) /\ UNCHANGED checkpoint
  /\ UNCHANGED << run, told, ran >>

\* assertActive, before the run is completed.
AssertActive(a) ==
  /\ At(a, "active")
  /\ IF status = "active" /\ ~cancelled
     THEN work' = [work EXCEPT ![a].pc = "complete"]
     ELSE Fails(a)
  /\ UNCHANGED << run, checkpoint, told, ran >>

\* completeRun: the owner completes it, or cancels it if that was requested.
Complete(a) ==
  /\ At(a, "complete")
  /\ status' = IF MayWrite(a) THEN IF cancelled THEN "cancelled" ELSE "completed" ELSE status
  /\ Fails(a)
  /\ UNCHANGED << generation, cancelled, ownership, checkpoint, told, ran >>

\* A signal, a lost command, a crash.
End(a) ==
  /\ ~At(a, "idle") /\ ~At(a, "gone")
  /\ Fails(a)
  /\ UNCHANGED << run, checkpoint, told, ran >>

Next ==
  \/ Prepare \/ RequestCancel \/ Finish
  \/ \E a \in Attempt :
       \/ Claim(a) \/ Load(a) \/ Emit(a) \/ Execute(a) \/ Save(a)
       \/ AssertActive(a) \/ Complete(a) \/ End(a)

Spec == Init /\ [][Next]_vars

-----------------------------------------------------------------------------
(* Properties. *)

\* A completed run has run its command with success in the generation of the
\* workspace it completed in, never in one that was replaced.
SucceededHere ==
  status = "completed" =>
    \E i \in 1 .. Len(ran) : ran[i].gen = generation /\ ran[i].outcome = "ok"

\* Where the i-th event of step s was told by the attempt that saved the step.
ToldAt(s, i) ==
  {k \in 1 .. Len(told) : told[k].by = checkpoint[s].by /\ told[k].says = Script[s][i]}

\* A completed run has told its whole script in order, although attempts that
\* ended early told parts of it.
ScriptIsTold ==
  status = "completed" =>
    /\ \A s \in Step, i \in 1 .. 3 : i <= Len(Script[s]) => ToldAt(s, i) # {}
    /\ \A s, t \in Step : s < t =>
         \A j \in ToldAt(s, Len(Script[s])), k \in ToldAt(t, 1) : j < k

\* Attempts speak one after another: once a later one has spoken, the attempts
\* before it are silent.
OneSpeaks ==
  \A i, j, k \in 1 .. Len(told) :
    i < j /\ j < k /\ told[i].by = told[k].by => told[j].by = told[i].by

\* The outcome that was saved is that of the last command: no other is begun in
\* the generation.
SavedIsLast ==
  checkpoint[2].gen = generation =>
    /\ ran # << >>
    /\ ran[Len(ran)] = [by |-> checkpoint[2].by, gen |-> generation,
                        outcome |-> checkpoint[2].result]
=============================================================================
