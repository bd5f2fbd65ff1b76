--------------------------- MODULE ThreadSessions ---------------------------
(***************************************************************************)
(* One attempt's execution of a run: what apps/runner/src/activities.ts    *)
(* (runPiLocked) and pi.ts do with the store between claiming a run and    *)
(* ending, and threads/checkpoints.ts.                                     *)
(*                                                                         *)
(* The workspace lock makes one attempt work at a time, but a worker whose *)
(* lock or heartbeat is lost goes on until it notices, and its next        *)
(* transaction meets those of the attempt that replaced it.  So attempts   *)
(* interleave freely here, and only the ownership token stands between     *)
(* them.  A crash is an attempt that takes no further step.                *)
(***************************************************************************)
EXTENDS ThreadStoreState

OpsOf(r) == {g \in GitOp : gitop[g].run = r}

OpenQuestions(r) == {q \in Question : question[q].run = r /\ question[q].state = "pending"}

\* What an attempt reads before it claims: a run that waits for a person is
\* handed back to the workflow, a workspace in transition is prepared again.
CheckWaits(r, a) ==
  /\ IsActive(r)
  /\ ~claim[r][a]
  /\ session[r][a].phase = "none"
  /\ ~(run[r].approvalWait /\ OpsOf(r) # {})
  /\ ~(run[r].questionWait /\ OpenQuestions(r) # {})
  /\ workspace[ThreadOf(r)].state \notin {"absent", "deleted", "quarantined"}
  /\ workspace[ThreadOf(r)].target = None
  /\ session' = [session EXCEPT ![r][a].phase = "checked",
                   ![r][a].generation = workspace[ThreadOf(r)].generation]
  /\ UNCHANGED << thread, message, run, claim, checkpoint, question, gitop,
                  command, workspace, attachment, outbox >>

\* loadCheckpoint
Restored(r) == checkpoint[r]

\* beginAgentExecution, then the session is restored from the checkpoint.
OpenSession(r, a) ==
  /\ session[r][a].phase = "checked"
  /\ Owns(r, a)
  /\ IsActive(r)
  /\ ~run[r].cancel
  /\ session' = [session EXCEPT ![r][a].phase = "open", ![r][a].held = Restored(r)]
  /\ UNCHANGED << thread, message, run, claim, checkpoint, question, gitop,
                  command, workspace, attachment, outbox >>

\* The steers a poll returns and the session was not offered before.
NewSteers(r, a) ==
  {m \in Message : /\ message[m].state = "pending"
                   /\ message[m].mode = "steer"
                   /\ message[m].target = r
                   /\ \A i \in DOMAIN session[r][a].offered :
                        session[r][a].offered[i].message # m}

\* S in acceptance order, each message with the text it has now.
InOrder(S) ==
  {s \in [1 .. Cardinality(S) -> [message : S, version : 0 .. MaxEdits]] :
     /\ \A i \in DOMAIN s : s[i].version = message[s[i].message].version
     /\ \A i, j \in DOMAIN s :
          i < j => message[s[i].message].sequence < message[s[j].message].sequence}

\* pendingSteers, polled by the worker at tool-batch boundaries.
PollSteers(r, a) ==
  /\ session[r][a].phase = "open"
  /\ Owns(r, a)
  /\ run[r].status = "running"
  /\ ~run[r].cancel
  /\ ~Waiting(r)
  /\ NewSteers(r, a) # {}
  /\ \E s \in InOrder(NewSteers(r, a)) :
       session' = [session EXCEPT ![r][a].offered = @ \o s]
  /\ UNCHANGED << thread, message, run, claim, checkpoint, question, gitop,
                  command, workspace, attachment, outbox >>

\* (fault) the ownership of the saving attempt is not checked
MaySaveLate(r, a) ==
  /\ session[r][a].phase = "open"
  /\ Len(session[r][a].held) < MaxEntries
  /\ ~IsTerminal(r)

\* saveCheckpoint accepts a save of the owner for a run that is not terminal.
MaySave(r, a) ==
  /\ session[r][a].phase = "open"
  /\ Len(session[r][a].held) < MaxEntries
  /\ Owns(r, a)
  /\ ~IsTerminal(r)

\* The entries a session may be left with when Pi compacts or replaces it: a save
\* writes whatever list it is given over the one before, an updated prefix and a
\* trimmed tail included.  That what a user said stays in it is the SDK's promise.
Rewritten(held) ==
  LET texts == {held[i] : i \in DOMAIN held}
  IN  {p \in UNION {[1 .. n -> texts \cup {Turn}] : n \in 0 .. Len(held)} :
         \A s \in texts \ {Turn} : \E i \in DOMAIN p : {j \in DOMAIN p : p[j] = s} = {i}}

\* An assistant turn ends and is saved, with what a rewriting left before it.
SaveTurn(r, a) ==
  /\ MaySave(r, a)
  /\ \E p \in Rewritten(session[r][a].held) :
       LET entries == Append(p, Turn)
       IN  /\ session' = [session EXCEPT ![r][a].held = entries]
           /\ checkpoint' = [checkpoint EXCEPT ![r] = entries]
  /\ UNCHANGED << thread, message, run, claim, question, gitop, command,
                  workspace, attachment, outbox >>

\* Pi takes the first steer of its queue: its entry and its delivery's new
\* state (with the message.steered event) commit together before the next model request.
ConsumeSteer(r, a) ==
  /\ MaySave(r, a)
  /\ session[r][a].offered # << >>
  /\ LET s       == Head(session[r][a].offered)
         m       == s.message
         entries == Append(session[r][a].held, s)
     IN  /\ message[m].state = "pending"
         /\ message[m].target = r
         /\ message[m].mode = "steer"
         /\ message' = [message EXCEPT ![m].state = "consumed"]
         /\ checkpoint' = [checkpoint EXCEPT ![r] = entries]
         /\ session' = [session EXCEPT ![r][a].held = entries,
                                       ![r][a].offered = Tail(@)]
  /\ UNCHANGED << thread, run, claim, question, gitop, command, workspace,
                  attachment, outbox >>
=============================================================================
