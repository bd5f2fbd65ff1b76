-------------------------- MODULE ClientSubmission -------------------------
(***************************************************************************)
(* How the page of a thread submits a message (thread-view.tsx,            *)
(* submission.ts, drafts.ts, optimistic.ts): the text is frozen in an      *)
(* envelope, kept in the session storage of the tab until its outcome is   *)
(* known, and sent again as it is when the outcome was lost.  The server   *)
(* looks the envelope up before it accepts it (routers/thread.ts,          *)
(* threads/submission.ts); a queued message may be taken back to be edited.*)
(*                                                                         *)
(* Requests and responses may be lost or late, the tab may leave the page  *)
(* or load it again at any time, and the snapshot may be old.              *)
(***************************************************************************)
EXTENDS Naturals, FiniteSets

CONSTANTS
  Faults,        \* which of FaultKinds happen
  MaxTexts, MaxEnvelopes, MaxLeaves     \* bounds

\* A request or response is lost; the page is left; the store refuses, even a retry
\* that overtook its first request; the route refuses.
FaultKinds == {"lost", "leave", "refused", "denied"}

ClientSubmissionAssumption ==
  /\ {MaxTexts, MaxEnvelopes, MaxLeaves} \subseteq Nat
  /\ Faults \subseteq FaultKinds

\* What the user writes, each text once, in this order.
Text == 1 .. MaxTexts
Envelope == 1 .. MaxEnvelopes

VARIABLES
  page,       \* the mounted view, with its request to submit; 0 is no envelope
  draft,      \* the composer's text, and its copy in the session storage
  stored,     \* the envelope in the session storage
  body,       \* what was frozen in each envelope
  unheard,    \* what requests submit that the page does not wait for any more
  server,     \* what became of each envelope
  snapshot,   \* what the page last read of it
  optimistic, \* accepted prompts the page shows by itself
  edit,       \* a queued message that is being taken back, and such requests on their way
  user        \* history: the texts written, thrown away, given back although the server
              \* has them or will, and left; how often the page was left

vars == << page, draft, stored, body, unheard, server, snapshot, optimistic, edit, user >>

Live == {"run", "pending"}

TypeOK ==
  /\ page.envelope \in {0} \cup Envelope
  /\ page.request \in {"none", "sent", "refused"} \cup Live
  /\ page.request # "none" => page.open /\ page.envelope # 0
  /\ page.open => stored = page.envelope
  /\ draft \cup user.thrown \cup user.unsure \cup user.left \subseteq user.written
  /\ user.written \subseteq Text /\ user.leaves <= MaxLeaves
  /\ \A e \in Envelope :
       /\ body[e] \subseteq user.written
       /\ server[e].state \in {"none", "run", "pending", "removed"}
       /\ server[e].first \in {"none"} \cup Live
       /\ snapshot[e] \in {"none", "run", "pending"}
  /\ unheard \subseteq Envelope
  /\ edit.at \in {"none", "sent", "removed", "kept", "failed"} /\ edit.wire \subseteq Envelope
  /\ edit.at # "none" => edit.id \in Envelope
  /\ optimistic \subseteq Envelope

Init ==
  /\ page = [open |-> TRUE, envelope |-> 0, request |-> "none"]
  /\ draft = {} /\ stored = 0
  /\ body = [e \in Envelope |-> {}]
  /\ unheard = {}
  /\ server = [e \in Envelope |-> [state |-> "none", first |-> "none"]]
  /\ snapshot = [e \in Envelope |-> "none"]
  /\ optimistic = {}
  /\ edit = [at |-> "none", id |-> 0, wire |-> {}]
  /\ user = [written |-> {}, thrown |-> {}, unsure |-> {}, left |-> {}, leaves |-> 0]

-----------------------------------------------------------------------------
(* The composer. *)

Enabled == page.open /\ page.envelope = 0

Write(t) ==
  /\ Enabled /\ t = Cardinality(user.written) + 1
  /\ draft' = draft \cup {t}
  /\ user' = [user EXCEPT !.written = @ \cup {t}]
  /\ UNCHANGED << page, stored, body, unheard, server, snapshot, optimistic, edit >>

\* submitEnvelopeMutation
Posted(e) == page' = [page EXCEPT !.envelope = e, !.request = "sent"] /\ stored' = e

\* send, submitSaved: one envelope at a time, and none while a message is taken back.
Send(e) ==
  /\ Enabled /\ draft # {} /\ edit.at = "none"
  /\ body[e] = {} /\ \A f \in Envelope : f < e => body[f] # {}
  /\ body' = [body EXCEPT ![e] = draft]
  /\ Posted(e)
  /\ UNCHANGED << draft, unheard, server, snapshot, optimistic, edit, user >>

\* "Retry the same submission"
Retry ==
  /\ page.open /\ page.envelope # 0 /\ page.request = "none"
  /\ Posted(page.envelope)
  /\ UNCHANGED << draft, body, unheard, server, snapshot, optimistic, edit, user >>

-----------------------------------------------------------------------------
(* The server. *)

\* existingClientMessage
Prior(e) == server[e].state # "none"

\* The first time, the message starts a run, joins one, or is queued.
Submit(e) ==
  IF Prior(e) THEN UNCHANGED server
  ELSE \E how \in Live : server' = [server EXCEPT ![e] = [state |-> how, first |-> how]]

Accept ==
  /\ page.request = "sent"
  /\ Submit(page.envelope)
  /\ page' = [page EXCEPT !.request = server'[page.envelope].first]
  /\ UNCHANGED << draft, stored, body, unheard, snapshot, optimistic, edit, user >>

\* A request whose answer is not heard, one of perhaps several.
AcceptLate(e) ==
  /\ e \in unheard /\ unheard' \in {unheard, unheard \ {e}}
  /\ Submit(e)
  /\ UNCHANGED << page, draft, stored, body, snapshot, optimistic, edit, user >>

Answered(reply) ==
  /\ page.request = "sent" /\ page' = [page EXCEPT !.request = reply]
  /\ UNCHANGED << draft, stored, body, unheard, server, snapshot, optimistic, edit, user >>

\* THREAD_BUSY, a missing credential, an attachment that is gone.
Refuse ==
  /\ "refused" \in Faults
  /\ page.request = "sent" /\ ~Prior(page.envelope)
  /\ Answered("refused")

\* The session has expired or the account lost its admission: the route answers
\* before it looks anything up.
Deny == "denied" \in Faults /\ Answered("refused")

\* A request whose answer is not heard is refused, or never arrives.
DropLate(e) ==
  /\ e \in unheard
  /\ unheard' = unheard \ {e}
  /\ UNCHANGED << page, draft, stored, body, server, snapshot, optimistic, edit, user >>

\* A queued message starts, or is consumed as a steer.
StartPending(e) ==
  /\ server[e].state = "pending"
  /\ server' = [server EXCEPT ![e].state = "run"]
  /\ UNCHANGED << page, draft, stored, body, unheard, snapshot, optimistic, edit, user >>

-----------------------------------------------------------------------------
(* What the page learns. *)

Released == page' = [page EXCEPT !.envelope = 0, !.request = "none"] /\ stored' = 0

DroppedDraft == draft

\* The server has t, or a request still brings it.
Placed(t) ==
  \E e \in Envelope :
    /\ t \in body[e]
    /\ \/ server[e].state \in Live
       \/ ~Prior(e) /\ e \in unheard

\* The texts T are the composer's again.
GivenBack(T) == user' = [user EXCEPT !.unsure = @ \cup {t \in T : Placed(t)}]

\* onSuccess, onError of submitSaved.
Reply ==
  /\ page.request \in {"refused"} \cup Live
  /\ Released
  /\ LET e == page.envelope IN
     IF page.request = "refused"
     THEN /\ draft' = DroppedDraft
          /\ GivenBack(body[e])
          /\ UNCHANGED optimistic
     ELSE /\ draft' = {}
          /\ optimistic' = IF page.request = "run" THEN optimistic \cup {e} ELSE optimistic
          /\ UNCHANGED user
  /\ UNCHANGED << body, unheard, server, snapshot, edit >>

\* The request the page waits for, if it was not answered, goes on by itself.
LetGo == IF page.request = "sent" THEN unheard \cup {page.envelope} ELSE unheard

\* The page gives up on a request: it is lost, or still on its way, or answered.
Lose ==
  /\ "lost" \in Faults
  /\ page.request # "none"
  /\ page' = [page EXCEPT !.request = "none"]
  /\ unheard' \in {unheard, LetGo}
  /\ UNCHANGED << draft, stored, body, server, snapshot, optimistic, edit, user >>

Visible(e) == IF server[e].state \in Live THEN server[e].state ELSE "none"

\* A prompt that the snapshot has is not shown optimistically any more.
Refetch ==
  /\ page.open
  /\ snapshot' = [e \in Envelope |-> Visible(e)]
  /\ optimistic' = {e \in optimistic : snapshot'[e] # "run"}
  /\ UNCHANGED << page, draft, stored, body, unheard, server, edit, user >>

\* envelopeCommitted
Committed(e) == snapshot[e] \in Live

Confirm ==
  /\ page.open /\ page.envelope # 0 /\ page.request = "none" /\ Committed(page.envelope)
  /\ Released
  /\ draft' = {}
  /\ UNCHANGED << body, unheard, server, snapshot, optimistic, edit, user >>

-----------------------------------------------------------------------------
(* A queued message is taken back. *)

CanEdit(e) == Enabled /\ edit.at = "none" /\ snapshot[e] = "pending"

Edit(e) ==
  /\ CanEdit(e)
  /\ edit' = [at |-> "sent", id |-> e, wire |-> edit.wire \cup {e}]
  /\ UNCHANGED << page, draft, stored, body, unheard, server, snapshot, optimistic, user >>

\* updatePendingMessage, for a page that waits for the answer or gave up on it.
ServeEdit(e) ==
  /\ e \in edit.wire
  /\ LET pending == server[e].state = "pending" IN
     /\ server' = IF pending THEN [server EXCEPT ![e].state = "removed"] ELSE server
     /\ edit' = [edit EXCEPT !.wire = @ \ {e},
                             !.at = IF edit.at # "sent" \/ edit.id # e THEN @
                                    ELSE IF pending THEN "removed" ELSE "kept"]
  /\ UNCHANGED << page, draft, stored, body, unheard, snapshot, optimistic, user >>

\* The page gives up: the request is lost, or still on its way, or was answered.
LoseEdit ==
  /\ "lost" \in Faults
  /\ edit.at \in {"sent", "removed", "kept"}
  /\ \E wire \in {edit.wire, edit.wire \ {edit.id}} :
       edit' = [edit EXCEPT !.at = "failed", !.wire = wire]
  /\ UNCHANGED << page, draft, stored, body, unheard, server, snapshot, optimistic, user >>

\* (fault) what was not known to be removed is not put back
RestoresKnown == edit.at = "removed"

\* A refusal means that it was not removed; without an answer it may have been.
Restores == edit.at \in {"removed", "failed"}

\* Its text comes back into the composer: appendDraft.
EditDone ==
  /\ page.open /\ edit.at \in {"removed", "kept", "failed"}
  /\ LET texts == IF Restores THEN body[edit.id] ELSE {}
     IN  draft' = draft \cup texts /\ GivenBack(texts)
  /\ edit' = [edit EXCEPT !.at = "none", !.id = 0]
  /\ UNCHANGED << page, stored, body, unheard, server, snapshot, optimistic >>

\* Remove: its text was not wanted.
Remove(e) ==
  /\ CanEdit(e) /\ server[e].state = "pending"
  /\ server' = [server EXCEPT ![e].state = "removed"]
  /\ user' = [user EXCEPT !.thrown = @ \cup body[e]]
  /\ UNCHANGED << page, draft, stored, body, unheard, snapshot, optimistic, edit >>

-----------------------------------------------------------------------------
\* The page is left: what its requests are answered is not heard.
Leave ==
  /\ "leave" \in Faults /\ user.leaves < MaxLeaves
  /\ page.open
  /\ page' = [open |-> FALSE, envelope |-> 0, request |-> "none"]
  /\ unheard' = LetGo
  /\ edit' = [edit EXCEPT !.at = "none", !.id = 0]
  /\ user' = [user EXCEPT !.leaves = @ + 1,
                          !.left = IF edit.at = "none" THEN @ ELSE @ \cup body[edit.id]]
  /\ UNCHANGED << draft, stored, body, server, snapshot, optimistic >>

\* And opened again, or loaded, with the queries it had or without.
Open(kept) ==
  /\ ~page.open
  /\ page' = [open |-> TRUE, envelope |-> stored, request |-> "none"]
  /\ snapshot' = IF kept THEN snapshot ELSE [e \in Envelope |-> Visible(e)]
  /\ optimistic' = IF kept THEN optimistic ELSE {}
  /\ UNCHANGED << draft, stored, body, unheard, server, edit, user >>

Next ==
  \/ \E t \in Text : Write(t)
  \/ Retry \/ Accept \/ Refuse \/ Deny \/ Reply \/ Lose
  \/ \E e \in Envelope : Send(e) \/ AcceptLate(e) \/ DropLate(e)
  \/ \E e \in Envelope : StartPending(e) \/ Edit(e) \/ ServeEdit(e) \/ Remove(e)
  \/ Refetch \/ Confirm \/ LoseEdit \/ EditDone \/ Leave
  \/ \E kept \in BOOLEAN : Open(kept)

Spec == Init /\ [][Next]_vars

\* Requests are answered, and the page follows the thread (ThreadFeed).  The effect
\* that confirms runs with the render that offers a retry, again and again.
FairSpec ==
  /\ Spec
  /\ WF_vars(Accept) /\ WF_vars(Reply)
  /\ WF_vars(Refetch) /\ SF_vars(Confirm)
  /\ \A kept \in BOOLEAN : WF_vars(Open(kept))

-----------------------------------------------------------------------------
(* Properties. *)

Shown(e) ==
  {place \in {"envelope", "optimistic", "snapshot"} :
     CASE place = "envelope" -> page.envelope = e /\ ~Committed(e)
       [] place = "optimistic" -> e \in optimistic /\ snapshot[e] # "run"
       [] place = "snapshot" -> snapshot[e] \in Live}

\* A prompt is on the page once: never twice, and not less from the moment it
\* started a run, while its envelope, the page's own note and the snapshot take
\* turns (submission.test.ts, "accepted prompt cache dedupes identities").
OneBubble ==
  page.open => \A e \in Envelope :
    /\ Cardinality(Shown(e)) <= 1
    /\ e \in optimistic \/ page.envelope = e => Shown(e) # {}

\* What the user wrote once is on the server once, however often it was sent
\* (submission.ts: "identical retries reuse the exact same clientMessageId").  A
\* text is there twice only when the page gave it back for another envelope while
\* the server had it or was still to get it: a retry refused beside its first
\* request or by the route, and a queued message not known to be removed.
AcceptedOnce ==
  \A t \in Text \ user.unsure :
    Cardinality({e \in Envelope : t \in body[e] /\ server[e].state \in Live}) <= 1

\* What the user wrote is in the composer, or frozen in an envelope that is kept,
\* or on the server, or was thrown away (thread-view.tsx: "a lost response may
\* have removed it, so keep the text").  Only a page left while a message is taken
\* back may lose its text.
TextKept ==
  \A t \in user.written \ user.left :
    \/ t \in draft \cup user.thrown
    \/ stored # 0 /\ t \in body[stored]
    \/ \E e \in Envelope : t \in body[e] /\ server[e].state \in Live
    \/ page.open /\ edit.at \in {"removed", "failed"} /\ t \in body[edit.id]

\* An envelope that was accepted is released although its response was lost: the
\* snapshot confirms it.
Confirmed ==
  \A e \in Envelope : server[e].state \in Live /\ page.envelope = e ~> page.envelope # e
=============================================================================
