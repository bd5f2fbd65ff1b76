----------------------------- MODULE Attachments ---------------------------
(***************************************************************************)
(* Uploads of one account (routers/attachments.ts, threads/attachments.ts):*)
(* a row reserves the allowance, the objects follow it into R2, a message  *)
(* binds it, and the page, the hourly cleanup and the purge of the thread  *)
(* let go of it.  The row and its objects change in separate steps, each   *)
(* of which may fail or be lost, and the server may crash between any two. *)
(* An attempt of a run reads the objects of every bound attachment         *)
(* (runner/attachments.ts).                                                *)
(***************************************************************************)
EXTENDS Integers, FiniteSets, FiniteSetsExt

CONSTANTS
  Attachment, Message,
  Image,         \* the attachments that also have a model variant
  Allowance,     \* what an account may store, in objects
  Reservation,   \* what a reservation counts until the sizes are known
  Faults,        \* which of FaultKinds happen
  MaxFaults,     \* bound on their number
  None

\* A PUT, a commit or a deletion fails or is not acknowledged; the row cannot be
\* marked failed; the server crashes; a queued message is taken back.
FaultKinds == {"put", "commit", "object", "row", "crash", "edit"}

AttachmentsAssumption ==
  /\ Image \subseteq Attachment /\ Faults \subseteq FaultKinds
  /\ {Allowance, Reservation, MaxFaults} \subseteq Nat /\ Reservation >= 2

VARIABLES
  row,      \* the rows; old: created a day ago, idle: unused for a day
  object,   \* the keys of each that R2 has
  late,     \* PUTs that were given up and may still arrive
  upload,   \* the requests that upload
  known,    \* what the browser was told of
  message,
  eraser,   \* the page's deletion and the hourly cleanup
  attempt,  \* what an attempt of a run has still to read
  faults

vars == << row, object, late, upload, known, message, eraser, attempt, faults >>

Key == {"original", "model"}
Keys(a) == IF a \in Image THEN Key ELSE {"original"}
Eraser == {"page", "cleanup"}
NoRow == [state |-> "none", message |-> None, bytes |-> 0, old |-> FALSE, idle |-> FALSE]
Running == {"reserved", "original", "stored", "failing", "cleaning"}

TypeOK ==
  /\ \A a \in Attachment :
       /\ row[a].state \in {"none", "uploading", "ready", "failed", "deleting"}
       /\ row[a].message \in Message \cup {None}
       /\ row[a].bytes \in 0 .. Reservation
       /\ object[a] \subseteq Keys(a)
       /\ upload[a] \in {"new", "ended"} \cup Running
  /\ late \subseteq Attachment \X Key
  /\ known \subseteq Attachment
  /\ message \in [Message -> {"none", "pending", "run", "removed", "purged"}]
  /\ \A p \in Eraser : /\ eraser[p].at \in {"idle", "begun", "erased", "failing"}
                       /\ eraser[p].todo \subseteq Attachment
                       /\ (eraser[p].at = "idle") = (eraser[p].todo = {})
  /\ attempt.at \in {"idle", "reading", "failed"} /\ attempt.todo \subseteq Attachment
  /\ faults \in 0 .. MaxFaults

Init ==
  /\ row = [a \in Attachment |-> NoRow] /\ object = [a \in Attachment |-> {}] /\ late = {}
  /\ upload = [a \in Attachment |-> "new"] /\ known = {}
  /\ message = [m \in Message |-> "none"]
  /\ eraser = [p \in Eraser |-> [at |-> "idle", todo |-> {}]]
  /\ attempt = [at |-> "idle", todo |-> {}] /\ faults = 0

Fault(kind) == kind \in Faults /\ faults < MaxFaults /\ faults' = faults + 1

Bound(m) == {a \in Attachment : row[a].message = m /\ m # None}
Step(a, at) == upload' = [upload EXCEPT ![a] = at]

-----------------------------------------------------------------------------
(* POST /api/attachments *)

Stored == MapThenSumSet(LAMBDA a : row[a].bytes, Attachment)

Room == Stored + Reservation <= Allowance

\* reserveAttachment
Reserve(a) ==
  /\ upload[a] = "new" /\ Room
  /\ row' = [row EXCEPT ![a] = [NoRow EXCEPT !.state = "uploading", !.bytes = Reservation]]
  /\ Step(a, "reserved")
  /\ UNCHANGED << object, late, known, message, eraser, attempt, faults >>

\* (fault) a variant for every upload
PutBoth(a, key) ==
  /\ object' = [object EXCEPT ![a] = Key]
  /\ Step(a, IF key = "original" /\ a \in Image THEN "original" ELSE "stored")
  /\ UNCHANGED << row, late, known, message, eraser, attempt, faults >>

Put(a, key) ==
  /\ object' = [object EXCEPT ![a] = @ \cup {key}]
  /\ Step(a, IF key = "original" /\ a \in Image THEN "original" ELSE "stored")
  /\ UNCHANGED << row, late, known, message, eraser, attempt, faults >>

PutOriginal(a) == upload[a] = "reserved" /\ Put(a, "original")
PutModel(a) == upload[a] = "original" /\ Put(a, "model")

\* The image is corrupt, or a PUT fails, before or after it reached the store.
PutFails(a) ==
  /\ upload[a] \in {"reserved", "original"} /\ Fault("put")
  /\ LET key == IF upload[a] = "reserved" THEN "original" ELSE "model" IN
     \/ UNCHANGED << object, late >>
     \/ object' = [object EXCEPT ![a] = @ \cup {key}] /\ UNCHANGED late
     \/ late' = late \cup {<< a, key >>} /\ UNCHANGED object
  /\ Step(a, "failing")
  /\ UNCHANGED << row, known, message, eraser, attempt >>

Arrive(a, key) ==
  /\ << a, key >> \in late
  /\ late' = late \ {<< a, key >>}
  /\ object' = [object EXCEPT ![a] = @ \cup {key}]
  /\ UNCHANGED << row, upload, known, message, eraser, attempt, faults >>

\* completeAttachment
Completed(a) == row' = [row EXCEPT ![a].state = "ready", ![a].bytes = Cardinality(Keys(a))]

Complete(a) ==
  /\ upload[a] = "stored" /\ row[a].state = "uploading"
  /\ Completed(a)
  /\ Step(a, "ended")
  /\ known' \in {known, known \cup {a}}
  /\ UNCHANGED << object, late, message, eraser, attempt, faults >>

\* The row is not ready, or it is, and the server does not know.
CompleteFails(a) ==
  /\ upload[a] = "stored" /\ Fault("commit")
  /\ Completed(a) \/ UNCHANGED row
  /\ Step(a, "failing")
  /\ UNCHANGED << object, late, known, message, eraser, attempt >>

\* failAttachment
MarkFailed(a) ==
  row' = IF row[a].state # "none" /\ row[a].message = None
         THEN [row EXCEPT ![a].state = "failed"] ELSE row

FailUpload(a) ==
  /\ upload[a] = "failing"
  /\ \/ MarkFailed(a) /\ UNCHANGED faults
     \/ Fault("row") /\ UNCHANGED row
  /\ Step(a, "cleaning")
  /\ UNCHANGED << object, late, known, message, eraser, attempt >>

\* deleteObjects: both keys at once; one of them, or neither, may go.
ObjectsGone(a) == object' = [object EXCEPT ![a] = {}]
SomeObjectsGone(a) == \E left \in SUBSET object[a] : object' = [object EXCEPT ![a] = left]

CleanUpload(a) ==
  /\ upload[a] = "cleaning"
  /\ \/ ObjectsGone(a) /\ UNCHANGED faults
     \/ Fault("object") /\ SomeObjectsGone(a)
  /\ Step(a, "ended")
  /\ UNCHANGED << row, late, known, message, eraser, attempt >>

-----------------------------------------------------------------------------
(* Messages and runs (ThreadStore has their whole life). *)

\* validateAttachments
Available(a) == row[a].state = "ready" /\ row[a].message = None

Submit(m, A) ==
  /\ message[m] = "none"
  /\ A \subseteq known /\ \A a \in A : Available(a)
  /\ row' = [a \in Attachment |-> IF a \in A THEN [row[a] EXCEPT !.message = m] ELSE row[a]]
  /\ \E how \in {"run", "pending"} : message' = [message EXCEPT ![m] = how]
  /\ UNCHANGED << object, late, upload, known, eraser, attempt, faults >>

StartPending(m) ==
  /\ message[m] = "pending"
  /\ message' = [message EXCEPT ![m] = "run"]
  /\ UNCHANGED << row, object, late, upload, known, eraser, attempt, faults >>

\* updatePendingMessage: the message is taken back, and its attachments with it.
Remove(m) ==
  /\ "edit" \in Faults /\ message[m] = "pending"
  /\ message' = [message EXCEPT ![m] = "removed"]
  /\ row' = [a \in Attachment |-> IF a \in Bound(m)
                                  THEN [row[a] EXCEPT !.message = None, !.idle = FALSE]
                                  ELSE row[a]]
  /\ UNCHANGED << object, late, upload, known, eraser, attempt, faults >>

Detached(a) == [row[a] EXCEPT !.message = None, !.state = "deleting"]

\* purgeThread
Purge ==
  /\ attempt.at # "reading" /\ \E m \in Message : message[m] = "run"
  /\ message' = [m \in Message |-> IF message[m] = "none" THEN "none" ELSE "purged"]
  /\ row' = [a \in Attachment |-> IF row[a].message # None THEN Detached(a) ELSE row[a]]
  /\ UNCHANGED << object, late, upload, known, eraser, attempt, faults >>

\* listThreadAttachments: the queued messages of the thread are among them.
Begin ==
  /\ attempt.at = "idle" /\ \E m \in Message : message[m] = "run"
  /\ \E a \in Attachment : row[a].message # None
  /\ attempt' = [at |-> "reading", todo |-> {a \in Attachment : row[a].message # None}]
  /\ UNCHANGED << row, object, late, upload, known, message, eraser, faults >>

\* materializeOne, promptImages: an object that is not there ends the run for good.
Materialize(a) ==
  /\ attempt.at = "reading" /\ a \in attempt.todo
  /\ attempt' = IF Keys(a) \subseteq object[a]
                THEN [at |-> IF attempt.todo = {a} THEN "idle" ELSE "reading",
                      todo |-> attempt.todo \ {a}]
                ELSE [at |-> "failed", todo |-> {}]
  /\ UNCHANGED << row, object, late, upload, known, message, eraser, faults >>

-----------------------------------------------------------------------------
(* Deletion: DELETE /api/attachments/:id, and cleanupExpiredAttachments. *)

Deletes(p, at, todo) == eraser' = [eraser EXCEPT ![p] = [at |-> at, todo |-> todo]]

\* (fault) an attachment that is sent may be deleted
Owned(a) == row[a].state # "none"

Unused(a) == row[a].state # "none" /\ row[a].message = None

\* beginDeleteAttachment
BeginDelete(a) ==
  /\ eraser["page"].at = "idle" /\ a \in known /\ Unused(a)
  /\ row' = [row EXCEPT ![a].state = "deleting"]
  /\ Deletes("page", "begun", {a})
  /\ UNCHANGED << object, late, upload, known, message, attempt, faults >>

Expired == {a \in Attachment : Unused(a) /\ row[a].old}

\* claimExpiredAttachments
Claim ==
  /\ eraser["cleanup"].at = "idle" /\ Expired # {}
  /\ row' = [a \in Attachment |-> IF a \in Expired THEN [row[a] EXCEPT !.state = "deleting"]
                                  ELSE row[a]]
  /\ Deletes("cleanup", "begun", Expired)
  /\ UNCHANGED << object, late, upload, known, message, attempt, faults >>

\* One after the other.
Current(p) == CHOOSE a \in eraser[p].todo : TRUE

EraseObjects(p) ==
  /\ eraser[p].at = "begun"
  /\ \/ ObjectsGone(Current(p)) /\ Deletes(p, "erased", eraser[p].todo) /\ UNCHANGED faults
     \/ Fault("object") /\ SomeObjectsGone(Current(p)) /\ Deletes(p, "failing", eraser[p].todo)
  /\ UNCHANGED << row, late, upload, known, message, attempt >>

NextDeletion(p) ==
  LET todo == eraser[p].todo \ {Current(p)} IN
  Deletes(p, IF todo = {} THEN "idle" ELSE "begun", todo)

\* finishDeleteAttachment
FinishDelete(p) ==
  /\ eraser[p].at = "erased"
  /\ row' = IF row[Current(p)].state = "deleting" THEN [row EXCEPT ![Current(p)] = NoRow] ELSE row
  /\ NextDeletion(p)
  /\ UNCHANGED << object, late, upload, known, message, attempt, faults >>

FailDelete(p) ==
  /\ eraser[p].at = "failing"
  /\ MarkFailed(Current(p))
  /\ NextDeletion(p)
  /\ UNCHANGED << object, late, upload, known, message, attempt, faults >>

\* A day passes; no request, and no PUT that was given up, takes that long.
Day ==
  /\ late = {} /\ \A a \in Attachment : upload[a] \notin Running
  /\ \A p \in Eraser : eraser[p].at = "idle"
  /\ row' = [a \in Attachment |-> IF row[a].state = "none" THEN row[a]
                                  ELSE [row[a] EXCEPT !.old = TRUE, !.idle = TRUE]]
  /\ row' # row
  /\ UNCHANGED << object, late, upload, known, message, eraser, attempt, faults >>

Crash ==
  /\ Fault("crash")
  /\ upload' = [a \in Attachment |-> IF upload[a] \in Running THEN "ended" ELSE upload[a]]
  /\ eraser' = [p \in Eraser |-> [at |-> "idle", todo |-> {}]]
  /\ UNCHANGED << row, object, late, known, message, attempt >>

UploadStep(a) ==
  \/ PutOriginal(a) \/ PutModel(a) \/ Complete(a) \/ FailUpload(a) \/ CleanUpload(a)

EraserStep(p) == EraseObjects(p) \/ FinishDelete(p) \/ FailDelete(p)

Next ==
  \/ \E a \in Attachment : \/ Reserve(a) \/ UploadStep(a) \/ PutFails(a) \/ CompleteFails(a)
                           \/ Materialize(a) \/ BeginDelete(a)
                           \/ \E key \in Key : Arrive(a, key)
  \/ \E m \in Message : \/ StartPending(m) \/ Remove(m)
                        \/ \E A \in SUBSET Attachment : Submit(m, A)
  \/ \E p \in Eraser : EraserStep(p)
  \/ Purge \/ Begin \/ Claim \/ Day \/ Crash

Spec == Init /\ [][Next]_vars

\* Requests run to their end, the cleanup comes every hour, and days pass.
FairSpec ==
  /\ Spec
  /\ \A a \in Attachment : WF_vars(UploadStep(a)) /\ \A key \in Key : WF_vars(Arrive(a, key))
  /\ \A p \in Eraser : WF_vars(EraserStep(p))
  /\ WF_vars(Claim) /\ WF_vars(Day)

-----------------------------------------------------------------------------
(* Properties. *)

\* What a message shows is stored: no upload that failed, and none whose deletion
\* was begun by the page or the cleanup, is ever bound (validateAttachments,
\* beginDeleteAttachment, claimExpiredAttachments lock and check the row).
BoundIsStored ==
  \A a \in Attachment : row[a].message # None => row[a].state = "ready" /\ Keys(a) \subseteq object[a]

\* Whatever R2 has is counted by a row, which the cleanup finds it by, and the
\* account never has more than its allowance (backend-contract.md: "cleanup finds
\* every object an upload wrote, even after a crash or a lost PUT acknowledgment").
StorageIsPaid ==
  /\ \A a \in Attachment : Cardinality(object[a]) <= row[a].bytes
  /\ Stored <= Allowance

\* An upload that is not used disappears, its objects first, whatever failed or
\* crashed on the way, unless a message comes to use it.
AbandonedIsRemoved ==
  \A a \in Attachment : Unused(a) ~> row[a].message # None \/ (row[a].state = "none" /\ object[a] = {})

\* An attempt does not fail because a queued message was taken back and its
\* attachment deleted while the attempt was at it (backend-contract.md: "Before an
\* agent run, the runner restores all thread attachment originals").
RunSurvives == attempt.at # "failed"

\* The cleanup takes what was unused for a day (backend-contract.md: "removes
\* failed, unused, or stuck-deleting uploads after 24 hours").
UnusedForADay ==
  [][\A a \in Attachment : Claim /\ row[a].state = "ready" /\ row'[a].state = "deleting"
                           => row[a].idle]_vars
=============================================================================
