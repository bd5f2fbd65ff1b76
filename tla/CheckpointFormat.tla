-------------------------- MODULE CheckpointFormat --------------------------
(***************************************************************************)
(* How the images of a session are saved and restored: the live session    *)
(* holds bytes, a stored checkpoint refers to the attachment they came     *)
(* from, found by digest, type and size.  Images are numbered by the       *)
(* creation of their messages (one each); Content says which have the same *)
(* bytes.  When a message is released or steers is ThreadRuns'.            *)
(***************************************************************************)
EXTENDS Integers, Sequences, SequencesExt, FiniteSets

CONSTANTS
  Images,        \* how many messages carry an image
  Content,       \* [1 .. Images -> the bytes of its model variant]
  Tool,          \* the bytes of an image that a tool returned
  MaxAttempts,   \* attempts of all runs
  MaxTools,      \* images that tools return
  Id,            \* the identifiers of entries
  MaxEntries     \* entries of a session

Image == 1 .. Images

FormatAssumption ==
  /\ Images \in Nat /\ MaxAttempts \in Nat /\ MaxTools \in Nat /\ MaxEntries \in Nat
  /\ "none" \notin Id
  /\ DOMAIN Content = Image /\ \A i \in Image : Content[i] # Tool

VARIABLES
  place,    \* [Image -> where the message is]
  stored,   \* the images of the stored session: [bytes, ref (0: inline)]
  kept,     \* history: the bytes of the images that were saved
  live,     \* the images of the session of the attempt: [bytes, failed, steer]
  listed,   \* the attachments the attempt read, then those of its steers
  step,     \* "idle", "loaded", "running" or "refused"
  retry,    \* the run has a checkpoint of its own
  damaged,  \* images whose object is missing or corrupt
  attempts,
  session   \* the entries of a session: [id, kind, parent, target]

imageVars == << place, stored, kept, live, listed, step, retry, damaged, attempts >>
vars == << imageVars, session >>

Place == {"draft", "pending", "steer", "run", "ran", "withdrawn"}
Bound == {i \in Image : place[i] \in {"pending", "steer", "run", "ran"}}

TypeOK ==
  /\ place \in [Image -> Place] /\ damaged \subseteq Image /\ attempts \in 0 .. MaxAttempts
  /\ step \in {"idle", "loaded", "running", "refused"} /\ retry \in BOOLEAN
  /\ \A k \in DOMAIN stored : stored[k].ref \in 0 .. Images
  /\ \A k \in DOMAIN live : live[k].steer \in 0 .. Images
  /\ \A k \in DOMAIN listed : listed[k] \in Image

Init ==
  /\ place = [i \in Image |-> "draft"] /\ stored = << >> /\ kept = << >> /\ live = << >>
  /\ listed = << >> /\ step = "idle" /\ retry = FALSE /\ damaged = {} /\ attempts = 0
  /\ session = << >>

-----------------------------------------------------------------------------
(* Messages *)

Running == {i \in Image : place[i] \in {"run", "steer"}}

Submit(i) ==
  /\ place[i] = "draft" /\ \A j \in 1 .. i - 1 : place[j] # "draft"
  /\ \E p \in (IF \E j \in Image : place[j] = "run" THEN {"pending", "steer"} ELSE {"run"}) :
       place' = [place EXCEPT ![i] = p]
  /\ UNCHANGED << stored, kept, live, listed, step, retry, damaged, attempts >>

\* A queued message may be withdrawn, a steer of an active run may not.
Withdraw(i) ==
  /\ place[i] = "pending"
  /\ place' = [place EXCEPT ![i] = "withdrawn"]
  /\ UNCHANGED << stored, kept, live, listed, step, retry, damaged, attempts >>

Release(i) ==
  /\ place[i] = "pending" /\ Running = {}
  /\ \A j \in Image : place[j] = "pending" => i <= j
  /\ place' = [place EXCEPT ![i] = "run"]
  /\ UNCHANGED << stored, kept, live, listed, step, retry, damaged, attempts >>

-----------------------------------------------------------------------------
(* The stored form *)

\* referenceCheckpointImages: the references with the same digest, type and size
\* are used up in order.
Key(bytes) == bytes
Queue(refs, bytes) == SelectSeq(refs, LAMBDA r : Key(Content[r]) = Key(bytes))

\* Errors of tools are rewritten to a public text: their images are not kept.
Sane(images) == SelectSeq(images, LAMBDA im : ~im.failed)

Referenced(images, refs) ==
  [k \in DOMAIN images |->
     LET bytes  == images[k].bytes
         before == Cardinality({j \in 1 .. k - 1 : images[j].bytes = bytes})
         queue  == Queue(refs, bytes)
     IN  [bytes |-> bytes, ref |-> IF before < Len(queue) THEN queue[before + 1] ELSE 0]]

\* hydrateCheckpointEntries: what the stored session says of its images holds.
Valid(im) == im.ref = 0 \/ im.ref \in Bound \ damaged
Restored == {stored[k].ref : k \in DOMAIN stored} \ {0}
Hydrated ==
  [k \in DOMAIN stored |->
     [bytes |-> IF stored[k].ref = 0 THEN stored[k].bytes ELSE Content[stored[k].ref],
      failed |-> FALSE, steer |-> 0]]

-----------------------------------------------------------------------------
(* Attempts *)

Load ==
  /\ step = "idle" /\ Running # {} /\ attempts < MaxAttempts
  /\ attempts' = attempts + 1
  /\ listed' = SetToSortSeq(Bound, <)
  /\ IF \A k \in DOMAIN stored : Valid(stored[k])
     THEN step' = "loaded" /\ live' = Hydrated
     ELSE step' = "refused" /\ live' = << >>
  /\ UNCHANGED << place, stored, kept, retry, damaged >>

\* (fault) images that the restored session holds are sent again
UnsentAgain == {i \in Image : place[i] = "run"}

\* What the run was asked, and steers that it consumed, are its messages; images
\* that the restored session holds are not sent again.
Unsent == {i \in Image : place[i] = "run"} \ Restored

Prompt ==
  /\ step = "loaded"
  /\ IF Unsent \cap damaged # {}
     THEN step' = "refused" /\ UNCHANGED live
     ELSE /\ live' = live \o [k \in 1 .. Cardinality(Unsent) |->
                       [bytes |-> Content[SetToSortSeq(Unsent, <)[k]], failed |-> FALSE,
                        steer |-> 0]]
          /\ step' = "running"
  /\ UNCHANGED << place, stored, kept, listed, retry, damaged, attempts >>

Steered(i) == \E k \in DOMAIN live : live[k].steer = i

TakeSteer(i) ==
  /\ step = "running" /\ place[i] = "steer" /\ ~Steered(i) /\ i \notin damaged
  /\ live' = Append(live, [bytes |-> Content[i], failed |-> FALSE, steer |-> i])
  /\ listed' = Append(listed, i)
  /\ UNCHANGED << place, stored, kept, step, retry, damaged, attempts >>

ToolImage ==
  /\ step = "running" /\ Cardinality({k \in DOMAIN live : live[k].bytes = Tool}) < MaxTools
  /\ \E failed \in BOOLEAN :
       live' = Append(live, [bytes |-> Tool, failed |-> failed, steer |-> 0])
  /\ UNCHANGED << place, stored, kept, listed, step, retry, damaged, attempts >>

\* A checkpoint consumes the steers whose messages it holds.
Save ==
  /\ step = "running"
  /\ stored' = Referenced(Sane(live), listed)
  /\ kept' = [k \in DOMAIN Sane(live) |-> Sane(live)[k].bytes]
  /\ place' = [i \in Image |-> IF Steered(i) THEN "run" ELSE place[i]]
  /\ live' = [k \in DOMAIN live |-> [live[k] EXCEPT !.steer = 0]]
  /\ retry' = TRUE
  /\ UNCHANGED << listed, step, damaged, attempts >>

\* The attempt dies; the next one starts from the stored session.
Crash ==
  /\ step \in {"loaded", "running"}
  /\ step' = "idle" /\ live' = << >> /\ listed' = << >>
  /\ UNCHANGED << place, stored, kept, retry, damaged, attempts >>

\* The run ends, answered, failed or cancelled; a steer it did not take is queued.
EndRun ==
  /\ step # "idle"
  /\ place' = [i \in Image |->
       CASE place[i] = "run" -> "ran" [] place[i] = "steer" -> "pending" [] OTHER -> place[i]]
  /\ step' = "idle" /\ live' = << >> /\ listed' = << >> /\ retry' = FALSE
  /\ UNCHANGED << stored, kept, damaged, attempts >>

Damage(i) ==
  /\ i \in Bound \ damaged /\ damaged = {}
  /\ damaged' = {i}
  /\ UNCHANGED << place, stored, kept, live, listed, step, retry, attempts >>

-----------------------------------------------------------------------------
(* The entries of a session (validateEntryGraph): a header, then messages and    *)
(* entries that point at others; a compaction may point at itself.               *)

Entry == [id : Id, kind : {"session"}, parent : {"none"}, target : {"none"}] \cup
         [id : Id, kind : {"message"}, parent : Id \cup {"none"}, target : {"none"}] \cup
         [id : Id, kind : {"points", "compaction"}, parent : Id \cup {"none"}, target : Id]

Before(entries, k) == {entries[j].id : j \in 2 .. k - 1}

Accepts(entries) ==
  /\ \A k \in DOMAIN entries : (entries[k].kind = "session") <=> (k = 1)
  /\ \A j, k \in DOMAIN entries : entries[j].id = entries[k].id => j = k
  /\ \A k \in 2 .. Len(entries) :
       /\ k = 2 => entries[k].parent = "none"
       /\ entries[k].parent \in Before(entries, k) \cup {"none"}
       /\ entries[k].kind = "points" => entries[k].target \in Before(entries, k)
       /\ entries[k].kind = "compaction" =>
            entries[k].target \in Before(entries, k) \cup {entries[k].id}

\* A checkpoint with one more entry is decoded.
Decode ==
  /\ Len(session) < MaxEntries
  /\ \E e \in Entry : Accepts(Append(session, e)) /\ session' = Append(session, e)

-----------------------------------------------------------------------------
Message(i) == Submit(i) \/ Withdraw(i) \/ Release(i) \/ TakeSteer(i) \/ Damage(i)

ImageNext ==
  /\ (\E i \in Image : Message(i)) \/ Load \/ Prompt \/ ToolImage \/ Save \/ Crash \/ EndRun
  /\ UNCHANGED session

EntryNext == Decode /\ UNCHANGED imageVars

-----------------------------------------------------------------------------
(* Properties *)

Twins(i) == {j \in Image \ {i} : Content[j] = Content[i]}

\* A session is restored with the images it was saved with: whatever attachment a
\* stored image refers to has its bytes.
ImagesAreKept == step = "loaded" => [k \in DOMAIN live |-> live[k].bytes] = kept

\* The model is not shown an image twice by a retry, a later run or a steer that
\* is offered again, and its bytes are stored once, by the attachment service --
\* unless another message carries the same bytes.
ShownOnce ==
  \A i \in Image : Twins(i) = {} =>
    /\ Cardinality({k \in DOMAIN live : live[k].bytes = Content[i]}) <= 1
    /\ \A k \in DOMAIN stored : stored[k].bytes = Content[i] => stored[k].ref = i

\* A session is refused because an object was damaged, or because the twin of an
\* image it shows was withdrawn before it ran (README, findings); the attachment
\* of an image without a twin stays bound as long as a session refers to it.
RefusedForCause ==
  /\ step = "refused" => damaged # {} \/ Restored \ Bound # {}
  /\ \A i \in Restored \ Bound : Twins(i) \cap Bound # {}

\* What an accepted session names is in it, and every walk along parents ends at a
\* root: no entry is its own ancestor.
EntriesAreForest ==
  LET Entries == 2 .. Len(session)
      Named == {session[k].id : k \in Entries}
      Parents(S) == {session[k].parent : k \in {j \in Entries : session[j].id \in S}} \ {"none"}
      Climb[n \in 0 .. Len(session)] == IF n = 0 THEN Named ELSE Parents(Climb[n - 1])
  IN  /\ Parents(Named) \subseteq Named /\ Climb[Len(session)] = {}
      /\ \A k \in Entries : session[k].target \in Named \cup {"none"}
=============================================================================
