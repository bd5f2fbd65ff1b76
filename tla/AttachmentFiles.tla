-------------------------- MODULE AttachmentFiles ---------------------------
(***************************************************************************)
(* The copy of an attachment in the workspace (materializeOne): a script    *)
(* prepares a temporary file, one writes each chunk at its offset, and one  *)
(* checks size and digest and moves the file into place.  An attempt may   *)
(* die between or inside them, the next one starts over, and programs of    *)
(* the user change the files between two scripts.                          *)
(***************************************************************************)
EXTENDS Integers

CONSTANTS
  Size,       \* the recorded size
  ChunkSize,  \* what a script writes at most
  MaxAttempts, MaxTouches

FilesAssumption ==
  /\ Size \in Nat /\ ChunkSize \in Nat \ {0} /\ MaxAttempts \in Nat /\ MaxTouches \in Nat

VARIABLES
  object,    \* the stored object: Gone or [size, good] -- good: the recorded bytes
  target,    \* Gone, Link or what the file holds
  temporary, \* the same, of the temporary file
  attempt,   \* [step, offset]
  attempts, touches

vars == << object, target, temporary, attempt, attempts, touches >>

\* A file: its bytes are the first ones of the recorded content, or are not.
Held == [size : 0 .. Size + ChunkSize, good : BOOLEAN]
Whole == [size |-> Size, good |-> TRUE]
Gone  == [size |-> -1, good |-> FALSE]
Link  == [size |-> -2, good |-> FALSE]  \* or a directory

Step == {"idle", "prepare", "read", "finish", "done", "failed"}

TypeOK ==
  /\ object \in Held \cup {Gone}
  /\ target \in Held \cup {Gone, Link} /\ temporary \in Held \cup {Gone, Link}
  /\ attempt \in [step : Step, offset : 0 .. Size]
  /\ attempts \in 0 .. MaxAttempts /\ touches \in 0 .. MaxTouches

NoAttempt == [step |-> "idle", offset |-> 0]

Init ==
  /\ object \in Held \cup {Gone}
  /\ target = Gone /\ temporary = Gone
  /\ attempt = NoAttempt /\ attempts = 0 /\ touches = 0

Goto(step) == attempt' = [attempt EXCEPT !.step = step]
Least(a, b) == IF a < b THEN a ELSE b

-----------------------------------------------------------------------------

Begin ==
  /\ attempt.step \in {"idle", "done", "failed"} /\ attempts < MaxAttempts
  /\ attempt' = [NoAttempt EXCEPT !.step = "prepare"] /\ attempts' = attempts + 1
  /\ UNCHANGED << object, target, temporary, touches >>

\* Size, then digest.
IsWhole(file) == file = Whole

Prepare ==
  /\ attempt.step = "prepare"
  /\ IF target = Link THEN Goto("failed") /\ UNCHANGED temporary
     ELSE IF IsWhole(target) THEN Goto("done") /\ UNCHANGED temporary
     ELSE IF temporary = Link THEN Goto("failed") /\ UNCHANGED temporary
     ELSE Goto("read") /\ temporary' = [size |-> 0, good |-> TRUE]
  /\ UNCHANGED << object, target, attempts, touches >>

\* The object is missing, is longer than recorded, or ends early or altered.
Refuses ==
  \/ object = Gone
  \/ object.size > Size /\ attempt.offset + ChunkSize >= Size
  \/ object.size <= Size /\ attempt.offset = object.size /\ object # Whole

ReadRefused ==
  /\ attempt.step = "read" /\ Refuses
  /\ Goto("failed")
  /\ UNCHANGED << object, target, temporary, attempts, touches >>

\* What the script leaves when it wrote n bytes at its offset.
Written(n) ==
  [size |-> temporary.size + n, good |-> temporary.good /\ (n = 0 \/ object.good)]

Chunk ==
  /\ attempt.step = "read" /\ ~Refuses /\ attempt.offset < object.size
  /\ LET n == Least(ChunkSize, object.size - attempt.offset) IN
       IF temporary \in Held /\ temporary.size = attempt.offset
       THEN /\ temporary' = Written(n)
            /\ attempt' = [attempt EXCEPT !.offset = @ + n]
       ELSE Goto("failed") /\ UNCHANGED temporary
  /\ UNCHANGED << object, target, attempts, touches >>

\* The script is killed, or the attempt with it, inside the write.
ChunkKilled ==
  /\ attempt.step = "read" /\ ~Refuses /\ attempt.offset < object.size
  /\ temporary \in Held /\ temporary.size = attempt.offset
  /\ \E n \in 0 .. Least(ChunkSize, object.size - attempt.offset) : temporary' = Written(n)
  /\ Goto("failed")
  /\ UNCHANGED << object, target, attempts, touches >>

Sent ==
  /\ attempt.step = "read" /\ object = Whole /\ attempt.offset = Size
  /\ Goto("finish")
  /\ UNCHANGED << object, target, temporary, attempts, touches >>

\* What finish moves into place: the size and the digest of the file itself.
Finishes == temporary = Whole /\ target # Link

Finish ==
  /\ attempt.step = "finish"
  /\ IF Finishes
     THEN /\ target' = temporary /\ temporary' = Gone
          /\ \E step \in {"done", "failed"} : Goto(step)  \* its result may be lost
     ELSE Goto("failed") /\ UNCHANGED << target, temporary >>
  /\ UNCHANGED << object, attempts, touches >>

\* The runner dies between two scripts.
Die ==
  /\ attempt.step \in {"prepare", "read", "finish"}
  /\ Goto("failed")
  /\ UNCHANGED << object, target, temporary, attempts, touches >>

\* A program of the user writes, links or removes one of the files.
Users == [size : {0, Size}, good : {FALSE}] \cup {Gone, Link}

Touch ==
  /\ touches < MaxTouches /\ touches' = touches + 1
  /\ \/ target' \in Users /\ UNCHANGED temporary
     \/ temporary' \in Users /\ UNCHANGED target
  /\ UNCHANGED << object, attempt, attempts >>

Next ==
  \/ Begin \/ Prepare \/ ReadRefused \/ Chunk \/ ChunkKilled \/ Sent \/ Finish \/ Die
  \/ Touch

-----------------------------------------------------------------------------
(* Properties *)

\* The agent never finds a part of an attachment, or another content, under its
\* name: the file is absent, whole, or what the user made of it.
NeverTorn == target \in {Whole} \cup Users

\* An attempt that goes on to its run has its file, whole at that moment, and
\* never from an object that is not what was uploaded, unless an earlier copy was
\* still good.
GoesOnWithFile ==
  [][/\ attempt.step # "done" /\ attempt'.step = "done" => target' = Whole
     /\ attempt.step = "finish" /\ attempt'.step = "done" => object = Whole]_vars

\* Nothing is written through a link, and a script that is over changes nothing:
\* only its own attempt fills the temporary file.
LinksAreLeft ==
  [][touches' = touches =>
       /\ target = Link => target' = Link
       /\ temporary = Link => temporary' = Link]_vars
=============================================================================
