------------------------- MODULE RepositoryCheckout -------------------------
(***************************************************************************)
(* The checkout program that prepares a workspace (runner/repository.ts):  *)
(* it clones into a staging directory, writes a promotion marker, copies   *)
(* the clone into the workspace and removes both again.  It may be         *)
(* interrupted between any two of its commands and is then run again over  *)
(* what is left; after a success the agent owns the workspace, and the     *)
(* program runs over that too, before each later attempt.                  *)
(***************************************************************************)
EXTENDS Naturals

CONSTANTS
  File,       \* what the repository tracks
  Note,       \* a file it does not
  Faults,     \* which of FaultKinds happen
  MaxFaults   \* bound on their number

\* The shell is told to stop, or is killed; cp is interrupted or the disk is full;
\* the clone fails or a limit is reached.
FaultKinds == {"term", "kill", "copy", "limit"}

CheckoutAssumption ==
  /\ Note \notin File /\ Faults \subseteq FaultKinds /\ MaxFaults \in Nat

VARIABLES
  workspace, staging,
  marker,     \* the promotion marker, of this checkout or of another
  at,         \* the command the program is at
  verified,   \* marker_verified
  ready,      \* staging_ready
  result,     \* of the last execution
  user,       \* the workspace holds what somebody else wrote
  torn,       \* (history) the program died amid what is later taken for complete
  faults

vars == << workspace, staging, marker, at, verified, ready, result, user, torn, faults >>

Success == {"reused", "cloned"}

Tree == [git : {"none", "config", "head"}, origin : {"requested", "other"},
         branch : {"requested", "other"}, files : SUBSET (File \cup {Note})]
Empty == [git |-> "none", origin |-> "requested", branch |-> "requested", files |-> {}]
Whole == [Empty EXCEPT !.git = "head", !.files = File]

TypeOK ==
  /\ workspace \in Tree
  /\ staging \in Tree /\ staging.branch = "requested" /\ staging.files \subseteq File
  /\ marker \in {"none", "this", "other"}
  /\ at \in {"idle", "begin", "marked", "unmarked", "clone", "cloning", "verify", "mark",
             "copy", "promoted", "reuse", "unstage", "unmark"}
  /\ at \in {"marked", "copy", "promoted", "unstage", "unmark"} => marker = "this" /\ verified
  /\ {verified, ready, user, torn} \subseteq BOOLEAN
  /\ result \in Success \cup {"none", "refused", "gave up", "failed"}
  /\ faults \in 0 .. MaxFaults

Noted == [Empty EXCEPT !.files = {Note}]
OtherRepository(git) == [Empty EXCEPT !.git = git, !.origin = "other"]

\* A new workspace is empty; the tests also start from what another repository or
\* another program left in the workspace, in the staging directory, or in both.
Left ==
  { << Empty, Empty, "none" >>, << Noted, Empty, "none" >>, << Noted, Empty, "other" >>,
    << OtherRepository("head"), Empty, "none" >>, << OtherRepository("config"), Empty, "this" >>,
    << Noted, OtherRepository("head"), "this" >> }

Init ==
  /\ \E start \in Left : workspace = start[1] /\ staging = start[2] /\ marker = start[3]
  /\ user = (workspace # Empty)
  /\ at = "idle" /\ verified = FALSE /\ ready = FALSE /\ result = "none"
  /\ torn = FALSE /\ faults = 0

Fault(kind) == kind \in Faults /\ faults < MaxFaults /\ faults' = faults + 1

HasHead(t) == t.git = "head"
OriginReadable(t) == t.git # "none"
Matching(t) == HasHead(t) /\ t.origin = "requested"

Promotable(t) == Matching(t) /\ t.branch = "requested"
IsEmpty(t) == t.git = "none" /\ t.files = {}

\* cleanup, on every exit and on TERM.
Cleanup == staging' = IF ~verified /\ marker = "none" THEN Empty ELSE staging

\* The program ends: an exit status of 0, of 65 for what it refuses to touch, of
\* 65, 75 or 124 for a clone that failed, or one that is retried.
Exit(r) == Cleanup /\ at' = "idle" /\ result' = r

Kept == UNCHANGED << workspace, marker, verified, ready, user >>

-----------------------------------------------------------------------------
Begin ==
  /\ at = "idle"
  /\ at' = "begin" /\ verified' = FALSE /\ ready' = FALSE /\ result' = "none"
  /\ UNCHANGED << workspace, staging, marker, user, faults >>

OwnMarker ==
  /\ at = "begin" /\ marker = "this"
  /\ verified' = TRUE /\ at' = "marked"
  /\ UNCHANGED << workspace, staging, marker, ready, result, user, faults >>

OtherMarker ==
  /\ at = "begin" /\ marker = "other"
  /\ Exit("refused") /\ Kept /\ UNCHANGED faults

NoMarker ==
  /\ at = "begin" /\ marker = "none"
  /\ at' = "unmarked"
  /\ UNCHANGED << workspace, staging, marker, verified, ready, result, user, faults >>

\* The copy was completed before the interruption.
MarkedReuse ==
  /\ at = "marked" /\ Promotable(workspace)
  /\ at' = "unstage" /\ result' = "reused"
  /\ UNCHANGED << workspace, staging, marker, verified, ready, user, faults >>

\* The clone and the workspace are looked at before either is removed.
Misplaced(t) == OriginReadable(t) /\ t.origin = "other"

MismatchedStaging == HasHead(staging) /\ ~Promotable(staging)

MarkedRefuse ==
  /\ at = "marked" /\ ~Promotable(workspace)
  /\ MismatchedStaging \/ Misplaced(workspace) \/ HasHead(workspace)
  /\ ready' = Promotable(staging)
  /\ staging' = IF HasHead(staging) THEN staging ELSE Empty
  /\ at' = "idle" /\ result' = "refused"
  /\ UNCHANGED << workspace, marker, verified, user, faults >>

ClearWorkspace == workspace' = Empty

\* The copy was not: a staged clone is promoted again, or cloned again.
MarkedResume ==
  /\ at = "marked"
  /\ ~(MismatchedStaging \/ Misplaced(workspace) \/ HasHead(workspace))
  /\ ClearWorkspace
  /\ ready' = HasHead(staging)
  /\ staging' = IF ready' THEN staging ELSE Empty
  /\ at' = IF ready' THEN "verify" ELSE "clone"
  /\ UNCHANGED << marker, verified, result, user, faults >>

UnmarkedReuse ==
  /\ at = "unmarked" /\ Matching(workspace)
  /\ at' = "reuse"
  /\ UNCHANGED << workspace, staging, marker, verified, ready, result, user, faults >>

UnmarkedRefuse ==
  /\ at = "unmarked" /\ ~Matching(workspace) /\ ~IsEmpty(workspace)
  /\ Exit("refused") /\ Kept /\ UNCHANGED faults

\* (fault) a clone that was left is promoted
UnmarkedResume ==
  /\ at = "unmarked" /\ IsEmpty(workspace)
  /\ staging' = IF HasHead(staging) THEN staging ELSE Empty
  /\ at' = IF HasHead(staging) THEN "verify" ELSE "clone"
  /\ UNCHANGED << workspace, marker, verified, ready, result, user, faults >>

UnmarkedClone ==
  /\ at = "unmarked" /\ IsEmpty(workspace)
  /\ staging' = Empty /\ at' = "clone"
  /\ UNCHANGED << workspace, marker, verified, ready, result, user, faults >>

-----------------------------------------------------------------------------
StartClone ==
  /\ at = "clone"
  /\ at' = "cloning"
  /\ UNCHANGED << workspace, staging, marker, verified, ready, result, user, faults >>

\* git writes the configuration, then the objects and refs, then the files.
CloneStep ==
  /\ at = "cloning"
  /\ \/ staging.git = "none" /\ staging' = [staging EXCEPT !.git = "config"]
     \/ staging.git = "config" /\ staging' = [staging EXCEPT !.git = "head"]
     \/ /\ HasHead(staging)
        /\ \E f \in File \ staging.files : staging' = [staging EXCEPT !.files = @ \cup {f}]
  /\ UNCHANGED << workspace, marker, at, verified, ready, result, user, faults >>

CloneDone ==
  /\ at = "cloning" /\ staging = Whole
  /\ at' = "verify"
  /\ UNCHANGED << workspace, staging, marker, verified, ready, result, user, faults >>

\* The disk, the time or the size of the clone; git's own failure.
Limit ==
  /\ at \in {"clone", "cloning", "verify"} /\ Fault("limit")
  /\ Exit("gave up") /\ Kept

Verify ==
  /\ at = "verify"
  /\ \/ /\ Promotable(staging) /\ IsEmpty(workspace)
        /\ at' = "mark" /\ UNCHANGED << staging, result >>
     \/ ~Promotable(staging) /\ Exit("gave up")
     \/ Promotable(staging) /\ ~IsEmpty(workspace) /\ Exit("refused")
  /\ Kept /\ UNCHANGED faults

\* write_promotion_marker, by a rename
WriteMarker ==
  /\ at = "mark"
  /\ marker' = "this" /\ verified' = TRUE /\ at' = "copy"
  /\ UNCHANGED << workspace, staging, ready, result, user, faults >>

\* cp -a, in the order of the directory's entries
CopyStep ==
  /\ at = "copy"
  /\ \/ staging.git # "none" /\ workspace.git = "none"
          /\ workspace' = [workspace EXCEPT !.git = "config"]
     \/ workspace.git = "config" /\ workspace' = [workspace EXCEPT !.git = "head"]
     \/ \E f \in staging.files \ workspace.files :
          workspace' = [workspace EXCEPT !.files = @ \cup {f}]
  /\ UNCHANGED << staging, marker, at, verified, ready, result, user, faults >>

\* What has a HEAD passes for complete in the next execution: a copy, and a clone
\* that is made while there is a marker, although it died before the last file.
Tears ==
  /\ at' = "idle"
  /\ \/ at = "copy" /\ HasHead(workspace) /\ workspace # staging
     \/ at = "cloning" /\ marker = "this" /\ HasHead(staging) /\ staging # Whole

\* There is nothing to copy once a TERM has removed the clone.
CopyDone ==
  /\ at = "copy" /\ workspace = staging
  /\ IF staging = Empty THEN Exit("failed")
     ELSE at' = "promoted" /\ UNCHANGED << staging, result >>
  /\ Kept /\ UNCHANGED faults

CopyFails ==
  /\ at = "copy" /\ Fault("copy")
  /\ Exit("failed") /\ Kept

CheckPromoted ==
  /\ at = "promoted"
  /\ IF Promotable(workspace)
     THEN at' = "unstage" /\ result' = "cloned" /\ UNCHANGED staging
     ELSE Exit("refused")
  /\ Kept /\ UNCHANGED faults

-----------------------------------------------------------------------------
\* The clone is removed file by file, and last its repository.
Unstaged(next) ==
  \/ \E f \in staging.files : staging' = [staging EXCEPT !.files = @ \ {f}] /\ UNCHANGED at
  \/ staging.files = {} /\ staging' = Empty /\ at' = next

Unstage ==
  /\ at = "unstage" /\ Unstaged("unmark")
  /\ UNCHANGED << workspace, marker, verified, ready, result, user, faults >>

Unmark ==
  /\ at = "unmark"
  /\ marker' = "none" /\ verified' = FALSE /\ at' = "idle"
  /\ UNCHANGED << workspace, staging, ready, result, user, faults >>

ReuseDone ==
  /\ at = "reuse" /\ staging' = Empty
  /\ at' = "idle" /\ result' = "reused"
  /\ UNCHANGED << workspace, marker, verified, ready, user, faults >>

-----------------------------------------------------------------------------
\* TERM runs the trap, which does not exit: unless the command it was at failed
\* with it, the shell goes on.  Without its clone it finds that git failed.
Term ==
  /\ at \notin {"idle", "begin", "copy"} /\ Fault("term")
  /\ Cleanup
  /\ \/ at # "cloning" /\ UNCHANGED << at, result >>
     \/ at' = "idle" /\ result' = IF at = "cloning" THEN "gave up" ELSE "failed"
  /\ Kept

Kill ==
  /\ at # "idle" /\ Fault("kill")
  /\ at' = "idle" /\ result' = "failed"
  /\ UNCHANGED << workspace, staging, marker, verified, ready, user >>

\* The agent works in what it was given: files, branches, remotes, all of .git.
\* (A workspace it empties is a new one.)
Work ==
  /\ at = "idle" /\ result \in Success
  /\ \E w \in Tree : ~IsEmpty(w) /\ workspace' = w
  /\ user' = TRUE
  /\ UNCHANGED << staging, marker, at, verified, ready, result, faults >>

Program ==
  \/ OwnMarker \/ OtherMarker \/ NoMarker
  \/ MarkedReuse \/ MarkedRefuse \/ MarkedResume
  \/ UnmarkedReuse \/ UnmarkedRefuse \/ UnmarkedClone
  \/ StartClone \/ CloneStep \/ CloneDone \/ Verify \/ WriteMarker
  \/ CopyStep \/ CopyDone \/ CheckPromoted
  \/ Unstage \/ Unmark \/ ReuseDone

Remembers == torn' = (torn \/ Tears)

Next == (Begin \/ Program \/ Limit \/ CopyFails \/ Term \/ Kill \/ Work) /\ Remembers

Spec == Init /\ [][Next]_vars

\* The program goes on while it is not killed, and a failed attempt is repeated.
FairSpec ==
  /\ Spec
  /\ WF_vars(Program /\ Remembers)
  /\ WF_vars(result = "failed" /\ Begin /\ Remembers)

-----------------------------------------------------------------------------
\* A workspace is not handed over before every tracked file is in it, wherever and
\* however often the program was interrupted, except after it died amid a copy, or
\* a clone beside a marker, that already had its HEAD: that is then handed over as
\* it lies.
HandedOverWhole ==
  at = "idle" /\ result \in Success /\ ~user => (workspace = Whole <=> ~torn)

\* What somebody else wrote, before the first attempt or as the agent, is never
\* changed by a later one, and neither is anything beside a foreign marker.
OthersUntouched ==
  [][/\ user /\ at # "idle" => UNCHANGED workspace
     /\ marker = "other" => UNCHANGED << staging, marker >>]_vars

\* Whatever the program itself left behind it can go on from: only what is
\* somebody else's is refused.
OwnIsRecovered == result = "refused" => user \/ marker = "other"

\* A success leaves neither a clone nor a marker, those of earlier attempts
\* included: a later attempt must not take the agent's workspace for a copy.
NothingLeft == at = "idle" /\ result \in Success => staging = Empty /\ marker = "none"

\* An attempt that was interrupted is made good by those that follow.
Recovers == result = "failed" /\ ~user /\ marker # "other" ~> result \in Success
=============================================================================
