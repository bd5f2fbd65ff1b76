------------------------------ MODULE MCRunner ------------------------------
(***************************************************************************)
(* The components of the runner for TLC.  They share no variable, so one   *)
(* run explores each of them, live, while the others keep their initial    *)
(* states: what it visits is the union of their state spaces, not the      *)
(* product.                                                                *)
(***************************************************************************)
EXTENDS Integers, Sequences, FiniteSets, TLC

CONSTANTS Attempt, Box, File, None

VARIABLES
  live,
  row, owner, attempt, seen, call, wrapper, journal, body, starts,
  captured, offset, loop, told, emitted, stopped, provider, failure, waiter,
  record, box, worker, lock, token, run, deleting, written, taken, dropped,
  sdk, entries, buffer, made, done, writer, exec, steers, wait, latched, signal,
  workspace, staging, marker, at, verified, ready, result, user, torn, faults,
  wrote, got, process, interrupted, outcome,
  object, target, temporary, copy, copies, touches,
  place, stored, kept, images, listed, step, retry, damaged, attempts, session,
  sandbox, changes, pill, current, count,
  fs, spot, todo, root, visited, listing, picked, content, skills,
  now, holder, over, guest, known, refreshing, granted, tool, upload, tampered,
  generation, status, cancelled, ownership, checkpoint, narrated, ran, work,
  keys, kind, limit, aborted, phase, source, items, answer

Commands == INSTANCE GuestCommands WITH
  Command <- {"c1", "c2"}, Reads <- {"c2"}, Deliveries <- 2, LockKept <- TRUE

Progress == INSTANCE CommandProgress WITH
  Stream <- {"out", "err"}, Size <- 3, Limit <- 2, Chunk <- 2, exec <- provider, call <- waiter

Files == INSTANCE WorkspaceFiles WITH
  Worker <- {"w1"}, Docker <- FALSE, Faults <- {}, MaxGen <- 2, MaxWrites <- 1,
  Name <- "name", row <- record, owner <- token

\* Snapshots expire, records of sandboxes are lost, and an activity may fail just
\* after it created an empty sandbox.
Expired == INSTANCE WorkspaceFiles WITH
  Box <- {"b1", "b2"}, Worker <- {"w1"}, Docker <- FALSE,
  Faults <- {"expire", "forget", "repeat"}, MaxGen <- 2, MaxWrites <- 1,
  Name <- "name", row <- record, owner <- token

\* One activity at a time holds the lock, or believes it does.
Shared == INSTANCE WorkspaceFiles WITH
  Box <- {"b1", "b2"}, Worker <- {"w1"}, Docker <- FALSE,
  Faults <- {"lock", "expire"}, MaxGen <- 2, MaxWrites <- 1,
  Name <- "name", row <- record, owner <- token

Docker == INSTANCE WorkspaceFiles WITH
  Box <- {"b1", "b2"}, Worker <- {"w1"}, Docker <- TRUE, Faults <- {"forget", "repeat"},
  MaxGen <- 2, MaxWrites <- 1, Name <- "name", row <- record, owner <- token

Pi == INSTANCE PiSession WITH
  Steer <- {1, 2}, Faults <- {"store", "command", "overflow", "model"}, ItemLimit <- 3, MaxMessages <- 2,
  MaxText <- 1

Checkout == INSTANCE RepositoryCheckout WITH
  Note <- "note", Faults <- {"kill", "limit", "copy", "term"}, MaxFaults <- 4

Outcomes == INSTANCE CommandOutcomes WITH
  ProviderLimit <- 4, Limit <- 3, Width <- {1, 2}, MaxWrites <- 4

Copies == INSTANCE AttachmentFiles WITH
  Size <- 3, ChunkSize <- 2, MaxAttempts <- 3, MaxTouches <- 2, attempt <- copy, attempts <- copies

\* Two messages carry the same image.
Format == INSTANCE CheckpointFormat WITH
  Images <- 3, Content <- << "x", "x", "y" >>, Tool <- "t", MaxAttempts <- 4, MaxTools <- 1,
  Id <- {"e1", "e2", "e3", "e4"}, MaxEntries <- 4, live <- images

Counts == INSTANCE DiffCounts WITH
  Reader <- {"r1"}, Total <- [f \in 0 .. 2 |-> IF f = 2 THEN 1 ELSE f], MaxGen <- 2,
  workspace <- sandbox, files <- changes, run <- current

\* A project with up to two skills, one below the other, a global one, a link to the
\* first, a link upwards, and a pattern that hides a directory or a file.
Skill(root_) == << root_, "a", "SKILL.md" >>
Inner        == << "p", "a", "c", "SKILL.md" >>
Guests ==
  UNION {{[files |-> f, links |-> l, ignored |-> i, name |-> n] :
             n \in [f -> {"n1", "n2", "none"}],
             l \in {<< >>, << "p", "b" >> :> << "p", "a" >>, << "p", "a", "c" >> :> << "p" >>},
             i \in {{}, {<< "p", "a" >>}, {Skill("p")}}} :
           f \in (SUBSET {Skill("p"), Inner, Skill("g")}) \cup {{<< "p", "n.md" >>, Skill("g")}}}

Resources == INSTANCE RemoteResources WITH
  Root <- << "p", "g" >>,
  Entry <- << << "SKILL.md" >>, << "n.md" >>, << "a" >>, << "a", "SKILL.md" >>, << "a", "c" >>,
              << "a", "c", "SKILL.md" >>, << "b" >>, << "b", "SKILL.md" >> >>,
  Directory <- {<< "a" >>, << "a", "c" >>, << "b" >>}, SkillName <- {"n1", "n2"},
  Guest <- Guests, at <- spot, seen <- visited

\* Two tools renew the token of an attempt; two bundles arrive at a time.
Access == INSTANCE GitAccess WITH
  Attempts <- 2, Caller <- {1, 2}, Life <- 3, Margin <- 1, WriteTime <- 1, MaxTime <- 3,
  Id <- {}, Free <- 0, Least <- 0, Limit <- 0, owner <- holder, got <- granted

Bundles == INSTANCE GitAccess WITH
  Attempts <- 1, Caller <- {1}, Life <- 3, Margin <- 1, WriteTime <- 1, MaxTime <- 1,
  Id <- {1, 2}, Free <- 6, Least <- 1, Limit <- 1, owner <- holder, got <- granted

Script == INSTANCE ScriptedRunner WITH MaxGen <- 2, told <- narrated

\* Two addresses of one page, two more pages, and one on a private network.
Web == INSTANCE WebTools WITH
  Raw <- {"u", "u#", "v", "w", "private"},
  Href <- "u" :> "u" @@ "u#" :> "u" @@ "v" :> "v" @@ "w" :> "w" @@ "private" :> None,
  MaxItems <- 3, Limits <- {1, 3}, Excerpts <- 2

ASSUME Commands!CommandAssumption /\ Progress!ProgressAssumption
ASSUME Files!WorkspaceFilesAssumption /\ Expired!WorkspaceFilesAssumption
ASSUME Shared!WorkspaceFilesAssumption
ASSUME Docker!WorkspaceFilesAssumption /\ Pi!PiSessionAssumption
ASSUME Checkout!CheckoutAssumption
ASSUME Outcomes!CommandOutcomesAssumption /\ Copies!FilesAssumption
ASSUME Format!FormatAssumption /\ Counts!DiffCountsAssumption
ASSUME Resources!RemoteResourcesAssumption
ASSUME Access!AccessAssumption /\ Bundles!AccessAssumption
ASSUME Script!ScriptAssumption /\ Web!WebAssumption

guestVars    == << row, owner, attempt, seen, call, wrapper, journal, body, starts >>
progressVars == << captured, offset, loop, told, emitted, stopped, provider, failure, waiter >>
outcomeVars  == << wrote, got, process, interrupted, outcome >>
commandVars  == << guestVars, progressVars, outcomeVars >>

fileVars     == << record, box, worker, lock, token, run, deleting, written, taken, dropped >>
checkoutVars == << workspace, staging, marker, at, verified, ready, result, user, torn, faults >>
copyVars     == << object, target, temporary, copy, copies, touches >>
diskVars     == << fileVars, checkoutVars, copyVars >>

piVars       == << sdk, entries, buffer, made, done, writer, exec, steers, wait, latched, signal >>
formatVars   ==
  << place, stored, kept, images, listed, step, retry, damaged, attempts, session >>
sessionVars  == << piVars, formatVars >>

countVars    == << sandbox, changes, pill, current, count >>
resourceVars == << fs, spot, todo, root, visited, listing, picked, content, skills >>
accessVars   == << now, holder, over, guest, known, refreshing, granted, tool, upload, tampered >>
scriptVars   ==
  << generation, status, cancelled, ownership, checkpoint, narrated, ran, work >>
webVars      == << keys, kind, limit, aborted, phase, source, items, answer >>
helperVars   == << countVars, resourceVars, accessVars, scriptVars, webVars >>

runnerVars   == << live, commandVars, diskVars, sessionVars, helperVars >>

Part == {"guest", "progress", "outcomes", "files", "expired", "shared", "docker", "checkout",
         "copies", "pi", "format", "entries", "counts", "resources", "access", "bundles",
         "script", "web"}

\* What is not explored begins in one state.
Frozen ==
  /\ IF live = "checkout" THEN TRUE
     ELSE workspace = Checkout!Empty /\ staging = Checkout!Empty /\ marker = "none"
  /\ IF live = "copies" THEN TRUE ELSE object = Copies!Whole
  /\ IF live = "resources" THEN TRUE
     ELSE fs = [files |-> {}, links |-> << >>, ignored |-> {}, name |-> << >>]
  /\ live = "web" \/ (keys = {"brave"} /\ kind = "search" /\ limit = 1)

Init ==
  /\ live \in Part /\ Frozen
  /\ Commands!Init /\ Progress!Init /\ Outcomes!Init
  /\ Checkout!Init /\ Copies!Init
  /\ CASE live = "expired" -> Expired!Init
       [] live = "shared" -> Shared!Init
       [] live = "docker" -> Docker!Init
       [] OTHER -> Files!Init
  /\ Pi!Init /\ Format!Init /\ Counts!Init /\ Resources!Init
  /\ IF live = "bundles" THEN Bundles!Init ELSE Access!Init
  /\ Script!Init /\ Web!Init

CommandStep ==
  /\ \/ live = "guest" /\ Commands!Next /\ UNCHANGED << progressVars, outcomeVars >>
     \/ live = "progress" /\ Progress!Next /\ UNCHANGED << guestVars, outcomeVars >>
     \/ live = "outcomes" /\ Outcomes!Next /\ UNCHANGED << guestVars, progressVars >>
  /\ UNCHANGED << live, diskVars, sessionVars, helperVars >>

FileStep ==
  /\ \/ live = "files" /\ Files!Next
     \/ live = "expired" /\ Expired!Next
     \/ live = "shared" /\ Shared!Next
     \/ live = "docker" /\ Docker!Next
  /\ UNCHANGED << checkoutVars, copyVars >>

CheckoutStep ==
  /\ live = "checkout" /\ Checkout!Next
  /\ UNCHANGED << fileVars, copyVars >>

DiskStep ==
  /\ \/ FileStep
     \/ CheckoutStep
     \/ live = "copies" /\ Copies!Next /\ UNCHANGED << fileVars, checkoutVars >>
  /\ UNCHANGED << live, commandVars, sessionVars, helperVars >>

SessionStep ==
  /\ \/ live = "pi" /\ Pi!Next /\ UNCHANGED formatVars
     \/ live = "format" /\ Format!ImageNext /\ UNCHANGED piVars
     \/ live = "entries" /\ Format!EntryNext /\ UNCHANGED piVars
  /\ UNCHANGED << live, commandVars, diskVars, helperVars >>

AccessStep ==
  \/ live = "access" /\ Access!Next
  \/ live = "bundles" /\ Bundles!Next

ScriptStep ==
  \/ live = "script" /\ Script!Next /\ UNCHANGED webVars
  \/ live = "web" /\ Web!Next /\ UNCHANGED scriptVars

HelperStep ==
  /\ \/ /\ \/ live = "counts" /\ Counts!Next /\ UNCHANGED << resourceVars, accessVars >>
           \/ live = "resources" /\ Resources!Next /\ UNCHANGED << countVars, accessVars >>
           \/ AccessStep /\ UNCHANGED << countVars, resourceVars >>
        /\ UNCHANGED << scriptVars, webVars >>
     \/ ScriptStep /\ UNCHANGED << countVars, resourceVars, accessVars >>
  /\ UNCHANGED << live, commandVars, diskVars, sessionVars >>

Next == CommandStep \/ DiskStep \/ SessionStep \/ HelperStep

Spec == Init /\ [][Next]_runnerVars

-----------------------------------------------------------------------------
(* Properties: the parts are stated in the modules of the components. *)

\* The variables of the component that is explored keep their types.
RunnerTypeOK ==
  /\ live \in Part
  /\ live = "guest" => Commands!TypeOK
  /\ live = "progress" => Progress!TypeOK
  /\ live = "outcomes" => Outcomes!TypeOK
  /\ live = "files" => Files!TypeOK
  /\ live = "expired" => Expired!TypeOK
  /\ live = "shared" => Shared!TypeOK
  /\ live = "docker" => Docker!TypeOK
  /\ live = "checkout" => Checkout!TypeOK
  /\ live = "copies" => Copies!TypeOK
  /\ live = "pi" => Pi!TypeOK
  /\ live \in {"format", "entries"} => Format!TypeOK
  /\ live = "counts" => Counts!TypeOK
  /\ live = "resources" => Resources!TypeOK
  /\ live = "access" => Access!TypeOK
  /\ live = "bundles" => Bundles!TypeOK
  /\ live = "script" => Script!TypeOK
  /\ live = "web" => Web!TypeOK

\* What the rows say of commands is what happened in the guest: a command runs
\* once, alone or beside reads, and is over when its row is settled, although
\* requests are lost, late or repeated and scripts are killed.  The model is told
\* of an end that was seen, and when output was cut.
CommandsAreTrue ==
  /\ live = "guest" => Commands!RunsOnce /\ Commands!SettledIsOver /\ Commands!OnlyReadsTogether
  /\ live = "outcomes" => Outcomes!NothingLostSilently /\ Outcomes!OutputIsBounded

\* Live output is the beginning of what the command wrote, is silent once the
\* observation was given up or stopped, and an observer that fails does not keep
\* the command from its outcome.
PreviewIsHonest ==
  /\ [](live = "progress" => Progress!PreviewIsPrefix)
  /\ Progress!SilentAfterStop /\ Progress!OutcomeBeforeError

\* A run finds the files of its generation and works where the row says.  If the
\* provider loses what it promised to keep, files are lost only where the row takes
\* over a sandbox in one of three places (findings, README, 4).  A pause or deletion
\* never works on the sandbox of an active run, even if its lock was lost; what is
\* recorded as paused or deleted has ended at the provider.  Attachments lie there
\* whole, and an attempt that goes on has its own.
FilesAreKept ==
  /\ [](live = "files" => Files!NothingLostSilently /\ Files!RunsWhereRecorded /\ ~taken)
  /\ [](live = "expired" => Expired!LostByTakeover /\ Expired!RunsWhereRecorded)
  /\ [][live = "expired" => Expired!TakeoverIsKnown]_fileVars
  /\ [](live = "shared" => Shared!CleanupSparesRuns)
  /\ [][/\ live = "files" => Files!PausedHasEnded /\ Files!DeletedIsGone
        /\ live = "docker" => Docker!PausedHasEnded /\ Docker!DeletedIsGone]_fileVars
  /\ [](live = "copies" => Copies!NeverTorn)
  /\ Copies!GoesOnWithFile /\ Copies!LinksAreLeft

\* An attempt that returns has stored its whole session, text in order, with
\* every result recorded before the model saw it, and never hides a command
\* without an outcome.  The model is asked only between waits, and with steers
\* that are consumed once and for good.
SessionIsDurable ==
  live = "pi" =>
    /\ Pi!TextIsWhole /\ Pi!SuccessIsDurable /\ Pi!ResultsAreRecorded /\ Pi!FatalStaysFatal
    /\ Pi!AskedAfterSteersCommit /\ Pi!EachSteerOnce /\ Pi!NoRequestWhileWaiting

\* A session is restored with the images it was saved with, shows none twice, is
\* refused for a cause only, and its entries form a forest.
SessionIsRestored ==
  /\ live = "format" => Format!ImagesAreKept /\ Format!ShownOnce /\ Format!RefusedForCause
  /\ live = "entries" => Format!EntriesAreForest

\* A checkout is handed over whole, wherever earlier attempts were killed, unless
\* one died amid a copy that already had its HEAD (a finding, README, 4).  It can
\* always be gone on from, leaves nothing of its own and touches nothing of others.
CheckoutIsWhole ==
  /\ [](live = "checkout" =>
         Checkout!HandedOverWhole /\ Checkout!OwnIsRecovered /\ Checkout!NothingLeft)
  /\ Checkout!OthersUntouched

\* What a run reports and is given is true: counts are of the files of its
\* generation and the last one lands, and it is offered each skill of the
\* checkout once, the project's before the global one.  A scripted run that is
\* completed has told its whole script, each part by one attempt, and has run its
\* command in the workspace it completed in.  A search shows each page once, and
\* fails only if nothing was found.
RunIsInformed ==
  /\ live = "counts" => Counts!CountIsOfGeneration /\ Counts!LastCountLands /\ Counts!RunIsCounted
  /\ live = "resources" =>
       Resources!SkillsAreSound /\ Resources!SkillsAreComplete /\ Resources!AskedForAll
  /\ live = "script" =>
       Script!SucceededHere /\ Script!ScriptIsTold /\ Script!OneSpeaks /\ Script!SavedIsLast
  /\ live = "web" => Web!EachOnce /\ Web!AnswerIsWhole

\* The owner's commands find a token that the broker accepts, no attempt that lost
\* the run replaces it, and what is prepared for a push is what was exported.
AccessIsCurrent ==
  /\ [](live = "access" => Access!OwnerIsServed)
  /\ [](live = "bundles" => Bundles!BundleIsExported /\ Bundles!ReserveIsKept)
  /\ Access!TokenIsOfOwner

(***************************************************************************)
(* Liveness of the components, on smaller instances than those above and   *)
(* under the fairness that each component's module states.  A component    *)
(* that is not live takes no step, so each condition of fairness speaks of *)
(* the live one only.                                                      *)
(***************************************************************************)

\* An attempt that has lost the lock goes on beside its successor.
Superseded == INSTANCE GuestCommands WITH
  Command <- {"c1"}, Reads <- {}, Deliveries <- 1, LockKept <- FALSE

Queue == INSTANCE GuestCommands WITH
  Attempt <- {"a"}, Command <- {"c1", "c2"}, Reads <- {"c2"}, Deliveries <- 1, LockKept <- TRUE

Short == INSTANCE PiSession WITH
  Steer <- {1}, Faults <- {"store", "command", "overflow", "model"}, ItemLimit <- 2,
  MaxMessages <- 2, MaxText <- 1

Resumed == INSTANCE RepositoryCheckout WITH
  Note <- "note", Faults <- {"kill", "copy"}, MaxFaults <- 3

EndsInit ==
  /\ live \in {"superseded", "queue", "progress", "pi", "checkout"}
  /\ CASE live = "superseded" -> Superseded!Init [] OTHER -> Queue!Init
  /\ Progress!Init /\ Files!Init /\ Short!Init /\ Resumed!Init
  /\ Outcomes!Init /\ Copies!Init /\ Format!Init /\ Counts!Init /\ Resources!Init /\ Access!Init
  /\ Script!Init /\ Web!Init
  /\ Frozen

EndsNext ==
  /\ \/ /\ \/ live = "superseded" /\ Superseded!Next
           \/ live = "queue" /\ Queue!Next
        /\ UNCHANGED << progressVars, piVars, checkoutVars >>
     \/ /\ live = "progress" /\ Progress!Next
        /\ UNCHANGED << guestVars, piVars, checkoutVars >>
     \/ /\ live = "pi" /\ Short!Next
        /\ UNCHANGED << guestVars, progressVars, checkoutVars >>
     \/ /\ live = "checkout" /\ Resumed!Next
        /\ UNCHANGED << guestVars, progressVars, piVars >>
  /\ UNCHANGED << live, outcomeVars, fileVars, copyVars, formatVars, helperVars >>

EndsSpec ==
  /\ EndsInit /\ [][EndsNext]_runnerVars
  /\ WF_guestVars(live = "superseded" /\ Superseded!CoordinatorStep("c1"))
  /\ \A c \in {"c1", "c2"} : WF_guestVars(live = "queue" /\ Queue!CoordinatorStep(c))
  /\ WF_progressVars(live = "progress" /\ Progress!Return)
  /\ WF_progressVars(live = "progress" /\ (Progress!Stop \/ Progress!Stopped \/ Progress!Settle))
  /\ WF_piVars(live = "pi" /\ Short!Executor)
  /\ WF_piVars(live = "pi" /\ Short!Timeout)
  /\ WF_piVars(live = "pi" /\ Short!Signal)
  /\ WF_checkoutVars(live = "checkout" /\ Resumed!Program /\ Resumed!Remembers)
  /\ WF_checkoutVars(live = "checkout" /\ result = "failed" /\ Resumed!Begin /\ Resumed!Remembers)

-----------------------------------------------------------------------------
(* Properties: the parts are stated in the modules of the components. *)

\* What runs, of the first or the second of its kind, and what ends it.  live
\* never changes: each alternative is a leads-to of its own.
Runs(i) ==
  \/ live = "queue" /\ call[<< "c1", "c2" >>[i]] # "none"
  \/ live = "superseded" /\ i = 1 /\ call["c1"] # "none"
  \/ live = "progress" /\ i = 1
  \/ live = "pi" /\ i = 1
  \/ live = "checkout" /\ i = 1 /\ result = "failed" /\ ~user /\ marker # "other"

Ended(i) ==
  \/ live = "queue" /\ call[<< "c1", "c2" >>[i]] = "over"
  \/ live = "superseded" /\ call["c1"] = "over"
  \/ live = "progress" /\ waiter \in {"settled", "raised"}
  \/ live = "pi" /\ exec.pc \in {"returned", "failed"}
  \/ live = "checkout" /\ result \in Resumed!Success

\* Every call of the coordinator ends, its preview does not hold up the outcome,
\* and an attempt ends: waits for the queue, the provider, the model, a poll and
\* the store each have a deadline.  An interrupted attempt to prepare a checkout
\* is made good by those that follow.  What is stored as the outcome of a command
\* is how its body ended, although a superseded attempt still issues and
\* reconciles commands.
WorkEnds ==
  /\ \A i \in {1, 2} : Runs(i) ~> Ended(i)
  /\ [](live = "superseded" => Superseded!ResultIsTheGuests)
=============================================================================
