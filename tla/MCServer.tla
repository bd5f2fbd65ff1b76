------------------------------ MODULE MCServer ------------------------------
(***************************************************************************)
(* The components of the API server and of the page for TLC, one of which, *)
(* live, is explored while the others keep their initial states (MCRunner).*)
(***************************************************************************)
EXTENDS Integers, FiniteSets, Sequences

CONSTANTS Op, Attachment, Provider, Flow, Thread, Conn, Tool, None

VARIABLES
  live,
  execution, lease, staging, flight, sends, head, shown, doomed, worker, moves,
  upload, object, late, transfer, known, message, eraser, attempt, faults,
  stored, completed, github, request, holder, owner, flow, login, aborted, source, void, lost,
  passed, changes,
  row, task, server, stops, asked,
  log, deleted, srv, wire, reader, cursor, cache, visits, breaks,
  events, run, projection,
  page, draft, envelope, body, unheard, accepted, snapshot, optimistic, edit, user,
  sandbox, age, used, active, loop, waiting, panel, news, asks, count,
  hand, valid, expired, epoch, conn, poll, quiet,
  running, app, turns, token, cached, touched, req,
  access, shifts, ref, trees, catalogs, call,
  clock, uses, updated, pages, walk, want, moved, stale, loads, repo

Push   == CHOOSE g \in Op : TRUE
Broker == INSTANCE GitBroker WITH
  Pushes <- {Push}, Creates <- Op \ {Push}, Worker <- {"w1"}, Cleaner <- "clean",
  EmptyRepository <- FALSE, MaxMoves <- 1

\* Two attempts at one operation.
Calls == INSTANCE GitBroker WITH
  Op <- {Push}, Pushes <- {Push}, Creates <- {}, Worker <- {"w1", "w2"}, Cleaner <- "clean",
  EmptyRepository <- FALSE, MaxMoves <- 0

\* A change of the state of a pull request, which others may bring about, beside a
\* pull request that is created.
Changed == INSTANCE GitBroker WITH
  Pushes <- {}, Creates <- Op \ {Push}, Worker <- {"w1"}, Cleaner <- "clean",
  EmptyRepository <- FALSE, MaxMoves <- 1

Attach == INSTANCE Attachments WITH
  Message <- {"m1"},
  Image <- {CHOOSE a \in Attachment : TRUE}, Allowance <- 3, Reservation <- 2,
  Faults <- {"put", "commit", "object", "row", "crash", "edit"}, MaxFaults <- 2,
  row <- upload, upload <- transfer

Setup == INSTANCE Onboarding WITH
  Device <- CHOOSE p \in Provider : TRUE, Installations <- 1, Pages <- 1,
  Request <- {"r1", "r2"}, Flow <- {CHOOSE f \in Flow : TRUE},
  Operations <- {"status", "complete", "save", "delete", "login"},
  Changes <- {"revoke"}, MaxChanges <- 1

\* Access is given and taken while the installations are enumerated.
Access == INSTANCE Onboarding WITH
  Provider <- {CHOOSE p \in Provider : TRUE}, Device <- CHOOSE p \in Provider : TRUE,
  Installations <- 3, Pages <- 2, Request <- {"r1"},
  Flow <- {CHOOSE f \in Flow : TRUE}, Operations <- {"status", "complete"},
  Changes <- {"grant", "revoke"}, MaxChanges <- 3

Login == INSTANCE Onboarding WITH
  Provider <- {CHOOSE p \in Provider : TRUE}, Device <- CHOOSE p \in Provider : TRUE,
  Installations <- 1, Pages <- 1, Request <- {"r1", "r2", "r3"},
  Operations <- {"delete", "login"}, Changes <- {}, MaxChanges <- 0

Title == INSTANCE Titles WITH
  Task <- {"k1", "k2", "k3"}, MaxConcurrency <- 1, MaxStops <- 1

\* A stream and the queries break, or the page is left and opened again.
Feed == INSTANCE ThreadFeed WITH
  Fact <- {"run", "question"}, Limit <- 1, PageSize <- 2, BatchSize <- 2, Cold <- FALSE,
  MaxLog <- 2, MaxWire <- 1, MaxVisits <- 1, MaxFaults <- 1, faults <- breaks

Visits == INSTANCE ThreadFeed WITH
  Fact <- {"run"}, Limit <- 1, PageSize <- 2, BatchSize <- 2, Cold <- FALSE,
  MaxLog <- 2, MaxWire <- 1, MaxVisits <- 2, MaxFaults <- 0, faults <- breaks

Transcript == INSTANCE ThreadTranscript WITH
  Steer <- {"steer"}, OutputMax <- 1, MaxAttempts <- 2, MaxTurns <- 2, MaxMessages <- 2,
  MaxText <- 2, MaxLog <- 8, log <- events, page <- projection

\* Two texts on a page that stays, or one on a page that is left twice.
Submission == INSTANCE ClientSubmission WITH
  Faults <- {"lost", "refused", "denied"}, MaxTexts <- 2, MaxEnvelopes <- 2, MaxLeaves <- 0,
  stored <- envelope, server <- accepted

Leaving == INSTANCE ClientSubmission WITH
  Faults <- {"lost", "leave", "refused", "denied"}, MaxTexts <- 1, MaxEnvelopes <- 2,
  MaxLeaves <- 2, stored <- envelope, server <- accepted

\* The panel, the workflow's idle loop and the sandbox's lifetime.
Review == INSTANCE ReviewPanel WITH
  Idle <- 3, Life <- 6, Margin <- 1, MaxRuns <- 1, MaxOpens <- 1, MaxClicks <- 1,
  MaxRequests <- 2, MaxNews <- 2, run <- active

Relay == INSTANCE BrowserRelay WITH
  Conn <- {"c1"}, Poll <- {"p1", "p2"}, MaxChanges <- 3, MaxUp <- 2, owner <- hand

\* A GET and a mutation renew the same token; a WebSocket is dialled twice.
Preview == INSTANCE PreviewProxy WITH
  Get <- {"get"}, Mutation <- {"post"}, Socket <- {}, MaxTokens <- 3, MaxTurns <- 1

Sockets == INSTANCE PreviewProxy WITH
  Get <- {}, Mutation <- {}, Socket <- {"socket"}, MaxTokens <- 3, MaxTurns <- 2

\* Two commits.  The tree of the second is too large for one answer; it holds a
\* directory that the first has too, and one of which the last entry does not fit.
Blob(n)    == [name |-> n, kind |-> "blob", dir |-> "none"]
Tree(n, d) == [name |-> n, kind |-> "tree", dir |-> d]
Directories ==
  [first  |-> << Blob("f"), Tree("d", "skill") >>,
   skill  |-> << Blob("SKILL.md"), Blob("g") >>,
   second |-> << Tree("d", "skill"), Tree("e", "other"), Blob("f") >>,
   other  |-> << Blob("SKILL.md"), Blob("h") >>]

Reading == INSTANCE GithubReads WITH
  Reader <- {"r1", "r2"}, SkillReader <- {"r1"}, Listing <- Directories,
  Commit <- << "first", "second" >>, Wide <- [recursive |-> {"second"}, plain |-> {}],
  MaxReads <- 3, MaxEntries <- 6, MaxCached <- 1, MaxTurns <- 3, turns <- shifts

\* A directory is truncated too.
Truncated == INSTANCE GithubReads WITH
  Reader <- {"r1", "r2"}, SkillReader <- {"r1"}, Listing <- Directories,
  Commit <- << "first", "second" >>, Wide <- [recursive |-> {"second"}, plain |-> {"other"}],
  MaxReads <- 3, MaxEntries <- 6, MaxCached <- 1, MaxTurns <- 2, turns <- shifts

\* Pages of one thread; two times of the store are the same to the cursor.
Lists == INSTANCE ThreadHistory WITH
  Thread <- {1, 2, 3}, PageSize <- 1, Start <- 2, Now <- 3, MaxUses <- 2, Skew <- 1,
  Installations <- << "i", "j" >>,
  Repositories <- [i |-> << << "r1" >>, << >>, << "r2" >> >>,
                   j |-> << << "r3" >>, << "r4", "r1" >> >>]

ASSUME Broker!GitBrokerAssumption /\ Calls!GitBrokerAssumption /\ Changed!GitBrokerAssumption
ASSUME Attach!AttachmentsAssumption
ASSUME Setup!OnboardingAssumption /\ Access!OnboardingAssumption
ASSUME Login!OnboardingAssumption /\ Title!TitlesAssumption
ASSUME Feed!ThreadFeedAssumption /\ Visits!ThreadFeedAssumption
ASSUME Transcript!ThreadTranscriptAssumption /\ Submission!ClientSubmissionAssumption
ASSUME Leaving!ClientSubmissionAssumption
ASSUME Review!ReviewPanelAssumption /\ Relay!BrowserRelayAssumption
ASSUME Preview!PreviewProxyAssumption /\ Sockets!PreviewProxyAssumption
ASSUME Reading!GithubReadsAssumption /\ Truncated!GithubReadsAssumption
ASSUME Lists!HistoryAssumption

brokerVars  == << execution, lease, staging, flight, sends, head, shown, doomed, worker, moves >>
attachVars  == << upload, object, late, transfer, known, message, eraser, attempt, faults >>
setupVars   == << stored, completed, github, request, holder, owner, flow, login, aborted,
                  source, void, lost, passed, changes >>
titleVars   == << row, task, server, stops, asked >>
apiVars     == << brokerVars, attachVars, setupVars, titleVars >>

feedVars    == << log, deleted, srv, wire, reader, cursor, cache, visits, breaks >>
pageVars    == << events, run, projection >>
submitVars  == << page, draft, envelope, body, unheard, accepted, snapshot, optimistic, edit, user >>
clientVars  == << feedVars, pageVars, submitVars >>

reviewVars  == << sandbox, age, used, active, loop, waiting, panel, news, asks, count >>
relayVars   == << hand, valid, expired, epoch, conn, poll, quiet >>
previewVars == << running, app, turns, token, cached, touched, req >>
gatewayVars == << reviewVars, relayVars, previewVars >>

readVars    == << access, shifts, ref, trees, catalogs, call >>
listVars    == << clock, uses, updated, pages, walk, want, moved, stale, loads, repo >>
sidebarVars == << readVars, listVars >>

serverVars  == << live, apiVars, clientVars, gatewayVars, sidebarVars >>

Part == {"broker", "calls", "changes", "attach", "setup", "access", "login", "title", "feed",
         "visits", "transcript", "submit", "leaving", "review", "relay", "preview", "sockets",
         "reads", "truncated", "history", "picker"}

\* What is not explored begins in one state.
Frozen ==
  /\ live \in {"setup", "access", "login"} \/ (stored = {} /\ github = [i \in {1} |-> "empty"])
  /\ live \in {"setup", "access"} \/ ~completed
  /\ live = "feed" \/ log = << "run" >>
  /\ live \in {"preview", "sockets"} \/ app = {}
  /\ live = "history" \/ updated = [t \in {1, 2, 3} |-> 0]

Init ==
  /\ live \in Part
  /\ IF live = "calls" THEN Calls!Init ELSE Broker!Init
  /\ Attach!Init /\ Title!Init /\ Feed!Init /\ Transcript!Init /\ Submission!Init
  /\ IF live = "setup" THEN Setup!Init ELSE IF live = "access" THEN Access!Init ELSE Login!Init
  /\ Review!Init /\ Relay!Init /\ Reading!Init /\ Lists!Init
  /\ IF live = "sockets" THEN Sockets!Init ELSE Preview!Init
  /\ Frozen

BrokerStep ==
  /\ \/ live = "broker" /\ Broker!Next
     \/ live = "calls" /\ Calls!Next
     \/ live = "changes" /\ Changed!Next
  /\ UNCHANGED << attachVars, setupVars, titleVars >>

AttachStep ==
  /\ live = "attach" /\ Attach!Next
  /\ UNCHANGED << brokerVars, setupVars, titleVars >>

SetupStep ==
  /\ \/ live = "setup" /\ Setup!Next
     \/ live = "access" /\ Access!Next
     \/ live = "login" /\ Login!Next
  /\ UNCHANGED << brokerVars, attachVars, titleVars >>

TitleStep ==
  /\ live = "title" /\ Title!Next
  /\ UNCHANGED << brokerVars, attachVars, setupVars >>

ApiStep ==
  /\ BrokerStep \/ AttachStep \/ SetupStep \/ TitleStep
  /\ UNCHANGED << live, clientVars, gatewayVars, sidebarVars >>

FeedStep ==
  /\ \/ live = "feed" /\ Feed!Next
     \/ live = "visits" /\ Visits!Next
  /\ UNCHANGED << pageVars, submitVars >>

ClientStep ==
  /\ \/ FeedStep
     \/ live = "transcript" /\ Transcript!Next /\ UNCHANGED << feedVars, submitVars >>
     \/ live = "submit" /\ Submission!Next /\ UNCHANGED << feedVars, pageVars >>
     \/ live = "leaving" /\ Leaving!Next /\ UNCHANGED << feedVars, pageVars >>
  /\ UNCHANGED << live, apiVars, gatewayVars, sidebarVars >>

PreviewStep ==
  /\ \/ live = "preview" /\ Preview!Next
     \/ live = "sockets" /\ Sockets!Next
  /\ UNCHANGED << reviewVars, relayVars >>

GatewayStep ==
  /\ \/ live = "review" /\ Review!Next /\ UNCHANGED << relayVars, previewVars >>
     \/ live = "relay" /\ Relay!Next /\ UNCHANGED << reviewVars, previewVars >>
     \/ PreviewStep
  /\ UNCHANGED << live, apiVars, clientVars, sidebarVars >>

SidebarStep ==
  /\ \/ live = "reads" /\ Reading!Next /\ UNCHANGED listVars
     \/ live = "truncated" /\ Truncated!Next /\ UNCHANGED listVars
     \/ live = "history" /\ Lists!HistoryNext /\ UNCHANGED readVars
     \/ live = "picker" /\ Lists!PickerNext /\ UNCHANGED readVars
  /\ UNCHANGED << live, apiVars, clientVars, gatewayVars >>

Next == ApiStep \/ ClientStep \/ GatewayStep \/ SidebarStep

Spec == Init /\ [][Next]_serverVars

-----------------------------------------------------------------------------
(* Properties: the parts are stated in the modules of the components. *)

\* The variables of the component that is explored keep their types.
ServerTypeOK ==
  /\ live = "broker" => Broker!TypeOK
  /\ live = "calls" => Calls!TypeOK
  /\ live = "changes" => Changed!TypeOK
  /\ live = "attach" => Attach!TypeOK
  /\ live = "setup" => Setup!TypeOK
  /\ live = "access" => Access!TypeOK
  /\ live = "login" => Login!TypeOK
  /\ live = "title" => Title!TypeOK
  /\ live = "feed" => Feed!TypeOK
  /\ live = "visits" => Visits!TypeOK
  /\ live = "transcript" => Transcript!TypeOK
  /\ live = "submit" => Submission!TypeOK
  /\ live = "leaving" => Leaving!TypeOK
  /\ live = "review" => Review!TypeOK
  /\ live = "relay" => Relay!TypeOK
  /\ live = "preview" => Preview!TypeOK
  /\ live = "sockets" => Sockets!TypeOK
  /\ live = "reads" => Reading!TypeOK
  /\ live = "truncated" => Truncated!TypeOK
  /\ live \in {"history", "picker"} => Lists!TypeOK

\* A write is sent to GitHub at most once and never beside another one to the
\* same repository, and what is recorded of it is what happened, although calls
\* crash, repeat and lose their answers.
WritesAreTrue ==
  /\ live = "broker" =>
       Broker!DispatchedOnce /\ Broker!OutcomeIsTrue /\ Broker!OneWriteInFlight
  /\ live = "calls" => Calls!DispatchedOnce /\ Calls!OutcomeIsTrue
  /\ live = "changes" =>
       Changed!DispatchedOnce /\ Changed!OutcomeIsTrue /\ Changed!OneWriteInFlight

\* What the user submits is shown once; it is accepted once, except for a text the
\* page gave back while the server had it, and not lost, except by a page that was
\* left while a message was taken back (README, 4).  An attachment a message shows
\* is stored; what R2 stores is counted for the account and never exceeds what it
\* may store.
SubmissionsAreKept ==
  /\ live = "submit" =>
       Submission!OneBubble /\ Submission!AcceptedOnce /\ Submission!TextKept
  /\ live = "leaving" =>
       Leaving!OneBubble /\ Leaving!AcceptedOnce /\ Leaving!TextKept
  /\ live = "attach" => Attach!BoundIsStored /\ Attach!StorageIsPaid

\* An account that counts as set up has a credential; one said to have no access to
\* GitHub had none at some moment, except where access moved behind the check
\* (README, 4).  A deleted credential stays deleted, whatever login answers late.
\* The model is asked once for a title; no generation outlives the server's pool.
AccountIsSound ==
  /\ live = "setup" => Setup!CompletedHasProvider /\ Setup!AbsenceIsProven
  /\ live = "access" => Access!CompletedHasProvider /\ Access!AbsenceIsProven
  /\ live = "login" => Login!DeletedStaysDeleted
  /\ live = "title" => Title!AskedOnce /\ Title!QuietWhenClosed

\* What was settled is not undone: an outcome is never replaced, a login under way
\* is kept, the user's title stays, the status on a page never goes back, and a
\* workspace that is read is not paused.
SettledStays ==
  [][/\ live = "broker" => Broker!OutcomeIsFinal
     /\ live = "changes" => Changed!OutcomeIsFinal
     /\ live = "login" => Login!PendingIsKept
     /\ live = "title" => Title!UserTitleStays
     /\ live = "feed" => Feed!ViewNeverBack
     /\ live = "visits" => Visits!ViewNeverBack
     /\ live = "review" => Review!InUseIsKept]_serverVars

\* A page shows the events of a run as a page that follows them from the start
\* would, each answer once, and gives up its stream only if the thread is gone.
PageIsTrue ==
  /\ live = "feed" => Feed!StopsOnlyIfGone
  /\ live = "visits" => Visits!StopsOnlyIfGone
  /\ live = "transcript" =>
       /\ Transcript!HistoryShown /\ Transcript!CommentaryStays
       /\ Transcript!AnswerOnce /\ Transcript!ShownAsRunning

\* The agent's commands do not reach a browser that the user holds, and it misses
\* nothing of what the browser says; a request reaches the app once, with a token
\* that can be used; and each wake goes back to an act of the user.
GatewayIsSound ==
  /\ live = "relay" => Relay!UserIsAlone /\ Relay!NothingMissed
  /\ live = "preview" => Preview!AppOnce /\ Preview!RefusedIsFresh /\ Preview!CacheIsUsable
  /\ live = "sockets" => Sockets!AppOnce /\ Sockets!RefusedIsFresh /\ Sockets!CacheIsUsable
  /\ live = "review" => Review!NoWakeLoop

\* A list read in pages, or from a cache, is whole: the tree of a commit unless it
\* says truncated, its skills, the threads that nobody used meanwhile, in order,
\* and the repositories of every installation; and it is answered with access.
ListsAreWhole ==
  /\ live = "reads" =>
       Reading!TreeIsWhole /\ Reading!SkillsAreOfTree /\ Reading!AnsweredWithAccess
  /\ live = "truncated" =>
       Truncated!TreeIsWhole /\ Truncated!SkillsAreOfTree /\ Truncated!AnsweredWithAccess
  /\ live = "history" => Lists!ListInOrder /\ Lists!NothingBetweenPages
  /\ live = "picker" => Lists!EachPageOnce

(***************************************************************************)
(* Liveness of the components, on smaller instances than those above and   *)
(* under the fairness that each component's module states.  A component    *)
(* that is not live takes no step, so each condition of fairness speaks of *)
(* the live one only.                                                      *)
(***************************************************************************)

Found == INSTANCE GitBroker WITH
  Op <- {"p"}, Pushes <- {"p"}, Creates <- {}, Worker <- {"w1"}, Cleaner <- "clean",
  EmptyRepository <- FALSE, MaxMoves <- 0

Abandoned == INSTANCE Attachments WITH
  Attachment <- {"i"}, Message <- {"m1"}, Image <- {"i"}, Allowance <- 3, Reservation <- 2,
  Faults <- {"put", "commit", "object", "row", "crash", "edit"}, MaxFaults <- 3,
  row <- upload, upload <- transfer

Answered == INSTANCE Onboarding WITH
  Provider <- {"d"}, Device <- "d", Installations <- 1, Pages <- 1, Request <- {"r1", "r2"},
  Flow <- {"f1"}, Operations <- {"status", "complete", "delete", "login"},
  Changes <- {"grant", "revoke"}, MaxChanges <- 1

Shutdown == INSTANCE Titles WITH
  Thread <- {"t1"}, Task <- {"k1", "k2"}, MaxConcurrency <- 1, MaxStops <- 1

Followed == INSTANCE ThreadFeed WITH
  Conn <- {1, 2},
  Fact <- {"run"}, Limit <- 1, PageSize <- 2, BatchSize <- 2, Cold <- FALSE,
  MaxLog <- 2, MaxWire <- 1, MaxVisits <- 1, MaxFaults <- 1, faults <- breaks

Sent == INSTANCE ClientSubmission WITH
  MaxTexts <- 1, Faults <- {"lost", "leave"}, MaxEnvelopes <- 2, MaxLeaves <- 1,
  stored <- envelope, server <- accepted

EndsInit ==
  /\ live \in {"broker", "attach", "setup", "title", "feed", "submit", "review"}
  /\ Found!Init /\ Abandoned!Init /\ Answered!Init /\ Shutdown!Init /\ Followed!Init
  /\ Transcript!Init /\ Sent!Init /\ Review!Init
  /\ Relay!Init /\ Preview!Init /\ Reading!Init /\ Lists!Init
  /\ live = "setup" \/ (stored = {} /\ github = [i \in {1} |-> "empty"])
  /\ app = {} /\ updated = [t \in {1, 2, 3} |-> 0]

EndsApiStep ==
  /\ \/ live = "broker" /\ Found!Next /\ UNCHANGED << attachVars, setupVars, titleVars >>
     \/ live = "attach" /\ Abandoned!Next /\ UNCHANGED << brokerVars, setupVars, titleVars >>
     \/ live = "setup" /\ Answered!Next /\ UNCHANGED << brokerVars, attachVars, titleVars >>
     \/ live = "title" /\ Shutdown!Next /\ UNCHANGED << brokerVars, attachVars, setupVars >>
  /\ UNCHANGED << clientVars, reviewVars >>

EndsClientStep ==
  /\ \/ live = "feed" /\ Followed!Next /\ UNCHANGED submitVars
     \/ live = "submit" /\ Sent!Next /\ UNCHANGED feedVars
  /\ UNCHANGED << apiVars, pageVars, reviewVars >>

EndsNext ==
  /\ \/ EndsApiStep \/ EndsClientStep
     \/ live = "review" /\ Review!Next /\ UNCHANGED << apiVars, clientVars >>
  /\ UNCHANGED << live, relayVars, previewVars, sidebarVars >>

BrokerFairness ==
  /\ WF_brokerVars(live = "broker" /\ Found!Call("clean"))
  /\ WF_brokerVars(live = "broker" /\ Found!Begin("clean", "p"))
  /\ SF_brokerVars(live = "broker" /\ Found!Access("clean"))
  /\ SF_brokerVars(live = "broker" /\ Found!Look("clean"))
  /\ SF_brokerVars(live = "broker" /\ worker["clean"].outcome = "succeeded" /\ Found!Finish("clean"))

AttachFairness ==
  /\ WF_attachVars(live = "attach" /\ Abandoned!UploadStep("i"))
  /\ \A key \in Attach!Key : WF_attachVars(live = "attach" /\ Abandoned!Arrive("i", key))
  /\ \A p \in Attach!Eraser : WF_attachVars(live = "attach" /\ Abandoned!EraserStep(p))
  /\ WF_attachVars(live = "attach" /\ Abandoned!Claim)
  /\ WF_attachVars(live = "attach" /\ Abandoned!Day)

SetupFairness ==
  /\ \A r \in {"r1", "r2"} :
       /\ WF_setupVars(live = "setup" /\ Answered!Served(r))
       /\ WF_setupVars(live = "setup" /\ Answered!Deadline(r))
  /\ WF_setupVars(live = "setup" /\ Answered!Fail("f1"))
  /\ WF_setupVars(live = "setup" /\ Answered!Stored("f1"))

TitleFairness ==
  /\ WF_titleVars(live = "title" /\ Shutdown!EndShutdown)
  /\ \A k \in {"k1", "k2"} : WF_titleVars(live = "title" /\ Shutdown!Work(k))

FeedFairness ==
  /\ \A c \in {1, 2} :
       /\ WF_feedVars(live = "feed" /\ Followed!Server(c))
       /\ WF_feedVars(live = "feed" /\ reader.conn # c /\ Followed!Close(c))
  /\ \A q \in Feed!Query :
       /\ WF_feedVars(live = "feed" /\ Followed!ReadStore(q))
       /\ WF_feedVars(live = "feed" /\ Followed!Answer(q))
  /\ WF_feedVars(live = "feed" /\ Followed!Connect)
  /\ WF_feedVars(live = "feed" /\ Followed!Opened)
  /\ WF_feedVars(live = "feed" /\ Followed!Read)
  /\ WF_feedVars(live = "feed" /\ Followed!Flush)
  /\ WF_feedVars(live = "feed" /\ Followed!Retry)
  /\ WF_feedVars(live = "feed" /\ Followed!Disconnect /\ UNCHANGED breaks)

SubmitFairness ==
  /\ WF_submitVars(live = "submit" /\ Sent!Accept)
  /\ WF_submitVars(live = "submit" /\ Sent!Reply)
  /\ WF_submitVars(live = "submit" /\ Sent!Refetch)
  /\ SF_submitVars(live = "submit" /\ Sent!Confirm)
  /\ \A kept \in BOOLEAN : WF_submitVars(live = "submit" /\ Sent!Open(kept))

ReviewFairness ==
  /\ WF_reviewVars(live = "review" /\ Review!Learn)
  /\ WF_reviewVars(live = "review" /\ Review!AutoWake)
  /\ WF_reviewVars(live = "review" /\ Review!Asked)
  /\ WF_reviewVars(live = "review" /\ Review!WakeTimesOut)

EndsSpec ==
  /\ EndsInit /\ [][EndsNext]_serverVars
  /\ BrokerFairness /\ AttachFairness /\ SetupFairness
  /\ TitleFairness /\ FeedFairness /\ SubmitFairness /\ ReviewFairness

-----------------------------------------------------------------------------
(* Properties: the parts are stated in the modules of the components. *)

\* What waits, of the first or the second of its kind, and what ends its wait.
\* live never changes: each alternative is a leads-to of its own.
Waits(i) ==
  \/ live = "attach" /\ i = 1 /\ Abandoned!Unused("i")
  \/ live = "submit" /\ accepted[i].state \in Sent!Live /\ page.envelope = i
  \/ live = "setup" /\ request[<< "r1", "r2" >>[i]].at # "new"
  \/ live = "title" /\ i = 1 /\ server = "closing"
  \/ live = "feed" /\ srv[i].slot /\ reader.conn # i
  \/ live = "review" /\ i = 1 /\ panel.open /\ panel.seen = "paused"

Answers(i) ==
  \/ live = "attach" /\ (upload["i"].message # None \/ (upload["i"].state = "none" /\ object["i"] = {}))
  \/ live = "submit" /\ page.envelope # i
  \/ live = "setup" /\ request[<< "r1", "r2" >>[i]].at = "done"
  \/ live = "title" /\ server # "closing"
  \/ live = "feed" /\ ~srv[i].slot
  \/ live = "review" /\ (~panel.open \/ panel.seen = "running" \/ Review!WakeButton)

\* Uploads nobody uses are removed, an accepted prompt is released, requests of
\* the setup and shutdowns of the server end though GitHub, the model or the user
\* never answer, a stream whose reader has left gives its place back, and an open
\* panel that finds the workspace paused sees it run again or offers to wake it.
\* An open page ends up with every event applied and with queries as new.  An
\* effect that stays to be seen at GitHub is found and recorded, although the
\* answer was lost and the dispatcher is gone.
NothingWaitsForever ==
  /\ \A i \in {1, 2} : Waits(i) ~> Answers(i)
  /\ live = "feed" => <>[](deleted \/ reader.at \in {"off", "stopped"} \/ Followed!Current)
  /\ <>[](live = "broker" /\ flight["p"] = "landed" /\ Found!Visible("p"))
       => <>(execution["p"] = "succeeded")
=============================================================================
