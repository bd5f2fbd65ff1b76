# cloud-swe in TLA+

cloud-swe runs coding agents. A user's messages start *runs* on *threads*; a
run is executed by a worker in the thread's *workspace*, a Linux sandbox. What
must survive crashes is kept in PostgreSQL. This directory specifies the part
that is hard to test: the transactions of the thread store, issued in any order
by requests, workers that lost their lock and retried activities; the Temporal
workflow, the activities and the dispatcher that drive accepted work to an end;
and the components around them in the runner, the API server, the page and the
gateway, each with the failures of what it talks to.

Paths below are relative to `src/`; `threads/` stands for
`packages/db/src/threads/`, `routers/` for `packages/api/src/routers/` and
`runner/` for `apps/runner/src/`.

## 1. The system

### Components, their state and what makes them correct

| Component | State it keeps | Operations | Correct means | Modelled |
| --- | --- | --- | --- | --- |
| Submission and queue (`threads/submission.ts`) | `message`, `message_delivery`, `run` rows | submit, start, edit, remove; the queue continues when a run ends | one active run per thread, admission limit, first in first out, nothing lost | yes |
| Run lifecycle (`threads/runs.ts`) | run status, cancellation, execution owner | request cancel, start, claim, complete, finish | ended runs stay ended; a replaced attempt stays out | yes |
| Checkpoints and steering (`threads/checkpoints.ts`, `packages/db/src/checkpoint.ts`) | `agent_checkpoint`; the session in a worker's memory | restore, poll steers, save a turn, consume a steer | a steer is read exactly once, as the user last saw it; images come back | yes |
| Questions and browser (`question-store.ts`, `threads/browser.ts`) | question rows, owner of the hosted browser | publish, answer, cancel, resume, take, hand back | a wait is recorded with what is asked; the browser is where the pending handoff says | yes |
| Git approvals (`git-store.ts`) | `git_operation` rows | propose, decide, expire, claim the write, report | one write at a time; only what was approved, for this filesystem | yes |
| Command operations (`threads/commands.ts`) | `command_operation` rows, read slots | begin, admit, report, settle, mark unknown | exclusion; no command outlives its filesystem or its owner | yes |
| Workspace rows (`threads/workspaces.ts`) | state, generation, transition | prepare, reset, pause, wake, delete, guarded cleanup | nothing is stopped under a command; transitions end | yes |
| Deletion (`threads/deletion.ts`) | thread row | mark deleted, purge | nothing acts for a deleted thread; it is purged | yes |
| Outbox and dispatcher (`threads/outbox.ts`, `runner/dispatcher.ts`) | outbox rows | signal, mark delivered | every row is signalled at least once | yes |
| Thread workflow (`runner/workflows.ts`) | workflow variables, held by Temporal | take a run, wait, wake, rest, delete | accepted runs end; no answer, decision, expiry or cancellation is missed | partly: not continue-as-new, replay of older histories, cancellation of the whole workflow |
| Runner activities (`runner/activities.ts`, `activity-scope.ts`) | the workspace lock, attempts | prepare, execute, pause, wake, finalize | each is right again after a crash between any two of its transactions | partly: the lock is kept in `ThreadWorkflow` and lost in `ThreadStore` and `WorkspaceFiles` |
| Guest command protocol (`runner/guest-command.ts`, `execution-coordinator.ts`) | journal and locks in the sandbox | run, observe, reconcile | a command runs once and is over when its row says so | yes |
| Sandbox providers (`runner/modal.ts`, `docker.ts`) | sandboxes, snapshots, containers | resolve, create, restore, pause, delete, exec | a generation's files are found again; what is recorded as ended has ended | partly: not capacity and tags |
| Repository initialisation and diff counts (`runner/repository.ts`, `diff-stat.ts`) | staging directory, marker, counts | clone, promote, recover; count | a checkout is handed over whole; a count is of its generation | yes |
| Pi session engine and tools (`runner/pi.ts`, `pi-persistence.ts`, `remote-resources.ts`, `git-tools.ts`) | SDK session, writer queue | stream, call tools, steer, save, drain, abort | what the model saw is stored; a command without outcome is never hidden | partly: not the parameters and wording of single tools |
| Git broker (`routers/git-broker.ts`, `git-bundles.ts`) | timers, bundles, tokens | prepare, execute, clean | an outcome is what happened at GitHub; sent at most once | yes |
| Attachments (`threads/attachments.ts`, `routers/attachments.ts`, `runner/attachments.ts`) | rows, objects in R2, files in the workspace | reserve, upload, bind, delete, clean up, copy | a shown attachment is stored; what is stored is counted; a copy is whole | yes |
| Model credentials and onboarding (`model-credentials.ts`, `routers/onboarding.ts`, `routers/models.ts`) | credentials, completion, device logins | save, delete, check, complete, log in | a completed account has a credential; a deleted one stays deleted | yes |
| Title generation (`apps/server/src/title-generation.ts`, `threads/titles.ts`) | a claim per thread, a pool | claim, generate, rename, close | asked at most once; the user's title stays | yes |
| Queries, events and SSE (`threads/queries.ts`, `server-events.ts`) | streams, their slots | admit, page, poll, close | every event is seen in order; slots are freed | yes |
| Web application (`apps/web/src`) | projection, snapshot, envelopes, panels | follow, submit, edit, review | a page shows what a page that followed from the start shows; a prompt is accepted once | partly: not views and presentation |
| HTTP API and authentication (`routers/thread.ts`, `github.ts`) | caches of trees | validate, call a transaction; read GitHub | lists are whole and answered with access only | partly: not sessions, allowlists, rate limits |
| Gateway (`apps/gateway/src`) | relays, tokens, forwarder | relay, poll, proxy | the agent does not reach a browser the user holds; a request reaches the app once | partly: not host names, cookies, the screencast |
| Server host and configuration | - | start, stop, parse the environment | - | no: no protocol of its own |

### How they interact

* The API validates a request and calls one store transaction. A transaction
  that needs the workflow leaves an **outbox row**; the **dispatcher** signals
  the thread's workflow (starting it when there is none) and then marks the row
  delivered, so a crash in between signals twice.
* The **workflow** is sequential. It calls **activities**, each a sequence of
  store transactions, retried by Temporal from its start after a crash or an
  error. Signals are handled while an activity is outstanding.
* An activity attempt that works in the sandbox **claims** its run and gets an
  ownership token; every later transaction of the attempt checks it. The
  workspace lock is meant to keep attempts apart, but a worker that lost it goes
  on until it notices.
* A run that asks something records the wait and returns; the workflow waits for
  the signal, reads the database, prepares the workspace again and resumes.

* The **runner** works in the sandbox by requests that may be lost, late or
  answered after it gave up; a journal in the sandbox says what became of a
  command. GitHub, R2, the sandbox providers and the model are such partners too.
* The **page** follows a thread through a stream of events and a snapshot that
  is fetched again when an event makes it stale; it keeps what it submits until
  it knows the outcome.

### What is hard

Interleavings of requests, attempts and workflow; the end of a run, which hands
over to the queue, settles questions, approvals and queued commands in one
transaction; crashes between two transactions of an activity; signals that are
repeated, late or race a read; waits without a timer; limits that are reached
exactly when a run ends; requests whose answer is lost although they took
effect; programs that are killed anywhere and run again over what is left;
streams that break and snapshots that are older than the stream. `PROJECT.json`
lists 40 of these under `hazards`, each at its line, with the properties that
cover it; two have none yet and say why.

## 2. The modules

```
ThreadStoreState        rows, row types, shared reads
  ThreadSessions        one attempt's execution: session, checkpoint, steers
    ThreadRuns          submission, queue, run lifecycle, deletion, outbox
      ThreadWorkspaces  workspace rows and transitions, command operations
      ThreadApprovals   questions, browser, Git operations
        ThreadStore     Init, Next, Spec, TypeOK
          ThreadProperties        what must hold
            ThreadStore_proofs        type correctness, references
              ThreadLifecycle_proofs    ThreadStore implements RunLifecycle; deleted threads,
                                        replaced attempts; questions, approvals, attachments
                ThreadSessions_proofs   the queue's order, steers, checkpoints, commands
          ThreadWorkflow          workflows, activities, dispatcher
            ThreadWorkflow_proofs   (with ThreadLifecycle_proofs) driven runs, workspaces
RunLifecycle            the abstract specification of runs
  RunLifecycle_proofs   its theorems
MCThreadStore, MCThreadWorkflow   instances for TLC

GuestCommands, CommandProgress, CommandOutcomes, WorkspaceFiles,
RepositoryCheckout, AttachmentFiles, PiSession, CheckpointFormat,
DiffCounts, RemoteResources, GitAccess, ScriptedRunner, WebTools    instances: MCRunner
  GuestCommands_proofs    commands run once, alone or beside reads, and are over when settled
  WorkspaceFiles_proofs   clean-ups spare runs; files of a generation are found again

GitBroker, Attachments, Onboarding, Titles, ThreadFeed, ThreadTranscript,
ClientSubmission, ReviewPanel, BrowserRelay, PreviewProxy, GithubReads,
ThreadHistory                                                       instances: MCServer
  GitBroker_proofs        a write is sent once, alone, and its outcome is what happened
```

**The thread store.** One transaction is one action: each takes the thread's
row lock first and starting a run takes a global advisory lock, so transactions
on the same rows are serialised, and the model interleaves whole transactions.
The variables are the tables (`thread`, `message` with its delivery row, `run`,
`checkpoint`, `question`, `gitop`, `command`, `workspace`, `attachment`,
`outbox`, `claim` for the attempts that were given a token) and `session`, the
Pi session in the memory of each attempt. A run is named after the message that
started it. Everything a transaction does is in its action: `FinishRun` for
instance withdraws questions and approvals, drops queued commands, starts the
next message when the queue may go on and writes the outbox rows. Attempts
interleave freely: between two attempts of a run only the ownership token
stands, as after a lost lock. A crash is an attempt that takes no further step.

| Module | Action | Code |
| --- | --- | --- |
| ThreadRuns | `SubmitRun`, `SubmitPending` | `submit` on an idle, on a busy thread |
| | `StartQueuedMessage`, `EditPending`, `RemovePending` | the user's operations on waiting messages |
| | `RequestCancel`, `StartRun`, `FinishRun`, `ClaimExecution`, `CompleteRun` | `runs.ts`; `EndRun` is the end they share, `ContinueQueue` the queue that goes on |
| | `DeleteThread`, `PurgeThread`, `MarkDelivered` | `deletion.ts`, `outbox.ts` |
| ThreadSessions | `CheckWaits`, `OpenSession`, `PollSteers`, `SaveTurn`, `ConsumeSteer` | the execution activity and `checkpoints.ts` |
| ThreadApprovals | `PublishQuestion`, `Answer`, `ResumeQuestions`, `TakeBrowser`, `HandBack` | `question-store.ts`, `browser.ts` |
| | `PublishProposal`, `Decide`, `Lapse`, `ExpireApprovals`, `ClaimWrite`, `RejectWrite`, `FinishWrite`, `ResumeApproval` | `git-store.ts` |
| ThreadWorkspaces | `CreateWorkspace`, `UpdateWorkspace`, `BeginTransition`, `CancelTransition`, `Cleanup`, `ResetWorkspace`, `RequestWake` | `workspaces.ts` |
| | `BeginCommand`, `AdmitCommand`, `MarkRunning`, `SettleCommand`, `MarkUnknown` | `commands.ts` as the coordinator calls it |

**The workflow.** `ThreadWorkflow` extends the store with one record per
thread: `pc` (which activity is outstanding, and how far), the signalled runs,
the active run, and what the signal handlers set. Each store transaction of an
activity is a step that is an action of the store *and* a move of `pc`; `Retry`
starts an activity again after any of its transactions, `GiveUp` ends the
retries, `Abort` is the cancelled scope. Here workers keep their lock: one
attempt works at a time.

**RunLifecycle** is the abstract specification: threads (`life`), where a
message was accepted (`home`) and what became of it (`phase`: waiting, queued,
running, ended, withdrawn). A thread works on one message at a time; the end of
a run hands over unless it was cancelled. The refinement mapping (`Life`,
`Home`, `Phase` in `ThreadProperties`) reads these from the columns of three
tables.

**The components around the store.** Each has a module of its own, with an
environment that loses, repeats, delays and refuses; none shares a variable with
another. Where one meets the store, the module models the rows it reads and
writes: `GuestCommands` the command row beside the journal, `WorkspaceFiles` the
workspace row beside the sandboxes, `GitBroker` the operation beside the remote.

| Module | Models | Hard part |
| --- | --- | --- |
| `GuestCommands` | an attempt's call of the coordinator, the script with its journal and locks, reconciliation | lost, late and repeated requests; a killed script; two attempts |
| `CommandProgress` | live output: observer, offsets, stop | the observer fails or is stopped while it reads |
| `CommandOutcomes` | capture of the streams, what the model is told | limits inside a character, unsettled outcomes |
| `WorkspaceFiles` | sandboxes, snapshots, containers, the row, the activities that use them | a lost lock, an expired snapshot, a call whose answer is lost |
| `RepositoryCheckout` | every command of the checkout program that changes a file or decides | killed between any two, run again over the rest |
| `AttachmentFiles` | the scripts that copy an attachment, chunk by chunk | death between and inside them, files changed meanwhile |
| `PiSession` | one attempt of the executor with its writer | store, command, queue and model failures, the signal at any point |
| `CheckpointFormat` | stored images and entries of a session | equal images, withdrawn messages, damaged objects |
| `DiffCounts` | counting changed files, recording, showing | a count of an older generation, a last count that is dropped |
| `RemoteResources` | discovery of skills: the listing and the two walks over it | links, ignored directories, files that change in between |
| `GitAccess` | read tokens and bundles, their renewal, life and space | the owner changes while a token is fetched |
| `ScriptedRunner` | the scripted execution: five steps, each told, then saved under its key | an attempt that lost the run goes on beside the next, the workspace is replaced between two steps |
| `WebTools` | one call of `web_search` or `web_fetch`: two providers, pages read in parallel | each request may fail, the call be aborted under any of them |
| `GitBroker` | `execute` and `clean` against a remote that answers late | a periodic reconciliation beside a push |
| `Attachments` | rows and objects of one account | a crash between row and object, cleanup beside use |
| `Onboarding` | credentials, readiness, completion, device logins | a check that is older than what it clears |
| `Titles` | claims, generations, renames, shutdown | a rename during a generation |
| `ThreadFeed` | streams, reader, snapshot | breaks, reconnects, an event during a fetch |
| `ThreadTranscript` | projection of a run's events and the transcript | attempts that start over, cut-off texts, an old snapshot |
| `ClientSubmission` | envelopes, drafts, the bubble | lost answers, reloads, a message taken back |
| `ReviewPanel` | a panel that keeps a workspace awake | a late wake, a snapshot that is gone |
| `BrowserRelay` | the relay, its polls of the owner | the user takes the browser between two polls |
| `PreviewProxy` | proxy, router, forwarder, tokens | a refused token, a retried request |
| `GithubReads` | trees and skills, two caches | access withdrawn while a read is shared |
| `ThreadHistory` | the list of threads and of repositories by pages | threads used, created, deleted between pages |

A definition marked *(fault)* is a plausible bug of the definition after it. No
action uses it: the `mutants` of `PROJECT.json` put it in place to see that a
property notices.

### What is abstracted

In the store and workflow modules (the component modules model some of what
these leave out: the feed and its sequence in `ThreadFeed` and
`ThreadTranscript`, diff counts in `DiffCounts`, review times in `ReviewPanel`,
titles in `Titles`, the provider's resources in `RemoteResources`):

* The event log, event sequence and idempotency keys: a repeated submission,
  answer or publication that changes nothing is a stutter.
* Contents (texts, tool results, proposals, receipts). A session is a sequence
  of entries; an entry of a steer carries the version of the text that was read.
  Between two saves Pi may compact or replace the session (`Rewritten`): any
  shorter or reordered list in which each text of a user that was there is still
  there once. That it keeps those is the SDK's promise, not this code's.
* Time. `Lapse` is the passing of an approval's expiry, an idle period may end
  whenever the workflow waits for it, and agent execution deadlines are folded
  into failing attempts.
* All Git operations are on one repository, which is the hard case. Ids of
  purged rows are not used again (they are random).
* A transition is its target; its id and retries are not kept. `failed` and
  `recovery` workspaces are never written by the code and are left out, as are
  diff counts, review times, titles and provider ids.
* The provider's answers (found, replaced, missing, unknown) are choices of the
  actions that ask it. A deferred or unknown cleanup changes no row.
* Not modelled in the workflow: continue-as-new, replay of older histories, an
  external cancellation of the whole workflow, lock loss inside an activity.

In the component modules:

* A component module abstracts its partner to what it may answer. Texts are
  counted, streams of bytes are sequences of widths, times are a few ticks; each
  bound is a constant, named in the module's declarations.
* A draft is the set of the texts in it. Of the requests nobody waits for any more
  only what they submit is kept: one of them or several may still arrive.
* An installation that is suspended, belongs to another App or has no readable
  repository is "empty": the enumeration passes over each.

## 3. The runs

Each run answers one question. Constants are as small as the case allows; a
run of `MCThreadStore` restricts Next to a *focus*, leaving out actions on rows
its properties do not read, and one run may explore several foci: `focus` never
changes, so the run visits the union of their state spaces. `MCRunner` and
`MCServer` do the same with components: `live` names the part that takes steps
while the others keep their initial states; their specifications `EndsSpec`, of
the runs `MCRunnerEnds` and `MCServerEnds`, are fair. A property is then
a conjunction of `live = part => ...`, and its parts are stated in the modules
of the components. Deadlock is not checked: every model ends when its finite
messages, attempts, generations or faults are used up.

| Run | Question | Instance | Distinct states |
| --- | --- | --- | --- |
| `MCStore` | Are rows, waits, withdrawals and browser consistent under every transaction? | full Next; 1 thread, 1 run, 2 attempts, 2 questions, 1 attachment | 971 000 |
| `MCLife` | Is one run of a thread active, whoever starts the next? Does anything act for a deleted thread? Is a write made that was withdrawn? Is every step one of RunLifecycle? | foci turns (1 thread, 3 messages), life and git (2 threads, 2 messages, 2 proposals, 1 attachment): 1 attempt, limit 2, 2 generations | 467 000 |
| `MCQueue` | Do runs start one at a time, within the limit, in order? Is every steer read once? Do commands exclude each other and end with owner and filesystem? | foci queue, steer and command: 2 threads, 3 messages, 2 attempts, 2 commands, 2 models, limit 1, 3 entries | 263 000 |
| `MCDelivery` | Is an accepted run ever orphaned, with repeated signals and failures after every transaction? | the whole system: 1 run, 2 attempts, 1 question, 1 proposal, 2 tries | 994 000 |
| `MCRuns` | Is every accepted run driven to its end? | 2 runs, 2 attempts each, 2 tries, 2 generations | 213 000 |
| `MCWaits` | Is an answer, decision, expiry, wake or cancellation ever missed, and does a session always have its workspace? | 1 run with 4 attempts, 1 question, 1 proposal | 197 000 |
| `MCRunner` | Are the runner's components right under their losses, kills and crashes? | 18 parts: guest, progress, outcomes, files, expired, shared, docker, checkout, copies, pi, format, entries, counts, resources, access, bundles, script, web | 1 280 000 |
| `MCRunnerEnds` | Do calls, observations, attempts and checkouts end? | superseded, queue, progress, pi, checkout | 135 000 |
| `MCServer` | Are server, page and gateway right under theirs? | 21 parts: broker, calls, changes, attach, setup, access, login, title, feed, visits, transcript, submit, leaving, review, relay, preview, sockets, reads, truncated, history, picker | 1 133 000 |
| `MCServerEnds` | Do clean-ups, requests, shutdowns, streams, prompts and wakes end? | broker, attach, setup, title, feed, submit, review | 144 000 |
| `MCAnswerRace` | finding 1 | 1 run, 2 attempts, 1 question, lock kept | violated |
| `MCDeletion` | finding 2 | 2 runs, no failures | violated |

Why the bounds are enough. The hazards are races of pairs: two attempts of one
run, two runs of one thread, two threads at the limit or on one repository, two
filesystem generations, one edit against one read, a call beside its repetition,
a write beside its reconciliation, two pages of a list. Each run holds two of
what races and one of the rest; the queue focus holds three messages on two
threads with one slot, so that a queue waits while another thread takes the last
slot. The turns focus is what `OneActiveRun` needs: three messages of one thread,
so that a run that ends starts the second while the user starts or sends the
third. The access part lists up to three installations and reads two pages, so
that an enumeration can be complete, cut short, or passed by a grant or a
revocation. A page that stays submits two texts, one that is
left twice submits one. In the files part nothing is lost; the expired part lets snapshots
and records of sandboxes go. Faults come at most three or four times in a behaviour, which is more than
any of the repairs needs. `MaxEdits`, `MaxEntries`, `MaxGeneration`, `MaxTries`
and the `Max...` of the components are bounds of the model; `MaxActiveRuns`,
`MaxReads` and `MaxOutstanding` are limits of the code (five by default, 4 and
36) at smaller values. Threads, messages, attempts, questions, operations and
commands are symmetric in the store runs; the runs with liveness use no
symmetry.

### Properties

*Store* (`ThreadProperties`). `OneActiveRun`, `AdmissionLimit`, `StartedHasRun`,
`QueueStallsOnlyByCancel`, `CancelKeepsQueue`, `TerminalIsFinal`,
`DeletedIsSettled`, `AttachmentsBound`, `SupersededStaysOut`,
`ImplementsRunLifecycle`, and the conjunctions
`SteersAreKept` (`ConsumedExactlyOnce`, `OfferedIsCurrent`, `SteersShareModel`),
`GitWritesAreSafe` (`OneWrite`, `ApprovalsAreCurrent`, `WrittenWasApproved`,
`CancelWithdraws`), `AskedInOrder` (`WaitsForWhatIsAsked`, `CancelWithdraws`,
`HandoffMeansUser`), `CommandsAreOwned` (`CommandExclusion`, `DispatchedByOwner`,
`NoCommandOutlivesWorkspace`, `StoppedIsQuiet`), and the action property
`QueueIsFifo`.
*Workflow* (`ThreadWorkflow`). `WorkflowTypeOK`, `ActiveRunIsDriven`,
`SessionHasWorkspace`, and the liveness properties `RunsEnd` and
`WaitingRunsEnd` (`RunsEnd`, `CancelledRunsEnd`).
*Runner* (`MCRunner`). `CommandsAreTrue`, `PreviewIsHonest`, `SessionIsDurable`,
`SessionIsRestored`, `RunIsInformed`, `FilesAreKept`, `CheckoutIsWhole`,
`AccessIsCurrent`, and `WorkEnds`.
*Server, page, gateway* (`MCServer`). `WritesAreTrue`,
`SubmissionsAreKept`, `AccountIsSound`, `PageIsTrue`, `GatewayIsSound`,
`ListsAreWhole`, `SettledStays`, and `NothingWaitsForever`.
Each is stated in words above its definition, and so are its parts.

### Fairness

`RunsEnd` and `WaitingRunsEnd` are stated under `Fairness` of `ThreadWorkflow`:

* the dispatcher delivers (weakly fair for each type of row: it reads the
  outbox in order and retries every row with backoff);
* `Progress(t)`: Temporal reschedules an activity until it has ended or used up
  its tries, and a workflow task until it ran;
* `Abort(t)`: a cancelled scope ends what it awaits;
* `Expiry(g)`: time passes.

Users and failures (`Chance`) have no fairness: nobody has to answer, nothing
has to fail. `RunsEnd` therefore leaves out a run whose question nobody answers.

`WorkEnds` (`EndsSpec` of `MCRunner`) assumes that code goes on and timers fire:
the coordinator's steps, the observer's return or stop, the executor, its
`Timeout` and the activity's `Signal`, the commands of the checkout program and
the retry of an activity whose checkout failed. No provider, store or model has
to answer. A copy that died after its HEAD counts here as a checkout that
succeeds, as it does in the code (section 4). `NothingWaitsForever` (`EndsSpec` of `MCServer`) assumes the
same of the server and the page: its interval timers start the cleaner and the
eraser, deadlines pass, a served request goes on, a reader reconnects, the tab
is opened again. Strong fairness is used only for what may be refused at any one
try and is tried for ever: the cleaner's access, look and successful report at
GitHub.

## 4. Findings

1. **A question answered before the retry of its attempt** (`MCAnswerRace`). An
   attempt commits a question and dies before the activity returns; the user
   answers; the retried attempt sees the recorded wait but no open question and
   goes on (`runner/activities.ts:737`). Only the workflow calls
   `resumeQuestionWait`, after a wait it never entered. The session works on a
   run still recorded as waiting: it is offered no steers and its next question
   is refused. `docs/backend-contract.md:303` describes this race as closed.
2. **A deletion after a deferred idle pause** (`MCDeletion`). An idle pause that
   an accepted run defers stays pending; if that run is cancelled before its
   preparation supersedes the transition, nothing removes it. A deletion that
   arrives then asks for another target, is refused
   (`threads/workspaces.ts:538`) and is retried for ever: the workspace and the
   rows stay, against `docs/backend-contract.md:55`. No failure is needed.

While modelling, further places were met where the code does something else than
a comment or document says. They have no run of their own: the properties above
state them as exceptions, for which some modules keep a history variable, and
without the exception TLC finds the property violated in the same instance. The
exceptions are `torn` (`RepositoryCheckout`), `taken` (`WorkspaceFiles`),
`unsure` and `left` (`ClientSubmission`) and `passed` (`Onboarding`); `dropped`,
a lock lost in `WorkspaceFiles`, is one that only the theorem needs.

*Commands and workspace.*
A row read earlier is retired while a superseded attempt admits and dispatches
it (`runner/execution-coordinator.ts:648`; `docs/backend-contract.md:137`).
"deleted" is overwritten by "provisioning" before the sandbox is created, so a
failed attempt keeps the generation (`runner/activities.ts:495`; `:157`). A
replaced Modal sandbox is persisted by a pause and the generation stays
(`runner/modal.ts:216`; `:153`), and a replacement is "existing" at the second
try (`:153`). A killed `cp -a` that had copied `.git` counts as complete
(`runner/repository.ts:237`; `:161`; `torn`). Where a snapshot is gone, the row
takes over an empty sandbox and keeps its generation in the places
`TakeoverIsKnown` lists. The TERM trap of the checkout does not
exit, so a staged clone with a HEAD is promoted
(`docs/modal-sandbox-spec.md:80`). An error of storage for a *queued* message's
attachment fails the active run (`runner/activities.ts:759`; `:159`). Two
streams that fill the limit exactly are reported as cut. A skill seen only
through a link to a directory whose file is ignored under its first name is
dropped as a collision.

*Git.* `clean` may record "succeeded" for a pull request that already agrees
while its dispatcher has not sent the request (`routers/git-broker.ts:386`), and
may remove the staging directory of an operation that is claimed in between
(`docs/github-broker.md:58`, `:62`). A call that dispatched a push to an empty
repository may record "failed" for a 409 of its own inspection (`:395`). A failed
upload leaves its token usable until it expires (`git-bundles.ts:194`).

*Page and submission.* An event during the first fetch joins that fetch
(`thread-view.tsx:131`, against `:123`). The replay of an accepted submission is
answered 403 once access was withdrawn (`routers/thread.ts:388`;
`docs/backend-contract.md:93`). A refused retry releases the envelope while the
first request is still on its way, and so does a refusal by the route: the text
is in the composer, the message on the server, and the next Send doubles it
(`submission.ts:7`; `unsure`). A request to take a queued message back that was
lost before the server puts the text back as well, though the message still
waits (`thread-view.tsx:611`; `unsure`): the comment above it names the other
case, a lost response. Leaving the page loses the text of a message taken back
(`thread-view.tsx:609`; `left`). A late wake restarts the idle wait and can outlast the
hard timeout; a wake whose snapshot is gone leaves a panel without a Wake
button; an overlapping read may leave an older count on the pill.

*Accounts.* Access that moves from one installation to another during the
enumeration, to one that was already passed, loses the completion though the
account had access throughout (`routers/onboarding.ts:98`;
`docs/backend-contract.md:89`; `passed`), and an older check may clear a completion that
was set again. A failed device login is answered again for 60 seconds
(`routers/models.ts:186`; `:285`). Attachments are cleaned up by the age of
their row, which also removes one that was given back yesterday (`:77`). Two
images with the same bytes may refer to the attachment of a message that is
still pending: when it is withdrawn, later runs fail with
`ATTACHMENT_REFERENCE_INVALID` (`checkpoint.ts:30` calls references immutable).

## 5. What is proved

Every safety and action property of the store and of the workflow that a run
checks is also a theorem, and so are the safety properties of the three
components that touch the outside world with the most to lose: the guest command
protocol, the Git broker and the files of a workspace. All theorems hold for
every number of threads, messages, attempts, questions, operations, commands,
sandboxes, activities and calls and for every value of the limits. They assume
what `ThreadStoreState` and `ThreadWorkflow` declare: the limits are natural
numbers (`LimitAssumption`), a database has finitely many messages and commands
(`FiniteAssumption`), SQL null is no id (`NoneAssumption`) and an activity has at
least one try (`MaxTriesAssumption`); those of the components assume what their
modules declare of the constants (`CommandAssumption`, `GitBrokerAssumption`,
`WorkspaceFilesAssumption`: bounds are natural numbers and names are not
confused). TLC evaluates all these assumptions in its runs. A further hypothesis
is given in the table; each excludes a case the code leaves open, and without it
TLC finds the property violated (but for `TypeOK` of `WorkspaceFiles`).

| Theorem | States |
| --- | --- |
| `TypeCorrect` | `Spec => []TypeOK` |
| `AcceptedWorkIsKept` | `Spec => []StartedHasRun` |
| `StoreImplementsLifecycle` | `Spec => ImplementsRunLifecycle` |
| `OneRunPerThread`, `AdmissionIsKept` | `Spec => []OneActiveRun`, `Spec => []AdmissionLimit` |
| `EndedRunsAreFinal`, `QueueGoesOn`, `CancellationKeepsQueue` | the action properties `TerminalIsFinal`, `QueueStallsOnlyByCancel`, `CancelKeepsQueue` |
| `DeletedThreadsAreSettled` | `Spec => []DeletedIsSettled` |
| `ReplacedAttemptsStayOut` | `Spec => SupersededStaysOut` |
| `RequestsAreInOrder` | `Spec => []AskedInOrder` |
| `WritesAreSafe` | `Spec => []GitWritesAreSafe` |
| `AttachmentsStayBound` | `Spec => []AttachmentsBound` |
| `CommandsAreTheOwners` | `Spec => []CommandsAreOwned` |
| `SteersReachOneSession` | `Spec => []SteersAreKept` |
| `WhatCameFirstStaysFirst` | `Spec => QueueIsFifo` |
| `WorkflowsRunOnTheStore` | `WorkflowSpec => Spec`: the whole system's steps are the store's, so all of the above holds of it |
| `WorkflowTypeCorrect` | `WorkflowSpec => []WorkflowTypeOK` |
| `AcceptedRunsAreDriven` | `WorkflowSpec => []ActiveRunIsDriven` |
| `SessionsHaveWorkspaces` | `WorkflowSpec => []SessionHasWorkspace` |
| `CommandsAreTyped` | `GuestCommands`: `Spec => []TypeOK` |
| `BodiesRunOnce`, `ResultsAreTheGuests` | `Spec => []RunsOnce`, `Spec => []ResultIsTheGuests`, also if the workspace lock is lost |
| `WorkspaceIsExclusive` | `LockKept` implies `Spec => [](SettledIsOver /\ OnlyReadsTogether /\ RetiredNeverRuns)` |
| `WritesGoOutOnce`, `OutcomesAreFinal` | `GitBroker`: `Spec => []DispatchedOnce`, `Spec => [][OutcomeIsFinal]_vars` |
| `OutcomesAreTrue`, `WritesGoAlone` | `~EmptyRepository` implies `Spec => []OutcomeIsTrue`, `Spec => []OneWriteInFlight` |
| `CleanupsSpareRuns` | `WorkspaceFiles`: `Spec => []CleanupSparesRuns`, for both providers and whatever is lost |
| `FilesAreTyped`, `CommandsRunWhereRecorded` | while locks are kept: `Spec => []TypeOK`, `Spec => []RunsWhereRecorded` |
| `PausedWorkspacesEnded`, `DeletedWorkspacesAreGone` | while locks are kept: `Spec => [][PausedHasEnded]_vars`, `Spec => [][DeletedIsGone]_vars` |
| `NothingIsLost` | in Modal, whatever faults occur: `Spec => []LostByTakeover`; without them, but with failing activities: `Spec => []NothingLostSilently` |

The first group is about definitions that the runs check by name. The components'
properties are conjuncts of what `MCRunner` and `MCServer` check (`CommandsAreTrue`,
`FilesAreKept`, `WritesAreTrue`, `SettledStays`).

**The invariant.** `TypeOK` alone is not inductive: a new delivery's sequence
counts the messages of a thread, the end of a run looks up the thread of its
message, and a proposal's generation is read from that thread's workspace. The
inductive invariant `Typed` (`ThreadStore_proofs`) adds `References`: accepted
messages have a thread, question, Git and command rows have a run that exists
(the foreign keys), and a run exists exactly for messages that are `plain` or
`started`. There is one lemma per transaction, lemmas for the parts that several
share (`StartNext`, `EndRun`, `InvalidateApprovals`, `CancelQuestions`, ...), and
`NextTyped` puts them together.

**The refinement.** `OneActiveRun` and the admission limit are not proved on
the tables but on `RunLifecycle`, where the reason is visible. Its invariant
`Safe` says that one run works on a thread, that it works for a live thread and
that the admission limit holds; the last needs that a hand-over ends one run
before it starts another (`RunLifecycle_proofs`, counting with
`FS_AddElement` and `FS_RemoveElement`). `StepKeepsPromise` proves the three
action properties from `Safe`. `ThreadLifecycle_proofs` then shows that every
transaction is a step of `RunLifecycle` or leaves its variables alone, one lemma
per transaction, and carries the results over through the mapping.

**What is over** (second part of `ThreadLifecycle_proofs`). That a
deleted thread has no active run is in `Safe`. That it has no write in flight
needs `InFlightLive` beside it: a write in flight belongs to a live thread. Only
`ClaimWrite` puts one in flight, and it needs an active run, which `Safe` gives
a live thread; only `DeleteThread` and `PurgeThread` end a thread's life, and
both wait for its writes; every other transaction leaves threads and messages as
they are (`WorkTakesNothing`, read off the abstract steps). For
`ReplacedAttemptsStayOut`, `OnlyClaimsMakeOwners` goes through all transactions:
only a claim gives a run an owner, and a claim refuses an attempt that claimed
before.

**What is asked and what is written** (its third part). None of
`AskedInOrder` and `GitWritesAreSafe` is inductive: that cancelling withdraws
what is open needs that what is open is *found*, so the invariant says for every
row what the properties say for every run. `Questions`: a pending question is
the only one of its run, the run knows that it waits and was not stopped, and a
handoff has the browser with the user. `Operations`: the same for proposals,
nothing undispatched belongs to a stopped run, an approval in force is of the
current generation, one write is in flight, and what was written was approved.
Most transactions keep what these read (`Stays`, `Kept`, `Exists` say what of a
run they keep), so one lemma each for the transactions that ask, answer, decide,
claim and end is enough. `AttachmentsBound` is inductive with `Typed`.

**Sessions** (`ThreadSessions_proofs`). `ConsumedExactlyOnce` speaks of the
saved session, but the entry comes from the memory of an attempt. The invariant
`Sessions` ties the two together: a steer names a run of its thread and model
(`SteersJoin`); an owner claimed, and only a claimant opens a session
(`Tokens`); what the owner holds in memory is what is saved (`HeldIsSaved`); what
the owner was offered still waits, with the text it was offered with, each
message once (`Offers`); and a consumed steer is in its run's saved session at
one place, which names no other message (`OnceRead`). `HeldIsSaved` fails for an
attempt that lost the run and that is why a save by it must be refused. A save
writes whatever list the SDK hands it over the one before: of a compaction or a
replaced session only this is assumed, that what a user said stays in the list
once (`RewrittenAt`). For
`QueueIsFifo` the ranks of a thread's messages must be different and below their
number (`Ranked`, counted with the cardinalities of
`FiniteSetTheorems`): then only the first waiting message of a thread starts.

**Commands** (at the end of `ThreadSessions_proofs`). The invariant `Commands` has four parts
about the commands in flight in one workspace: two of them are reads on
different slots (`SideBySide`); all are of one run, sent by one attempt, which
owns it (`OneSender`); what is unsettled is of the current generation
(`OpenIsCurrent`) and its workspace is neither paused nor deleted
(`OpenIsRunning`). That it is all one attempt's rests on two transactions: an
admission refuses beside what another run or attempt has in flight, and a claim
refuses while anything of its run is, which with `OpenIsCurrent` is anything at
all (what is of an older generation was settled by the reset). `CommandsKept`
covers the transactions that only settle.

**The workflow** (`ThreadWorkflow_proofs`). `Driven` conjoins the store's
`Typed`, the lifecycle's `Safe`, `Workflows`, `Requested` and
`ActiveRunIsDriven`. `Workflows` says of each thread's workflow that it has an
active run exactly where its program counter is at work on one (`ActivePc`),
that the runs it carries exist and are of its thread (`OwnRuns`), and that from
the preparation to the end of the session the workspace runs with no transition
due (`Place`). `Requested`: only runs are requested, of their own thread's
workflow. An active run is then driven after every step: a step of the store
that activates one leaves its request in the outbox (`Advances`), a delivery
moves it to the workflow's queue, and a step of the workflow drops a run only
when it has ended (`GoesOn`). `SessionsHaveWorkspaces` reads off `Place`.
`WorkflowsRunOnTheStore` is the refinement: the workflow adds guards and
variables of its own, and `OwnRuns` shows that what it calls the store with is
in the store's domains.

**The guest** (`GuestCommands_proofs`). `Rows` ties together what a row says, how
far the call of the coordinator is, the script's journal and its body. That a
body is started once needs no lock of the workspace: its script writes "pending"
only where the journal is empty, and starts the body under the journal's own
lock (`Journals`, `Scripts`: `starts` is 1 exactly if there is a body, and the
holder of the journal is alone). That an outcome is the body's needs that
nothing left the coordinator before its row was dispatched (`CallsAndRows`:
`Untouched`), and that what an attempt listed has not gone back to the queue
(`Listed`). Neither uses that one attempt works at a time, so both hold beside a
superseded attempt. `WorkspaceIsExclusive` does: `Owned` adds that one attempt
lives (`OneLive`), that nobody settles what a preparing attempt has listed
(`ListedStays`), and that a settled command ended in the guest or never left
(`SettledEnded`). `ListedStays` is what fails without `LockKept`: a row read
earlier is retired while another attempt dispatches it (section 4).

**The broker** (`GitBroker_proofs`). `OutcomeIsTrue` is not inductive: an outcome
is recorded by a call, from what the call learned before. `Broker` therefore says
what each call knows (`CallsKnow`: who writes has claimed, and nothing has left
yet) and what it is about to record (`OutcomesKnown`); that at most one call of
an operation may dispatch it (`OneDispatcher`), because only the claim sets
`dispatch` and it needs "not started"; that what left was dispatched and counted
(`Sent`), that an inspection finds only what arrived (`Arrived`), and that one
operation is unsettled at a time (`OnePending`, the guard of the claim). In an
empty repository the inspection of a branch is answered 409, which the
dispatching call takes for a refusal of the write (section 4); `Broker` says that this is the only
way to a false outcome, by the disjuncts `EmptyRepository`.

**The files of a workspace** (`WorkspaceFiles_proofs`). Lemmas `...Does` say field
by field what each action writes. On them stand three layers, each as strong as
the faults allow. `Safe`: types, which job is at which step (`Fits`) and
`CleanupSparesRuns` itself, which is inductive with them because a clean-up
checks the run under the row's lock and a run changes only while the row is free.
`One`, while the database keeps the locks: everyone but the holder is idle or
waits to quarantine (`LockHeld`), one sandbox is running or one container is there
(`Boxes`), and each activity knows where the row and the sandbox are (`Knows`: at
"create" none is left, at "claim" the row names the used one, at "record" of a
pause nothing runs). `OthersSleep` then reduces every step to the one activity
that takes it. `Whole`, in Modal without further faults: the sandbox that the row
names, and each one that runs, has all that was written in the generation, unless
an activity is about to record that it replaces it (`Kept`); a run that is
prepared has a sandbox that can be used (`Prepared`); and each activity carries
on with what it found (`Carries`). It shows that a restored sandbox comes from a
snapshot of the current generation and that every other one is recorded as a new
generation before an attempt works in it. `Kept` needs `Closed`: a deletion
removes the sandbox but not the generation, and nobody prepares afterwards,
because `deleting` is final and needs a thread without a run. With faults
`Whole` fails, and the theorem rests on `Inherited`, which needs none of them
excluded: the sandbox the row names has what was written (`Named`), nothing is
written in a later generation yet, files of a sandbox only grow, and a restored
one has those of the one it was made from, which never runs again (`Lineage`).
It is kept until the row names a sandbox that does not descend from the one
before, or a lock is lost; so files are lost there and nowhere else. Two
steps of the model were corrected for this proof: an execution that asks for a
new preparation makes a *prepared* run active again, and no other; and a container
is started only if it is there.

**Only model-checked.** Liveness under fairness (`RunsEnd`, `WaitingRunsEnd`,
`WorkEnds`, `NothingWaitsForever`) and whatever speaks of ENABLED are outside
the prover's reach, and so is induction over data: what the folds of
`CommandOutcomes`, the walks of `RemoteResources` and `GithubReads` and the
projection of `ThreadTranscript` compute for every input. Of the composites that
`MCRunner` and `MCServer` check, the parts that speak of the other components
(attachments, checkout, session and its format, counts, skills, tokens, script,
web tools; onboarding, titles, feed, submission, panels, gateway, lists) are
model-checked. `TakeoverIsKnown`, which names the places where the row takes over
another sandbox, is checked by TLC only. `NothingLostSilently` is false of the
code when a snapshot expires or the lock is lost, and in Docker when a
quarantined container was removed and the attempt to replace it fails: the
generation stays, the files are gone (section 4). It is claimed without the
exceptions of `LostByTakeover` only where no such fault occurs.

## 6. The plan

Done: the store and its lifecycle refinement, the workflow, the components of
runner, server, page and gateway, and the proofs above. Next, in this order:

1. **Proofs of further components**: `PiSession` (`ResultsAreRecorded`,
   `EachSteerOnce`) with an invariant over the writer's queue and the SDK session;
   `Attachments` over rows and objects; `ClientSubmission`.
2. **Lock loss in the workflow** (`activity-scope.ts`): heartbeat, lost lock and
   `CHECKPOINT_OWNERSHIP_LOST`, and a dispatcher that holds a batch while a
   thread is purged: the two hazards without a property.
3. **Continue-as-new** and the cancellation of the whole workflow.
