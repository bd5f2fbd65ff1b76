----------------------------- MODULE Onboarding -----------------------------
(***************************************************************************)
(* What lets an account start tasks (db/onboarding.ts,                     *)
(* db/model-credentials.ts, routers/onboarding.ts, routers/models.ts): the *)
(* stored model credentials, the completion flag of the user's row, the    *)
(* installations that GitHub reports, and the device logins of one server. *)
(* Requests run beside each other; transactions hold the advisory lock of  *)
(* a provider and the user's row while they do.                            *)
(***************************************************************************)
EXTENDS Integers, FiniteSets

CONSTANTS
  Provider, Device,   \* the model providers; the one with a device login
  Installations,      \* the most installations GitHub lists
  Pages,              \* how many of them a readiness check may page through
  Request, Flow,
  Operations,         \* what the requests do
  Changes,            \* what happens to an installation
  MaxChanges,         \* bound on these
  None

OnboardingAssumption ==
  /\ Device \in Provider /\ {Installations, Pages, MaxChanges} \subseteq Nat
  /\ Operations \subseteq {"status", "complete", "save", "delete", "login"}
  /\ Changes \subseteq {"grant", "revoke"}

VARIABLES
  stored,      \* the providers with a credential
  completed,   \* user.onboardingCompleted
  github,      \* what a check finds in each installation that is listed
  request,
  holder,      \* of each provider's advisory lock
  owner,       \* the request that holds the user's row
  flow, login, \* the device logins, and the one the server remembers
  aborted,     \* the flows whose signal is aborted
  source,      \* the flow whose credential is stored
  void,        \* the flows that a finished deletion cancelled
  lost,        \* history: the requests during which no installation was eligible,
  passed,      \* and those that had passed an installation when it became eligible
  changes

vars == << stored, completed, github, request, holder, owner, flow, login, aborted,
           source, void, lost, passed, changes >>

Installation == DOMAIN github
\* A repository is on the pages that are read, or only beyond them.
Eligible == {"readable", "hidden"}
\* "empty" is also one that is suspended, or another App's.
States == Eligible \cup {"empty"}
NewRequest == [op |-> "none", provider |-> None, at |-> "new", next |-> 1, seen |-> None]
Active == {"starting", "pending", "exchanged", "locked", "writing"}

TypeOK ==
  /\ stored \subseteq Provider /\ completed \in BOOLEAN
  /\ github \in UNION {[1 .. n -> States] : n \in 0 .. Installations}
  /\ \A r \in Request :
       /\ request[r].op \in Operations \cup {"none"}
       /\ request[r].next \in 1 .. Installations + 1
       /\ request[r].at \in {"new", "begin", "check", "ready", "absent", "provider", "user",
                             "commit", "limit", "wait", "done"}
  /\ \A p \in Provider : holder[p] = None \/
       \/ holder[p] \in Flow /\ p = Device /\ flow[holder[p]] \in {"locked", "writing"}
       \/ holder[p] \in Request /\ request[holder[p]].provider = p
                                /\ request[holder[p]].at \in {"user", "commit"}
  /\ owner \in Request \cup {None}
  /\ owner # None => request[owner].at = "commit"
  /\ flow \in [Flow -> Active \cup {"none", "young", "ended"}]
  /\ login \in Flow \cup {None} /\ aborted \subseteq Flow
  /\ source \in Flow \cup {None} /\ void \subseteq aborted
  /\ lost \cup passed \subseteq Request /\ changes \in 0 .. MaxChanges

Init ==
  /\ stored \in SUBSET Provider /\ completed \in {FALSE, stored # {}}
  /\ github \in UNION {[1 .. n -> States] : n \in 0 .. Installations}
  /\ request = [r \in Request |-> NewRequest]
  /\ holder = [p \in Provider |-> None] /\ owner = None
  /\ flow = [f \in Flow |-> "none"] /\ login = None /\ aborted = {}
  /\ source = None /\ void = {} /\ lost = {} /\ passed = {}
  /\ changes = 0

HasAccess(state) == \E i \in DOMAIN state : state[i] \in Eligible
Checking == {r \in Request : request[r].at = "check"}
Step(r, at) == request' = [request EXCEPT ![r].at = at]
Is(r, op, at) == request[r].op = op /\ request[r].at = at

KeepLogins == UNCHANGED << flow, login, aborted, source, void >>
KeepLocks == UNCHANGED << holder, owner >>

Begin(r) ==
  /\ request[r].at = "new"
  /\ \E op \in Operations, p \in Provider :
       /\ op = "save" => p # Device
       /\ op \notin {"save", "delete"} => p = Device
       /\ request' = [request EXCEPT ![r] = [NewRequest EXCEPT
            !.op = op, !.at = "begin", !.provider = IF op \in {"save", "delete"} THEN p ELSE None]]
  /\ UNCHANGED << stored, completed, github, lost, passed, changes >> /\ KeepLocks /\ KeepLogins

-----------------------------------------------------------------------------
(* GitHub readiness: one installation after the other, never all at once *)

Change ==
  /\ changes < MaxChanges
  /\ \E i \in Installation, state \in {"readable", "empty"} :
       /\ github[i] # state
       /\ IF state = "readable" THEN "grant" \in Changes ELSE "revoke" \in Changes
       /\ github' = [github EXCEPT ![i] = state]
       /\ lost' = IF HasAccess(github') THEN lost ELSE lost \cup Checking
       /\ passed' = IF state = "empty" THEN passed
                    ELSE passed \cup {r \in Checking : i < request[r].next}
  /\ changes' = changes + 1
  /\ UNCHANGED << stored, completed, request >> /\ KeepLocks /\ KeepLogins

Check(r) ==
  /\ request' = [request EXCEPT ![r].at = "check", ![r].next = 1]
  /\ lost' = IF HasAccess(github) THEN lost ELSE lost \cup {r}
  /\ UNCHANGED passed

\* GET /api/onboarding; what it only reports is left out.
ReadState(r) ==
  /\ Is(r, "status", "begin")
  /\ IF completed THEN Check(r) ELSE Step(r, "done") /\ UNCHANGED << lost, passed >>
  /\ UNCHANGED << stored, completed, github, changes >> /\ KeepLocks /\ KeepLogins

BeginComplete(r) ==
  /\ Is(r, "complete", "begin") /\ Check(r)
  /\ UNCHANGED << stored, completed, github, changes >> /\ KeepLocks /\ KeepLogins

\* An incomplete enumeration proves nothing: the request ends as transient.
Onward(n) == IF n > Cardinality(Installation) THEN "absent" ELSE IF n > Pages THEN "done" ELSE "check"

Enumerate(r) ==
  LET n == request[r].next IN
  /\ request[r].at = "check"
  /\ \/ /\ n \in Installation /\ github[n] = "readable" /\ Step(r, "ready")
     \/ /\ n \in Installation /\ github[n] = "hidden" /\ Step(r, "done")
     \/ /\ ~(n \in Installation /\ github[n] \in Eligible)
        /\ LET next == IF n \in Installation THEN n + 1 ELSE n IN
           request' = [request EXCEPT ![r].next = next, ![r].at = Onward(next)]
  /\ UNCHANGED << stored, completed, github, lost, passed, changes >> /\ KeepLocks /\ KeepLogins

\* (fault) nothing bounds a call that does not answer
NoDeadline(r) == FALSE

\* GitHub is not waited for any longer.
Deadline(r) ==
  /\ request[r].at = "check" /\ Step(r, "done")
  /\ UNCHANGED << stored, completed, github, lost, passed, changes >> /\ KeepLocks /\ KeepLogins

\* The GET is answered, or clears what it read as completed.
Clear(r) ==
  /\ request[r].op = "status" /\ request[r].at \in {"ready", "absent"} /\ owner = None
  /\ completed' = (completed /\ request[r].at = "ready")
  /\ Step(r, "done")
  /\ UNCHANGED << stored, github, lost, passed, changes >> /\ KeepLocks /\ KeepLogins

\* POST /api/onboarding/complete: providerReady, then the transaction of the store.
MayComplete(r) ==
  /\ request[r].op = "complete" /\ request[r].at \in {"ready", "absent"}
  /\ Step(r, IF request[r].at = "ready" /\ stored # {} THEN "user" ELSE "done")
  /\ UNCHANGED << stored, completed, github, lost, passed, changes >> /\ KeepLocks /\ KeepLogins

LockUser(r) ==
  /\ request[r].op = "complete" /\ request[r].at = "user" /\ owner = None
  /\ owner' = r /\ Step(r, "commit")
  /\ UNCHANGED << stored, completed, github, holder, lost, passed, changes >> /\ KeepLogins

Complete(r) ==
  /\ Is(r, "complete", "commit")
  /\ completed' = (completed \/ stored # {})
  /\ owner' = None /\ Step(r, "done")
  /\ UNCHANGED << stored, github, holder, lost, passed, changes >> /\ KeepLogins

-----------------------------------------------------------------------------
(* Credentials *)

\* cancelLogin
CancelLogin == /\ aborted' = aborted \cup ({login} \ {None})
               /\ login' = None

\* DELETE: the flow is cancelled before the transaction begins.
BeginDelete(r) ==
  /\ Is(r, "delete", "begin")
  /\ IF request[r].provider = Device THEN CancelLogin ELSE UNCHANGED << login, aborted >>
  /\ Step(r, "provider")
  /\ UNCHANGED << stored, completed, github, flow, source, void, lost, passed, changes >> /\ KeepLocks

BeginSave(r) ==
  /\ Is(r, "save", "begin") /\ Step(r, "provider")
  /\ UNCHANGED << stored, completed, github, lost, passed, changes >> /\ KeepLocks /\ KeepLogins

LockProvider(r) ==
  /\ request[r].at = "provider" /\ holder[request[r].provider] = None
  /\ holder' = [holder EXCEPT ![request[r].provider] = r]
  /\ Step(r, "user")
  /\ UNCHANGED << stored, completed, github, owner, lost, passed, changes >> /\ KeepLogins

Save(r) ==
  LET p == request[r].provider IN
  /\ Is(r, "save", "user")
  /\ stored' = stored \cup {p} /\ holder' = [holder EXCEPT ![p] = None]
  /\ Step(r, "done")
  /\ UNCHANGED << completed, github, owner, lost, passed, changes >> /\ KeepLogins

\* (fault) the user's row is not locked
DeleteUnlocked(r) ==
  LET p == request[r].provider IN
  /\ Is(r, "delete", "user")
  /\ request' = [request EXCEPT ![r].at = "commit",
                                ![r].seen = IF stored \ {p} = {} THEN "last" ELSE "more"]
  /\ UNCHANGED << stored, completed, github, holder, owner, lost, passed, changes >> /\ KeepLogins

\* The row is locked and the credentials that remain are read.
DeleteLocked(r) ==
  LET p == request[r].provider IN
  /\ Is(r, "delete", "user") /\ owner = None
  /\ owner' = r
  /\ request' = [request EXCEPT ![r].at = "commit",
                                ![r].seen = IF stored \ {p} = {} THEN "last" ELSE "more"]
  /\ UNCHANGED << stored, completed, github, holder, lost, passed, changes >> /\ KeepLogins

Delete(r) ==
  LET p == request[r].provider IN
  /\ Is(r, "delete", "commit")
  /\ stored' = stored \ {p}
  /\ completed' = (completed /\ request[r].seen = "more")
  /\ holder' = [holder EXCEPT ![p] = None] /\ owner' = IF owner = r THEN None ELSE owner
  /\ IF p = Device THEN source' = None /\ void' = aborted ELSE UNCHANGED << source, void >>
  /\ Step(r, "done")
  /\ UNCHANGED << github, flow, login, aborted, lost, passed, changes >>

-----------------------------------------------------------------------------
(* Device logins: a flow is young until a minute after it started *)

Reusable == login # None /\ flow[login] # "ended"

\* POST device-login: a flow that is pending or young is answered; otherwise the
\* limiter is awaited.
BeginLogin(r) ==
  /\ Is(r, "login", "begin")
  /\ request' = [request EXCEPT ![r].seen = login, ![r].at = IF Reusable THEN "done" ELSE "limit"]
  /\ UNCHANGED << stored, completed, github, lost, passed, changes >> /\ KeepLocks /\ KeepLogins

StartLogin(r) ==
  /\ Is(r, "login", "limit")
  /\ IF login # None /\ login # request[r].seen
     THEN Step(r, "done") /\ UNCHANGED << flow, login, aborted >>
     ELSE \E f \in Flow :
            /\ flow[f] = "none"
            /\ flow' = [flow EXCEPT ![f] = "starting"]
            /\ aborted' = aborted \cup ({login} \ {None}) /\ login' = f
            /\ request' = [request EXCEPT ![r].at = "wait", ![r].seen = f]
  /\ UNCHANGED << stored, completed, github, source, void, lost, passed, changes >> /\ KeepLocks

\* The limiter refuses.
Limited(r) ==
  /\ Is(r, "login", "limit") /\ login \in {None, request[r].seen}
  /\ Step(r, "done")
  /\ UNCHANGED << stored, completed, github, lost, passed, changes >> /\ KeepLocks /\ KeepLogins

AnswerLogin(r) ==
  /\ Is(r, "login", "wait") /\ flow[request[r].seen] # "starting"
  /\ Step(r, "done")
  /\ UNCHANGED << stored, completed, github, lost, passed, changes >> /\ KeepLocks /\ KeepLogins

Moves(f, at) == flow' = [flow EXCEPT ![f] = at]
KeepRequests == UNCHANGED << completed, github, request, owner, lost, passed, changes >>

\* The device code, and its exchange once the user approved.
Progress(f) ==
  /\ f \notin aborted
  /\ \/ flow[f] = "starting" /\ Moves(f, "pending")
     \/ flow[f] = "pending" /\ Moves(f, "exchanged")
  /\ UNCHANGED << stored, holder, login, aborted, source, void >> /\ KeepRequests

\* Thirty seconds without a code, fifteen minutes without an approval, an abort.
Fail(f) ==
  /\ flow[f] \in {"starting", "pending"} /\ Moves(f, "young")
  /\ UNCHANGED << stored, holder, login, aborted, source, void >> /\ KeepRequests

Age(f) ==
  /\ flow[f] = "young" /\ Moves(f, "ended")
  /\ UNCHANGED << stored, holder, login, aborted, source, void >> /\ KeepRequests

\* modify: the lock, and a signal that is looked at under it.
LockFlow(f) ==
  /\ flow[f] = "exchanged" /\ holder[Device] = None
  /\ IF f \in aborted THEN Moves(f, "young") /\ UNCHANGED holder
     ELSE Moves(f, "locked") /\ holder' = [holder EXCEPT ![Device] = f]
  /\ UNCHANGED << stored, login, aborted, source, void >> /\ KeepRequests

Write(f) ==
  /\ flow[f] = "locked"
  /\ IF f \in aborted THEN Moves(f, "young") /\ holder' = [holder EXCEPT ![Device] = None]
     ELSE Moves(f, "writing") /\ UNCHANGED holder
  /\ UNCHANGED << stored, login, aborted, source, void >> /\ KeepRequests

Authorize(f) ==
  /\ flow[f] = "writing" /\ Moves(f, "young")
  /\ stored' = stored \cup {Device} /\ source' = f
  /\ holder' = [holder EXCEPT ![Device] = None]
  /\ UNCHANGED << login, aborted, void >> /\ KeepRequests

\* The timer of a flow, after sixteen minutes, and the end of the server.
Forget ==
  /\ login # None /\ flow[login] = "ended" /\ CancelLogin
  /\ UNCHANGED << stored, holder, flow, source, void >> /\ KeepRequests

-----------------------------------------------------------------------------
Served(r) ==
  \/ ReadState(r) \/ BeginComplete(r) \/ Clear(r) \/ MayComplete(r) \/ LockUser(r) \/ Complete(r)
  \/ BeginDelete(r) \/ BeginSave(r) \/ LockProvider(r) \/ Save(r) \/ DeleteLocked(r) \/ Delete(r)
  \/ BeginLogin(r) \/ StartLogin(r) \/ Limited(r) \/ AnswerLogin(r)

Stored(f) == LockFlow(f) \/ Write(f) \/ Authorize(f)

Next ==
  \/ Change \/ Forget
  \/ \E r \in Request : Begin(r) \/ Enumerate(r) \/ Deadline(r) \/ Served(r)
  \/ \E f \in Flow : Progress(f) \/ Fail(f) \/ Age(f) \/ Stored(f)

Spec == Init /\ [][Next]_vars

\* The server goes on, and its timers fire; GitHub and the user need not answer.
FairSpec ==
  /\ Spec
  /\ \A r \in Request : WF_vars(Served(r)) /\ WF_vars(Deadline(r))
  /\ \A f \in Flow : WF_vars(Fail(f)) /\ WF_vars(Stored(f))

-----------------------------------------------------------------------------
\* An account that counts as set up has a credential, whatever is saved, deleted
\* and completed at the same time.
CompletedHasProvider == completed => stored # {}

\* A credential that was deleted is not restored by a login begun before.
DeletedStaysDeleted == Device \in stored => source \notin void

\* A start that comes while a login is under way answers that login: only a
\* deletion takes the code away from the page that shows it.
PendingIsKept ==
  \A f \in Flow :
    f = login /\ flow[f] \in {"starting", "pending"} /\ login' # f =>
      \E r \in Request : BeginDelete(r)

\* Completion is only cleared by a request during which GitHub really gave no
\* access: an enumeration that was cut short, or failed, is no proof.  The exception
\* is an installation that became eligible after the enumeration had passed it: the
\* check met two states of GitHub, and takes them for one.
AbsenceIsProven ==
  \A r \in Request :
    request[r].op = "status" /\ request[r].at = "absent" => r \in lost \cup passed

\* A completion that GitHub supports is not cleared by what was found before it.
NewCompletionKept ==
  [][\A r \in Request : completed /\ Clear(r) => completed' \/ ~HasAccess(github)]_vars

\* A login that failed can be started again.
FailedStartsAgain ==
  [][\A r \in Request : Is(r, "login", "begin") /\ Is(r, "login", "done")' =>
       flow[login] # "young" \/ source = login]_vars

\* Every request is answered, though GitHub and the user may never answer.
RequestsEnd == \A r \in Request : request[r].at # "new" ~> request[r].at = "done"
=============================================================================
