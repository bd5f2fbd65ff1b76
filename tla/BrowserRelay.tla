---------------------------- MODULE BrowserRelay ----------------------------
(***************************************************************************)
(* The gateway's relay between agent-browser in a sandbox and the hosted   *)
(* browser of its thread: apps/gateway/src/cdp.ts and bridge.ts.           *)
(*                                                                         *)
(* A connection knows the owner from its last poll.  epoch counts what a   *)
(* poll may find changed, so that a poll can be told to be later than it.  *)
(***************************************************************************)
EXTENDS Integers, Sequences, FiniteSetsExt

CONSTANTS
  Conn,       \* the sockets of the agent
  Poll,       \* polls that a connection may have under way
  MaxChanges, MaxUp   \* bounds: changes of the thread, messages from the browser

BrowserRelayAssumption == {MaxChanges, MaxUp} \subseteq Nat

VARIABLES
  owner,      \* thread.browserOwner
  valid,      \* the capability: unexpired, and its workspace runs
  expired,
  epoch,      \* changes of owner and valid so far
  conn,       \* the bridges
  poll,       \* the polls of each connection
  quiet       \* the relay marks the agent as active

vars == << owner, valid, expired, epoch, conn, poll, quiet >>

\* client and upstream are sockets; sure is the epoch of the latest poll that
\* ended; up, pending and got are the browser's messages sent, queued, received.
NoConn == [at |-> "none", upstream |-> FALSE, owner |-> "agent", sure |-> 0,
           up |-> 0, pending |-> << >>, got |-> << >>]
NoPoll == [at |-> "none", since |-> 0, owner |-> "agent"]

Init ==
  /\ owner = "agent" /\ valid = TRUE /\ expired = FALSE /\ epoch = 0
  /\ conn = [c \in Conn |-> NoConn]
  /\ poll = [c \in Conn |-> [p \in Poll |-> NoPoll]]
  /\ quiet = FALSE

(***************************************************************************)
(* The thread.                                                             *)
(***************************************************************************)
Changes == epoch < MaxChanges /\ epoch' = epoch + 1

\* changeBrowserOwner
Hand(to) ==
  /\ owner # to /\ Changes
  /\ owner' = to
  /\ UNCHANGED << valid, expired, conn, poll, quiet >>

\* The workspace pauses or is replaced, wakes at its generation, or the
\* capability expires.
Turn ==
  /\ Changes /\ ~expired
  /\ valid' = ~valid
  /\ expired' \in IF valid THEN BOOLEAN ELSE {FALSE}
  /\ UNCHANGED << owner, conn, poll, quiet >>

(***************************************************************************)
(* A connection: the capability is checked, then the owner read, the       *)
(* browser dialled, the client let in.  Polls begin when the browser has   *)
(* answered.                                                               *)
(***************************************************************************)
Connect(c) ==
  /\ conn[c].at = "none" /\ valid
  /\ conn' = [conn EXCEPT ![c] = [NoConn EXCEPT !.at = "checked", !.sure = epoch]]
  /\ UNCHANGED << owner, valid, expired, epoch, poll, quiet >>

\* Read after the check: the thread may have changed hands in between.
FirstOwner(c) ==
  /\ conn[c].at = "checked"
  /\ conn' = [conn EXCEPT ![c].at = "dialling", ![c].owner = owner]
  /\ UNCHANGED << owner, valid, expired, epoch, poll, quiet >>

\* openUpstream: null unless the socket opens in time.
Dialled(c) ==
  /\ conn[c].at = "dialling"
  /\ \/ conn' = [conn EXCEPT ![c].at = "upgrading", ![c].upstream = TRUE]
     \/ conn' = [conn EXCEPT ![c].at = "closed"]
  /\ UNCHANGED << owner, valid, expired, epoch, poll, quiet >>

Flushed(c) == conn[c].got \o conn[c].pending

\* bridgeHandlers.open
Open(c) ==
  /\ conn[c].at = "upgrading"
  /\ conn' = [conn EXCEPT ![c].at = IF conn[c].upstream THEN "open" ELSE "closed",
                          ![c].pending = << >>, ![c].got = Flushed(c)]
  /\ UNCHANGED << owner, valid, expired, epoch, poll, quiet >>

\* The upgrade fails, or either side closes: the other is closed, and the timer.
Close(c) ==
  /\ conn[c].at \in {"upgrading", "open"}
  /\ conn' = [conn EXCEPT ![c].at = "closed", ![c].upstream = FALSE]
  /\ UNCHANGED << owner, valid, expired, epoch, poll, quiet >>

\* The browser closes before the client is there.
UpstreamCloses(c) ==
  /\ conn[c].at = "upgrading" /\ conn[c].upstream
  /\ conn' = [conn EXCEPT ![c].upstream = FALSE]
  /\ UNCHANGED << owner, valid, expired, epoch, poll, quiet >>

(***************************************************************************)
(* Messages.                                                               *)
(***************************************************************************)
FromBrowser(c) ==
  /\ conn[c].upstream /\ conn[c].up < MaxUp
  /\ conn' = [conn EXCEPT ![c].up = @ + 1,
                          ![c].pending = IF conn[c].at = "open" THEN @ ELSE Append(@, conn[c].up + 1),
                          ![c].got = IF conn[c].at = "open" THEN Append(@, conn[c].up + 1) ELSE @]
  /\ UNCHANGED << owner, valid, expired, epoch, poll, quiet >>

\* A command of the agent goes through, and marks it active, or is answered with
\* an error.
Forwards(c) == conn[c].at = "open" /\ conn[c].upstream /\ conn[c].owner = "agent"

Command(c) ==
  /\ Forwards(c)
  /\ quiet' = TRUE
  /\ UNCHANGED << owner, valid, expired, epoch, conn, poll >>

Quiet ==
  /\ quiet
  /\ quiet' = FALSE
  /\ UNCHANGED << owner, valid, expired, epoch, conn, poll >>

(***************************************************************************)
(* A poll.                                                                 *)
(***************************************************************************)
Alone(c) == \A p \in Poll : poll[c][p].at = "none"

Begin(c, p) ==
  /\ conn[c].at \in {"upgrading", "open"} /\ poll[c][p].at = "none"
  /\ Alone(c)
  /\ poll' = [poll EXCEPT ![c][p] = [NoPoll EXCEPT !.at = "check", !.since = epoch]]
  /\ UNCHANGED << owner, valid, expired, epoch, conn, quiet >>

Later(c, p) == Max({conn[c].sure, poll[c][p].since})

\* 4001: the upstream's close closes the client.
Check(c, p) ==
  /\ poll[c][p].at = "check"
  /\ IF valid
     THEN poll' = [poll EXCEPT ![c][p].at = "read"] /\ UNCHANGED conn
     ELSE /\ poll' = [poll EXCEPT ![c][p] = NoPoll]
          /\ conn' = [conn EXCEPT ![c].upstream = FALSE, ![c].sure = Later(c, p),
                                  ![c].at = IF @ = "open" THEN "closed" ELSE @]
  /\ UNCHANGED << owner, valid, expired, epoch, quiet >>

ReadOwner(c, p) ==
  /\ poll[c][p].at = "read"
  /\ poll' = [poll EXCEPT ![c][p].at = "answer", ![c][p].owner = owner]
  /\ UNCHANGED << owner, valid, expired, epoch, conn, quiet >>

Ended(c, p, known) ==
  /\ poll' = [poll EXCEPT ![c][p] = NoPoll]
  /\ conn' = [conn EXCEPT ![c].owner = known, ![c].sure = Later(c, p)]
  /\ UNCHANGED << owner, valid, expired, epoch, quiet >>

Answer(c, p) == poll[c][p].at = "answer" /\ Ended(c, p, poll[c][p].owner)

\* (fault) a failed read leaves the owner as it was known
KeepsOwner(c) == conn[c].owner

\* "A failed ownership read must not leave agent input enabled."
FailedOwner(c) == "user"

Fail(c, p) == poll[c][p].at # "none" /\ Ended(c, p, FailedOwner(c))

Next ==
  \/ \E to \in {"agent", "user"} : Hand(to)
  \/ Turn \/ Quiet
  \/ \E c \in Conn :
       \/ Connect(c) \/ FirstOwner(c) \/ Dialled(c) \/ Open(c) \/ Close(c) \/ UpstreamCloses(c)
       \/ FromBrowser(c) \/ Command(c)
       \/ \E p \in Poll :
            Begin(c, p) \/ Check(c, p) \/ ReadOwner(c, p) \/ Answer(c, p) \/ Fail(c, p)

Spec == Init /\ [][Next]_vars

-----------------------------------------------------------------------------
TypeOK ==
  /\ owner \in {"agent", "user"} /\ valid \in BOOLEAN /\ epoch \in 0 .. MaxChanges
  /\ \A c \in Conn :
       /\ conn[c].at \in {"none", "checked", "dialling", "upgrading", "open", "closed"}
       /\ conn[c].owner \in {"agent", "user"} /\ conn[c].sure \in 0 .. epoch

\* Once a poll that began after the user took the browser, or after the
\* capability lost its force, has ended or failed, no command of the agent
\* reaches the browser; earlier answers change nothing of that.
UserIsAlone ==
  \A c \in Conn :
    (conn[c].sure = epoch /\ (owner = "user" \/ ~valid)) => ~Forwards(c)

\* The agent receives what the browser sends, in order and from the first
\* message, though the browser may speak before the agent's socket is open.
NothingMissed ==
  \A c \in Conn :
    conn[c].at = "open" => conn[c].got = [k \in 1 .. conn[c].up |-> k]
=============================================================================
