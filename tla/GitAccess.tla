----------------------------- MODULE GitAccess ------------------------------
(***************************************************************************)
(* The credentials the Git broker hands to the attempts of a run: a token  *)
(* for reads in the guest's Git configuration, renewed before commands,    *)
(* and one for each bundle that is uploaded and prepared for a push.  The  *)
(* broker signs them for an attempt and checks at each use that it still   *)
(* owns the run.  The unit of time is the five minutes of Margin.          *)
(***************************************************************************)
EXTENDS Integers, FiniteSets, FiniteSetsExt

CONSTANTS
  Attempts,  \* attempts of the run, 1 .. Attempts: the later ones supersede
  Caller,    \* the tools of an attempt that run at a time
  Life,      \* of a read token
  Margin,    \* what a command must find left of it
  WriteTime, \* bound: a token is in the guest that long after it was signed
  MaxTime,
  Id,        \* uploads
  Free, Least,  \* units of disk, and how many must stay free
  Limit      \* the size of a bundle, and of a bundle with its repository

AccessAssumption ==
  /\ Attempts \in Nat \ {0} /\ Margin \in Nat \ {0} /\ WriteTime \in 0 .. Life - Margin - 1 /\ MaxTime \in Nat
  /\ Least \in Nat /\ Limit \in Nat /\ Free >= Least

Try == 1 .. Attempts

VARIABLES
  now, owner, over,
  guest,      \* the token in the guest: [of, expires]
  known,      \* [Try -> when the attempt believes that its token expires]
  refreshing, \* [Try -> "no", "access" or "write"]: shared by its tools
  got,        \* [Try -> what the broker answered]
  tool,       \* [Try -> [Caller -> [pc, since]]]
  upload,     \* [Id -> [of, expires, state, exported, holds, size]]
  tampered    \* history: a bundle changed after it was prepared

accessVars == << guest, known, refreshing, got, tool >>
vars == << now, owner, over, accessVars, upload, tampered >>

NoTool == [pc |-> "idle", since |-> 0]
NoUpload == [of |-> 0, expires |-> 0, state |-> "none", holds |-> "nothing", size |-> 0]

TypeOK ==
  /\ now \in 0 .. MaxTime /\ owner \in Try /\ over \in BOOLEAN
  /\ guest \in [of : 0 .. Attempts, expires : 0 .. MaxTime + Life]
  /\ known \in [Try -> 0 .. MaxTime + Life] /\ got \in [Try -> 0 .. MaxTime + Life]
  /\ refreshing \in [Try -> {"no", "access", "write"}]
  /\ \A a \in Try, c \in Caller :
       tool[a][c].pc \in {"idle", "await", "command"} /\ tool[a][c].since \in 0 .. MaxTime
  /\ \A i \in Id :
       /\ upload[i].state \in {"none", "issued", "open", "there", "preparing", "prepared"}
       /\ upload[i].holds \in {"nothing", "own", "other"} /\ upload[i].size \in 0 .. Limit

Init ==
  /\ now = 0 /\ owner = 1 /\ over = FALSE
  /\ guest = [of |-> 0, expires |-> 0]
  /\ known = [a \in Try |-> 0] /\ got = [a \in Try |-> 0]
  /\ refreshing = [a \in Try |-> "no"]
  /\ tool = [a \in Try |-> [c \in Caller |-> NoTool]]
  /\ upload = [i \in Id |-> NoUpload] /\ tampered = FALSE

Tick ==
  /\ now < MaxTime /\ now' = now + 1
  /\ \A a \in Try : refreshing[a] = "write" => now' <= got[a] - Life + WriteTime
  /\ UNCHANGED << owner, over, accessVars, upload, tampered >>

\* Another attempt takes the run over, or the run ends or is cancelled.
Supersede ==
  /\ owner < Attempts /\ ~over /\ owner' = owner + 1
  /\ UNCHANGED << now, over, accessVars, upload, tampered >>

EndRun ==
  /\ ~over /\ over' = TRUE
  /\ UNCHANGED << now, owner, accessVars, upload, tampered >>

\* checkedContext: the attempt owns a run that goes on.
Current(a) == a = owner /\ ~over

-----------------------------------------------------------------------------
(* The token for reads *)

\* (fault) the token is used until it has expired
DueLate(a) == known[a] <= now

\* The token is renewed when it has not more than the margin left; one renewal
\* serves every tool that waits.
Due(a) == known[a] - now <= Margin

Call(a, c) ==
  /\ a <= owner /\ tool[a][c].pc = "idle"
  /\ IF refreshing[a] # "no" \/ Due(a)
     THEN /\ refreshing' = [refreshing EXCEPT ![a] = IF @ = "no" THEN "access" ELSE @]
          /\ tool' = [tool EXCEPT ![a][c].pc = "await"]
     ELSE /\ tool' = [tool EXCEPT ![a][c] = [pc |-> "command", since |-> now]]
          /\ UNCHANGED refreshing
  /\ UNCHANGED << now, owner, over, guest, known, got, upload, tampered >>

\* What the tools of a do after the renewal that they awaited.
Settled(a, c) ==
  IF tool[a][c].pc # "await" THEN tool[a][c]
  ELSE [pc |-> "command", since |-> now]
Failed(a, c) == IF tool[a][c].pc = "await" THEN NoTool ELSE tool[a][c]

Access(a) ==
  /\ refreshing[a] = "access" /\ Current(a)
  /\ got' = [got EXCEPT ![a] = now + Life]
  /\ refreshing' = [refreshing EXCEPT ![a] = "write"]
  /\ UNCHANGED << now, owner, over, guest, known, tool, upload, tampered >>

\* The configuration is written by a command of the attempt, which the
\* coordinator refuses to one that was superseded.
WriteConfig(a) ==
  /\ refreshing[a] = "write" /\ Current(a)
  /\ guest' = [of |-> a, expires |-> got[a]]
  /\ known' = [known EXCEPT ![a] = got[a]]
  /\ refreshing' = [refreshing EXCEPT ![a] = "no"]
  /\ tool' = [tool EXCEPT ![a] = [c \in Caller |-> Settled(a, c)]]
  /\ UNCHANGED << now, owner, over, got, upload, tampered >>

\* The broker or the command refuses, fails, or its answer is lost.
RenewalFails(a) ==
  /\ refreshing[a] # "no"
  /\ refreshing' = [refreshing EXCEPT ![a] = "no"]
  /\ tool' = [tool EXCEPT ![a] = [c \in Caller |-> Failed(a, c)]]
  /\ \/ UNCHANGED guest
     \/ refreshing[a] = "write" /\ Current(a) /\ guest' = [of |-> a, expires |-> got[a]]
  /\ UNCHANGED << now, owner, over, known, got, upload, tampered >>

Return(a, c) ==
  /\ tool[a][c].pc = "command"
  /\ tool' = [tool EXCEPT ![a][c] = NoTool]
  /\ UNCHANGED << now, owner, over, guest, known, refreshing, got, upload, tampered >>

\* What /git/read answers to a fetch of the guest.
Serves == guest.expires > now /\ guest.of # 0 /\ Current(guest.of)

-----------------------------------------------------------------------------
(* Bundles *)

Set(i, u) == upload' = [upload EXCEPT ![i] = u]

Jobs  == {i \in Id : upload[i].state \in {"open", "preparing"}}
Left  == Free - MapThenSumSet(LAMBDA i : upload[i].size, Id)

\* withSpace: room for every job that runs and this one, twice the limit each.
HasRoom == Left >= 2 * Limit * (Cardinality(Jobs) + 1) + Least

\* A push asks for an identifier and a token, good for five minutes and one use.
Issue(a, i) ==
  /\ Current(a) /\ upload[i].state = "none" /\ upload[i].of = 0
  /\ \E c \in Caller : tool[a][c].pc = "command"
  /\ Set(i, [NoUpload EXCEPT !.of = a, !.expires = now + 1, !.state = "issued"])
  /\ UNCHANGED << now, owner, over, accessVars, tampered >>

\* The directory of the upload must not exist: a second use of its token, while
\* the first one is received or after it, is refused and changes nothing.
Takes(i) == upload[i].state = "issued"

Post(i) ==
  /\ upload[i].state # "none" /\ upload[i].expires > now /\ Current(upload[i].of)
  /\ Takes(i) /\ HasRoom
  /\ \E what \in {"own", "other"} :
       /\ Set(i, [upload[i] EXCEPT !.state = "open", !.holds = what, !.size = 0])
       /\ tampered' = (tampered \/ upload[i].state \in {"preparing", "prepared"})
  /\ UNCHANGED << now, owner, over, accessVars >>

Receive(i) ==
  /\ upload[i].state \in {"open", "preparing"} /\ upload[i].size < Limit
  /\ Set(i, [upload[i] EXCEPT !.size = @ + 1])
  /\ UNCHANGED << now, owner, over, accessVars, tampered >>

Received(i) ==
  /\ upload[i].state = "open"
  /\ Set(i, [upload[i] EXCEPT !.state = "there"])
  /\ UNCHANGED << now, owner, over, accessVars, tampered >>

\* The connection breaks or the bundle is too large: its directory is removed.
Broken(i) ==
  /\ upload[i].state = "open"
  /\ Set(i, [upload[i] EXCEPT !.state = "issued", !.holds = "nothing", !.size = 0])
  /\ UNCHANGED << now, owner, over, accessVars, tampered >>

Prepare(i) ==
  /\ Current(upload[i].of) /\ upload[i].state = "there" /\ HasRoom
  /\ Set(i, [upload[i] EXCEPT !.state = "preparing"])
  /\ UNCHANGED << now, owner, over, accessVars, tampered >>

\* The bundle holds the one commit that was exported under this identifier.
Verified(i) == upload[i].holds = "own"

Prepared(i) ==
  /\ upload[i].state = "preparing"
  /\ Set(i, [upload[i] EXCEPT !.state = IF Verified(i) THEN "prepared" ELSE "there"])
  /\ UNCHANGED << now, owner, over, accessVars, tampered >>

Next ==
  \/ Tick \/ Supersede \/ EndRun
  \/ \E a \in Try :
       \/ Access(a) \/ WriteConfig(a) \/ RenewalFails(a)
       \/ \E c \in Caller : Call(a, c) \/ Return(a, c)
       \/ \E i \in Id : Issue(a, i)
  \/ \E i \in Id : Post(i) \/ Receive(i) \/ Received(i) \/ Broken(i) \/ Prepare(i) \/ Prepared(i)

-----------------------------------------------------------------------------
(* Properties *)

\* For five minutes a command of the attempt that owns the run finds a token that
\* the broker accepts, whatever other attempts did before and however the
\* renewals of its tools overlap.
OwnerIsServed ==
  \A a \in Try, c \in Caller :
    Current(a) /\ tool[a][c].pc = "command" /\ now - tool[a][c].since <= Margin => Serves

\* No more is put in place of the guest's token by an attempt that lost the run.
TokenIsOfOwner == [][guest' # guest => guest'.of = owner /\ ~over]_vars

\* What was prepared for a push is what its attempt exported, and a second upload
\* with the same token cannot change it.
BundleIsExported ==
  ~tampered /\ \A i \in Id : upload[i].state = "prepared" => upload[i].holds = "own"

\* Bundles that arrive at the same time leave the disk its reserve.
ReserveIsKept == Left >= Least
=============================================================================
