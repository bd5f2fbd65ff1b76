----------------------------- MODULE ThreadFeed ----------------------------
(***************************************************************************)
(* How a page follows a thread: the server streams the committed events    *)
(* (server-events.ts, GET /api/threads/:id/events), one reader per page    *)
(* reconnects from the last applied event (thread-event-reader.ts), the    *)
(* projection replays them, and the cached snapshot and question list are  *)
(* fetched again when an event makes them stale (thread-view.tsx).         *)
(*                                                                         *)
(* An event is the fact it is about, and the state of a fact is the event  *)
(* that last changed it: rows and events commit together.  The query cache *)
(* is React Query's: an invalidation restarts a fetch, or joins it as long *)
(* as the query has no data.  Streams and fetches break MaxFaults times,   *)
(* less often than the retries of a fetch allow.                           *)
(***************************************************************************)
EXTENDS Naturals, Sequences, FiniteSets, FiniteSetsExt

CONSTANTS
  Conn,            \* connections
  Fact,            \* what events are about, of "run", "question", "text"
  Limit,           \* streams one user may have
  PageSize,        \* events of one page of the server
  BatchSize,       \* events the reader applies at once
  Cold,            \* a visit starts without cached queries
  MaxLog, MaxWire, MaxVisits, MaxFaults,   \* bounds: events, frames in flight,
                   \* visits, and breaks of a stream or a fetch
  None

ThreadFeedAssumption ==
  /\ {Limit, PageSize, BatchSize, MaxLog, MaxWire, MaxVisits} \subseteq Nat \ {0}
  /\ MaxFaults \in Nat
  /\ Fact \subseteq {"run", "question", "text"} /\ Cold \in BOOLEAN

VARIABLES
  log,       \* the events of the thread
  deleted,   \* the thread is deleted
  srv,       \* the server's side of each connection
  wire,      \* frames the page has not read
  reader,    \* the page's event reader
  cursor,    \* the last event of its projection
  cache,     \* its queries
  visits,    \* how often the page was opened; it is open when reader.at # "off"
  faults     \* what broke

vars == << log, deleted, srv, wire, reader, cursor, cache, visits, faults >>

Query == {"snapshot", "questions"}

TypeOK ==
  /\ log \in Seq(Fact) /\ Len(log) <= MaxLog
  /\ \A c \in Conn :
       /\ srv[c].at \in {"off", "request", "authorize", "list", "open", "missing", "gone"}
       /\ srv[c].last <= srv[c].batch /\ srv[c].batch <= Len(log)
       /\ srv[c].slot <=> srv[c].at \in {"authorize", "list", "open"}
       /\ \A i \in DOMAIN wire[c] : wire[c][i] \in 1 .. srv[c].last
  /\ reader.at \in {"off", "connecting", "requested", "live", "waiting", "stopped"}
  /\ reader.conn \in Conn \cup {None}
  /\ reader.seen >= cursor /\ reader.seen - cursor < BatchSize /\ reader.seen <= Len(log)
  /\ \A q \in Query : cache[q].at \in {"idle", "sent", "read"} /\ cache[q].have <= Len(log)
  /\ visits \in 1 .. MaxVisits /\ faults <= MaxFaults

Closed == [at |-> "off", slot |-> FALSE, last |-> 0, batch |-> 0]

Init ==
  /\ log \in [{1} -> Fact]
  /\ deleted = FALSE
  /\ srv = [c \in Conn |-> Closed]
  /\ wire = [c \in Conn |-> << >>]
  /\ reader = [at |-> "connecting", conn |-> None, seen |-> 0]
  /\ cursor = 0
  /\ cache = [q \in Query |-> [have |-> IF Cold THEN 0 ELSE 1, at |-> "sent", got |-> 0]]
  /\ visits = 1 /\ faults = 0

Breaks == faults < MaxFaults /\ faults' = faults + 1

-----------------------------------------------------------------------------
(* The store. *)

Commit(f) ==
  /\ Len(log) < MaxLog /\ ~deleted
  /\ log' = log \o << f >>
  /\ UNCHANGED << deleted, srv, wire, reader, cursor, cache, visits, faults >>

Delete ==
  /\ ~deleted
  /\ deleted' = TRUE
  /\ UNCHANGED << log, srv, wire, reader, cursor, cache, visits, faults >>

\* The last event of a fact among the first n.
LastOf(f, n) == Max({0} \cup {i \in 1 .. n : log[i] = f})

-----------------------------------------------------------------------------
(* The server. *)

Slots == {c \in Conn : srv[c].slot}

Page(n) == Min({Len(log), n + PageSize})

\* The limit is looked at, and the slot taken, at once.
Admit(c) ==
  /\ srv[c].at = "request"
  /\ srv' = [srv EXCEPT ![c] = IF Cardinality(Slots) >= Limit THEN [@ EXCEPT !.at = "gone"]
                               ELSE [@ EXCEPT !.at = "authorize", !.slot = TRUE]]
  /\ UNCHANGED << log, deleted, wire, reader, cursor, cache, visits, faults >>

\* cleanup
Cleaned(s, at) == [s EXCEPT !.at = at, !.slot = FALSE]

Authorize(c) ==
  /\ srv[c].at = "authorize"
  /\ srv' = [srv EXCEPT ![c] = IF deleted THEN Cleaned(@, "missing") ELSE [@ EXCEPT !.at = "list"]]
  /\ UNCHANGED << log, deleted, wire, reader, cursor, cache, visits, faults >>

List(c) ==
  /\ srv[c].at = "list"
  /\ srv' = [srv EXCEPT ![c].at = "open", ![c].batch = Page(srv[c].last)]
  /\ UNCHANGED << log, deleted, wire, reader, cursor, cache, visits, faults >>

\* A write waits until the socket has drained.
Send(c) ==
  /\ srv[c].at = "open" /\ srv[c].last < srv[c].batch /\ Len(wire[c]) < MaxWire
  /\ srv' = [srv EXCEPT ![c].last = @ + 1]
  /\ wire' = [wire EXCEPT ![c] = @ \o << srv[c].last + 1 >>]
  /\ UNCHANGED << log, deleted, reader, cursor, cache, visits, faults >>

Poll(c) ==
  /\ srv[c].at = "open" /\ srv[c].last = srv[c].batch /\ Len(log) > srv[c].batch
  /\ srv' = [srv EXCEPT ![c].batch = Page(srv[c].last)]
  /\ UNCHANGED << log, deleted, wire, reader, cursor, cache, visits, faults >>

\* The socket closed, or the store did not answer.
Close(c) ==
  /\ srv[c].at \in {"authorize", "list", "open"}
  /\ IF reader.conn = c THEN Breaks ELSE UNCHANGED faults
  /\ srv' = [srv EXCEPT ![c] = Cleaned(@, "gone")]
  /\ UNCHANGED << log, deleted, wire, reader, cursor, cache, visits >>

\* Nothing refers to the connection any more: its name is free again.
Forget(c) ==
  /\ srv[c].at \in {"missing", "gone"} /\ ~srv[c].slot /\ reader.conn # c
  /\ srv' = [srv EXCEPT ![c] = Closed]
  /\ wire' = [wire EXCEPT ![c] = << >>]
  /\ UNCHANGED << log, deleted, reader, cursor, cache, visits, faults >>

-----------------------------------------------------------------------------
(* The queries. *)

\* invalidateQueries.
Fetched(q) ==
  IF cache[q].have = 0 /\ cache[q].at # "idle" THEN cache[q] ELSE [cache[q] EXCEPT !.at = "sent"]

Invalidated(qs) == [q \in Query |-> IF q \in qs THEN Fetched(q) ELSE cache[q]]

\* One transaction of the store: the rows and the number of the last event.
ReadStore(q) ==
  /\ cache[q].at = "sent" /\ ~deleted
  /\ cache' = [cache EXCEPT ![q].at = "read", ![q].got = Len(log)]
  /\ UNCHANGED << log, deleted, srv, wire, reader, cursor, visits, faults >>

Answer(q) ==
  /\ cache[q].at = "read"
  /\ cache' = [cache EXCEPT ![q] = [have |-> Max({@.have, @.got}), at |-> "idle", got |-> 0]]
  /\ UNCHANGED << log, deleted, srv, wire, reader, cursor, visits, faults >>

LoseAnswer(q) ==
  /\ cache[q].at = "read" /\ Breaks
  /\ cache' = [cache EXCEPT ![q].at = "sent", ![q].got = 0]
  /\ UNCHANGED << log, deleted, srv, wire, reader, cursor, visits >>

-----------------------------------------------------------------------------
(* The reader. *)

Watermark == cache["snapshot"].have

\* staleQueries
Stale(lo, hi) ==
  IF \E i \in lo .. hi : log[i] \in {"run", "question"} /\ i > Watermark THEN Query
  ELSE IF \E i \in lo .. hi : log[i] = "question" THEN {"questions"} ELSE {}

\* onEvents with the events that wait, and the one just read.
Apply(seen) ==
  /\ cursor' = seen
  /\ cache' = Invalidated(Stale(cursor + 1, seen))

Connect ==
  LET c == CHOOSE d \in Conn : srv[d].at = "off" IN
    /\ reader.at = "connecting" /\ \E d \in Conn : srv[d].at = "off"
    /\ reader' = [at |-> "requested", conn |-> c, seen |-> cursor]
    /\ srv' = [srv EXCEPT ![c] = [Closed EXCEPT !.at = "request", !.last = cursor, !.batch = cursor]]
    /\ UNCHANGED << log, deleted, wire, cursor, cache, visits, faults >>

\* onOpen, with onConnected.
Opened ==
  /\ reader.at = "requested" /\ srv[reader.conn].at = "open"
  /\ reader' = [reader EXCEPT !.at = "live"]
  /\ cache' = Invalidated(Query)
  /\ UNCHANGED << log, deleted, srv, wire, cursor, visits, faults >>

\* onEvent: a repeated event is skipped.
Read ==
  /\ reader.at = "live" /\ wire[reader.conn] # << >>
  /\ LET n == Head(wire[reader.conn]) IN
     /\ n <= reader.seen + 1
     /\ wire' = [wire EXCEPT ![reader.conn] = Tail(@)]
     /\ IF n <= reader.seen THEN UNCHANGED << reader, cursor, cache >>
        ELSE /\ reader' = [reader EXCEPT !.seen = n]
             /\ IF n - cursor >= BatchSize THEN Apply(n) ELSE UNCHANGED << cursor, cache >>
  /\ UNCHANGED << log, deleted, srv, visits, faults >>

\* The timer of a batch.
Flush ==
  /\ reader.at = "live" /\ reader.seen > cursor
  /\ Apply(reader.seen)
  /\ UNCHANGED << log, deleted, srv, wire, reader, visits, faults >>

\* 401, 403, 404: another attempt would not help.
Final(gone) == gone

\* The stream ended, broke, or was refused, or an event is missing: what waits
\* is applied, and the reader waits or gives up.
Disconnect ==
  /\ reader.at \in {"requested", "live"}
  /\ IF srv[reader.conn].at \in {"missing", "gone"} THEN UNCHANGED faults ELSE Breaks
  /\ IF reader.seen > cursor THEN Apply(reader.seen) ELSE UNCHANGED << cursor, cache >>
  /\ reader' = [at |-> IF Final(srv[reader.conn].at = "missing")
                       THEN "stopped" ELSE "waiting",
                conn |-> None, seen |-> reader.seen]
  /\ UNCHANGED << log, deleted, srv, wire, visits >>

Retry ==
  /\ reader.at = "waiting"
  /\ reader' = [reader EXCEPT !.at = "connecting"]
  /\ UNCHANGED << log, deleted, srv, wire, cursor, cache, visits, faults >>

\* The page is left: its reader is aborted, its fetches are cancelled.
Leave ==
  /\ reader.at # "off" /\ visits < MaxVisits
  /\ reader' = [at |-> "off", conn |-> None, seen |-> cursor]
  /\ cache' = [q \in Query |-> [cache[q] EXCEPT !.at = "idle", !.got = 0]]
  /\ UNCHANGED << log, deleted, srv, wire, cursor, visits, faults >>

\* And opened again, with the projection or without, and with fresh queries or
\* stale ones.
Visit(kept) ==
  /\ reader.at = "off"
  /\ visits' = visits + 1
  /\ cursor' = IF kept THEN cursor ELSE 0
  /\ reader' = [at |-> "connecting", conn |-> None, seen |-> cursor']
  /\ LET have(q) == IF Cold THEN 0 ELSE cache[q].have IN
     \E stale \in SUBSET Query :
       /\ {q \in Query : have(q) = 0} \subseteq stale
       /\ cache' = [q \in Query |-> [have |-> have(q), got |-> 0,
                                     at |-> IF q \in stale THEN "sent" ELSE "idle"]]
  /\ UNCHANGED << log, deleted, srv, wire, faults >>

-----------------------------------------------------------------------------
Server(c) == Admit(c) \/ Authorize(c) \/ List(c) \/ Send(c) \/ Poll(c) \/ Forget(c)

Follow == Opened \/ Read \/ Flush \/ Retry

Next ==
  \/ \E f \in Fact : Commit(f)
  \/ Delete
  \/ \E c \in Conn : Server(c) \/ Close(c)
  \/ \E q \in Query : ReadStore(q) \/ Answer(q) \/ LoseAnswer(q)
  \/ Connect \/ Follow \/ Disconnect \/ Leave
  \/ \E kept \in BOOLEAN : Visit(kept)

Spec == Init /\ [][Next]_vars

\* Steps of the page and of the server happen; a server notices that its
\* reader has gone, and a reader that its stream has.
FairSpec ==
  /\ Spec
  /\ \A c \in Conn :
       WF_vars(Server(c)) /\ WF_vars(reader.conn # c /\ Close(c))
  /\ \A q \in Query : WF_vars(ReadStore(q)) /\ WF_vars(Answer(q))
  /\ WF_vars(Connect) /\ WF_vars(Opened) /\ WF_vars(Read) /\ WF_vars(Flush) /\ WF_vars(Retry)
  /\ WF_vars(Disconnect /\ UNCHANGED faults)

-----------------------------------------------------------------------------
(* Properties. *)

\* reconcileThreadSnapshot: "only newer facts override a snapshot".
Overrides(f) == LastOf(f, cursor) > Watermark

Shown(f) == IF Overrides(f) THEN LastOf(f, cursor) ELSE LastOf(f, Watermark)

\* While a page is open, the status it shows never goes back, although the
\* snapshot and the replay are at different events.
ViewNeverBack ==
  reader.at # "off" /\ visits' = visits /\ Watermark > 0 => Shown("run")' >= Shown("run")

\* A reader gives up only on a thread that is gone: what it reads next always
\* continues what it applied, whichever connection it comes from.
StopsOnlyIfGone == reader.at = "stopped" => deleted

\* A stream whose reader has left gives its place back (thread.ts, cleanup).
SlotsComeBack ==
  \A c \in Conn : (srv[c].slot /\ reader.conn # c) ~> ~srv[c].slot

\* An open page ends up with every event applied, and with queries read after
\* the last event that made them stale (thread-view.tsx: "refetch the snapshot
\* and the question list instead of guessing their state").
Current ==
  /\ cursor = Len(log)
  /\ Watermark >= Max({LastOf("run", cursor), LastOf("question", cursor)})
  /\ cache["questions"].have >= LastOf("question", cursor)

BecomesCurrent == <>[](deleted \/ reader.at \in {"off", "stopped"} \/ Current)
=============================================================================
