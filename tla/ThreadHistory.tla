--------------------------- MODULE ThreadHistory ----------------------------
(***************************************************************************)
(* The list of threads in the sidebar, read page by page with a keyset     *)
(* cursor while threads are used, created and deleted, and the pages of    *)
(* repositories that the picker reads from several installations.          *)
(* updatedAt counts half milliseconds: the database keeps what the cursor, *)
(* a JavaScript date, does not.                                            *)
(***************************************************************************)
EXTENDS Integers, Sequences, SequencesExt, FiniteSets

CONSTANTS
  Thread,         \* a set of numbers: identifiers are ordered
  PageSize,
  Start, Now,     \* where the clock is and how far it goes
  MaxUses,        \* threads created, used and deleted from then on
  Skew,           \* the writers of a thread may be this far behind the clock
  Installations,  \* a sequence of identifiers
  Repositories    \* [installation -> sequence of pages, each a sequence of repositories]

HistoryAssumption ==
  /\ Thread \subseteq Nat /\ PageSize \in Nat \ {0} /\ Start \in 1 .. Now /\ Skew \in Nat /\ MaxUses \in Nat
  /\ DOMAIN Repositories = ToSet(Installations)
  /\ \A i \in DOMAIN Repositories : Repositories[i] # << >>

VARIABLES
  clock, uses,
  updated,  \* [Thread -> updatedAt, 0 while it does not exist]
  pages,    \* what the cache holds: pages [threads, next], next a cursor or NoRow
  walk,     \* the pages a fetch has read
  want,     \* how many pages it reads, 0: no fetch
  moved,    \* history: threads used since the first page of walk was read
  stale,    \* history: the same of pages
  loads,    \* the requests of each page of repositories
  repo      \* the choice: "undefined", NoRow or a repository

vars == << clock, uses, updated, pages, walk, want, moved, stale, loads, repo >>

NoRow == [at |-> 0, id |-> 0]

Row(t) == [at |-> updated[t], id |-> t]
Ms(at) == at \div 2
Cut(row) == [row EXCEPT !.at = 2 * Ms(row.at)]   \* toISOString

\* The order of the query, at the precision of the cursor.
Above(r, s) == Ms(r.at) > Ms(s.at) \/ (Ms(r.at) = Ms(s.at) /\ r.id > s.id)

Row_ == [at : 0 .. Now, id : Thread] \cup {NoRow}
TypeOK ==
  /\ clock \in 0 .. Now /\ updated \in [Thread -> 0 .. Now]
  /\ \A s \in {pages, walk} : \A k \in DOMAIN s : s[k].next \in Row_ /\ ToSet(s[k].threads) \subseteq Row_
  /\ want \in Nat /\ uses \in 0 .. MaxUses /\ moved \subseteq Thread /\ stale \subseteq Thread

Init ==
  /\ clock = Start /\ uses = 0 /\ updated \in [Thread -> 0 .. Start]
  /\ pages = << >> /\ walk = << >> /\ want = 0 /\ moved = {} /\ stale = {}
  /\ loads = << >> /\ repo = "undefined"

listVars == << pages, walk, want >>
pickerVars == << loads, repo >>

-----------------------------------------------------------------------------
(* Threads *)

Tick ==
  /\ clock < Now /\ clock' = clock + 1
  /\ UNCHANGED << uses, updated, listVars, moved, stale, pickerVars >>

\* A thread is created, used, by a host whose clock may be behind, or deleted.
Use(t) ==
  /\ \/ \E at \in clock - Skew .. clock : at > 0 /\ updated' = [updated EXCEPT ![t] = at]
     \/ updated' = [updated EXCEPT ![t] = 0]
  /\ updated' # updated /\ uses < MaxUses /\ uses' = uses + 1
  /\ moved' = moved \cup {t} /\ stale' = stale \cup {t}
  /\ UNCHANGED << clock, listVars, pickerVars >>

-----------------------------------------------------------------------------
(* The list *)

\* listThreads and its route: one row more than a page tells whether to go on.
Page(before) ==
  LET listed == {t \in Thread : updated[t] > 0 /\ (before # NoRow => Above(before, Row(t)))}
      rows  == SetToSortSeq({Row(t) : t \in listed}, Above)
      shown == SubSeq(rows, 1, IF Len(rows) < PageSize THEN Len(rows) ELSE PageSize)
  IN  [threads |-> shown, next |-> IF Len(rows) > PageSize THEN Cut(Last(shown)) ELSE NoRow]

\* Pages are read again from the first one, or one more is read after the last.
Refetch ==
  /\ want' = IF pages = << >> THEN 1 ELSE Len(pages)
  /\ walk' = << >>
  /\ UNCHANGED << clock, uses, updated, pages, moved, stale, pickerVars >>

FetchNextPage ==
  /\ pages # << >> /\ Last(pages).next # NoRow
  /\ want' = Len(pages) + 1 /\ walk' = pages /\ moved' = stale
  /\ UNCHANGED << clock, uses, updated, pages, stale, pickerVars >>

ReadPage ==
  /\ want > 0
  /\ LET page == Page(IF walk = << >> THEN NoRow ELSE Last(walk).next)
         read == Append(walk, page)
     IN  /\ moved' = IF walk = << >> THEN {} ELSE moved
         /\ IF Len(read) = want \/ page.next = NoRow
            THEN pages' = read /\ walk' = << >> /\ want' = 0 /\ stale' = moved'
            ELSE walk' = read /\ UNCHANGED << pages, want, stale >>
  /\ UNCHANGED << clock, uses, updated, pickerVars >>

FetchFails ==
  /\ want > 0
  /\ want' = 0 /\ walk' = << >>
  /\ UNCHANGED << clock, uses, updated, pages, moved, stale, pickerVars >>

\* What the sidebar shows: the first copy of each thread.
Copies == FlattenSeq([k \in DOMAIN pages |-> pages[k].threads])
First(k) == \A j \in 1 .. k - 1 : Copies[j].id # Copies[k].id
Shown == [n \in 1 .. Cardinality({k \in DOMAIN Copies : First(k)}) |->
            Copies[SetToSortSeq({k \in DOMAIN Copies : First(k)}, <)[n]]]

-----------------------------------------------------------------------------
(* The picker *)

Request == [installation : ToSet(Installations), page : Nat]
HasNext(r) == r.page < Len(Repositories[r.installation])
Following == [k \in DOMAIN loads |->
  SelectSeq(loads[k], HasNext)]
Requests == FlattenSeq(loads)

\* Every installation's first page at once, then the first page not asked for.
Unasked ==
  SelectSeq([k \in DOMAIN FlattenSeq(Following) |->
               [FlattenSeq(Following)[k] EXCEPT !.page = @ + 1]],
            LAMBDA r : r \notin ToSet(Requests))

LoadFirst ==
  /\ loads = << >>
  /\ loads' = << [k \in DOMAIN Installations |->
                    [installation |-> Installations[k], page |-> 1]] >>
  /\ UNCHANGED << clock, uses, updated, listVars, moved, stale, repo >>

LoadNext ==
  /\ Unasked # << >>
  /\ loads' = Append(loads, << Head(Unasked) >>)
  /\ UNCHANGED << clock, uses, updated, listVars, moved, stale, repo >>

Offered == FlattenSeq([k \in DOMAIN Requests |->
             Repositories[Requests[k].installation][Requests[k].page]])

\* The remembered repository if it is among them, else the first one.
Choose(remembered) ==
  /\ repo = "undefined" /\ loads # << >>
  /\ repo' = IF remembered \in ToSet(Offered) THEN remembered
             ELSE IF Offered = << >> THEN "none" ELSE Head(Offered)
  /\ UNCHANGED << clock, uses, updated, listVars, moved, stale, loads >>

HistoryNext ==
  \/ Tick \/ Refetch \/ FetchNextPage \/ ReadPage \/ FetchFails
  \/ \E t \in Thread : Use(t)

PickerNext ==
  \/ LoadFirst \/ LoadNext
  \/ \E i \in ToSet(Installations) : \E p \in DOMAIN Repositories[i] :
       \E r \in ToSet(Repositories[i][p]) : Choose(r)

-----------------------------------------------------------------------------
(* Properties *)

\* No thread is listed twice, and the list is in the order of the server, also
\* where a page was read after threads had moved.
ListInOrder == \A j, k \in DOMAIN Shown : j < k => Above(Shown[j], Shown[k])

\* When the last page was read, every thread that nobody used meanwhile is listed,
\* with what it holds: no thread falls between two pages.
NothingBetweenPages ==
  pages # << >> /\ Last(pages).next = NoRow =>
    \A t \in Thread \ stale : updated[t] > 0 <=> Row(t) \in ToSet(Shown)

\* Each page of each installation is asked for once, and all of them when there is
\* no more to show.
EachPageOnce ==
  /\ \A j, k \in DOMAIN Requests : Requests[j] = Requests[k] => j = k
  /\ loads # << >> /\ Unasked = << >> =>
       ToSet(Offered) = UNION {UNION {ToSet(Repositories[i][p]) : p \in DOMAIN Repositories[i]} :
                                 i \in ToSet(Installations)}
=============================================================================
