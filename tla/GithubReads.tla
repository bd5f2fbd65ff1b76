---------------------------- MODULE GithubReads -----------------------------
(***************************************************************************)
(* Trees and skills of a repository, read from GitHub for the composer:    *)
(* repositoryTree, tree and skills of packages/api/src/github.ts and the   *)
(* two caches they share.                                                  *)
(*                                                                         *)
(* A commit is named by its root directory.  Listing gives the entries of  *)
(* a directory, each with a name, a kind and, for a tree, the directory.   *)
(***************************************************************************)
EXTENDS Integers, Sequences, SequencesExt, FiniteSets

CONSTANTS
  Reader,     \* calls of one user; SkillReader are those of skills
  SkillReader,
  Listing,    \* the directories
  Commit,     \* the commits that the ref may name, in turn
  Wide,       \* what GitHub truncates: a commit's recursive tree, a directory's
  MaxReads, MaxEntries, MaxCached, MaxTurns   \* 256, 100k, 32; bound: changes

Dir == DOMAIN Listing

GithubReadsAssumption ==
  /\ SkillReader \subseteq Reader /\ Range(Commit) \subseteq Dir
  /\ \A d \in Dir : \A k \in DOMAIN Listing[d] : Listing[d][k].kind \in {"blob", "tree"}
  /\ {MaxReads, MaxEntries, MaxCached} \subseteq Nat \ {0}

VARIABLES
  access,     \* the user may pull
  turns,      \* changes of access and of the ref
  ref,        \* the index of the commit it names
  trees,      \* the cached trees, the oldest first
  catalogs,   \* the cached skills
  call

vars == << access, turns, ref, trees, catalogs, call >>

\* reads are the tree reads so far, granted whether access was held at any time
\* since the call began.
NoCall == [at |-> "none", sha |-> "none", entries |-> << >>, truncated |-> FALSE,
           pending |-> << >>, reads |-> 0, skills |-> << >>, granted |-> FALSE]

Init ==
  /\ access = TRUE /\ turns = 0 /\ ref = 1
  /\ trees = << >> /\ catalogs = << >>
  /\ call = [r \in Reader |-> NoCall]

Turn ==
  /\ turns < MaxTurns /\ turns' = turns + 1
  /\ \/ access' = ~access /\ UNCHANGED ref
     \/ ref < Len(Commit) /\ ref' = ref + 1 /\ UNCHANGED access
  /\ call' = [r \in Reader |-> [call[r] EXCEPT !.granted = @ \/ access']]
  /\ UNCHANGED << trees, catalogs >>

Goes(r, rec) == call' = [call EXCEPT ![r] = rec]
KeepsRest == UNCHANGED << access, turns, ref >>

Begin(r) ==
  /\ call[r].at \in {"none", "done", "failed"}
  /\ Goes(r, [NoCall EXCEPT !.at = "repository", !.granted = access])
  /\ KeepsRest /\ UNCHANGED << trees, catalogs >>

\* permissions.pull: without it the call is refused, whatever is cached.
MayPull == access

Repository(r) ==
  /\ call[r].at = "repository"
  /\ Goes(r, [call[r] EXCEPT !.at = IF MayPull THEN "commit" ELSE "failed"])
  /\ KeepsRest /\ UNCHANGED << trees, catalogs >>

\* A request fails: no answer in time, a refusal, or one that does not parse.
Fail(r) ==
  /\ call[r].at \in {"commit", "recursive", "walk", "blobs"}
  /\ Goes(r, [call[r] EXCEPT !.at = "failed"])
  /\ KeepsRest /\ UNCHANGED << trees, catalogs >>

(***************************************************************************)
(* The tree.                                                               *)
(***************************************************************************)
Cached(cache, sha) == SelectSeq(cache, LAMBDA e : e.sha = sha)

\* Map.set, after the oldest of a full cache is dropped.
Store(cache, e) ==
  LET kept == IF Len(cache) >= MaxCached THEN Tail(cache) ELSE cache IN
  IF Cached(kept, e.sha) = << >> THEN Append(kept, e)
  ELSE [k \in DOMAIN kept |-> IF kept[k].sha = e.sha THEN e ELSE kept[k]]

\* skills looks at its own cache when it has the tree.
WithTree(r, rec) ==
  LET known == Cached(catalogs, rec.sha) IN
  Goes(r, IF r \notin SkillReader THEN [rec EXCEPT !.at = "done"]
          ELSE IF known # << >> THEN [rec EXCEPT !.at = "done", !.skills = known[1].skills]
          ELSE [rec EXCEPT !.at = "blobs"])

ReadCommit(r) ==
  /\ call[r].at = "commit"
  /\ LET sha == Commit[ref] known == Cached(trees, sha) rec == [call[r] EXCEPT !.sha = sha] IN
     IF known # << >>
     THEN WithTree(r, [rec EXCEPT !.entries = known[1].entries, !.truncated = known[1].truncated])
     ELSE Goes(r, [rec EXCEPT !.at = "recursive"])
  /\ KeepsRest /\ UNCHANGED << trees, catalogs >>

Keep(r, rec) ==
  /\ trees' = Store(trees, [sha |-> rec.sha, entries |-> rec.entries, truncated |-> rec.truncated])
  /\ WithTree(r, rec)
  /\ KeepsRest /\ UNCHANGED catalogs

\* The paths under a directory, in the order of a recursive listing.
Paths[d \in Dir] ==
  FlattenSeq([k \in DOMAIN Listing[d] |->
    LET e == Listing[d][k] IN
    << << e.name >> >> \o
      (IF e.kind = "tree" THEN [j \in DOMAIN Paths[e.dir] |-> << e.name >> \o Paths[e.dir][j]]
       ELSE << >>)])

ReadRecursive(r) ==
  /\ call[r].at = "recursive"
  /\ LET sha == call[r].sha IN
     IF sha \in Wide.recursive
     THEN /\ Goes(r, [call[r] EXCEPT !.at = "walk", !.pending = << [dir |-> sha, prefix |-> << >>] >>])
          /\ KeepsRest /\ UNCHANGED << trees, catalogs >>
     ELSE Keep(r, [call[r] EXCEPT !.entries = Paths[sha]])

\* (fault) a directory that did not fit is taken for read
ForgetsRest(next) == << >>

\* What was not read whole stays pending, and the tree counts as truncated.
Rest(next) == << next >>

\* One read of the bounded traversal, breadth first.
Walk(r) ==
  /\ call[r].at = "walk"
  /\ LET c    == call[r]
         next == Head(c.pending)
         list == Listing[next.dir]
         fits == IF Len(list) < MaxEntries - Len(c.entries) THEN Len(list) ELSE MaxEntries - Len(c.entries)
         Path(k)  == Append(next.prefix, list[k].name)
         below == SelectSeq([k \in 1 .. fits |-> k], LAMBDA k : list[k].kind = "tree")
     IN
     IF c.pending = << >> \/ c.reads >= MaxReads \/ Len(c.entries) >= MaxEntries
     THEN Keep(r, [c EXCEPT !.truncated = c.pending # << >>])
     ELSE IF next.dir \in Wide.plain
     THEN Keep(r, [c EXCEPT !.truncated = TRUE])
     ELSE /\ Goes(r, [c EXCEPT !.reads = @ + 1,
                !.entries = @ \o [k \in 1 .. fits |-> Path(k)],
                !.pending = Tail(@)
                  \o [j \in DOMAIN below |-> [dir |-> list[below[j]].dir, prefix |-> Path(below[j])]]
                  \o (IF fits < Len(list) THEN Rest(next) ELSE << >>)])
          /\ KeepsRest /\ UNCHANGED << trees, catalogs >>

(***************************************************************************)
(* The skills: the blobs named SKILL.md, read one by one.                  *)
(***************************************************************************)
Skills(entries) == SelectSeq(entries, LAMBDA p : Last(p) = "SKILL.md")

ReadBlobs(r) ==
  /\ call[r].at = "blobs"
  /\ LET skills == Skills(call[r].entries) IN
     /\ catalogs' = Store(catalogs, [sha |-> call[r].sha, skills |-> skills])
     /\ Goes(r, [call[r] EXCEPT !.at = "done", !.skills = skills])
  /\ KeepsRest /\ UNCHANGED trees

Next ==
  \/ Turn
  \/ \E r \in Reader :
       \/ Begin(r) \/ Repository(r) \/ Fail(r) \/ ReadCommit(r)
       \/ ReadRecursive(r) \/ Walk(r) \/ ReadBlobs(r)

Spec == Init /\ [][Next]_vars

-----------------------------------------------------------------------------
TypeOK ==
  /\ access \in BOOLEAN /\ ref \in DOMAIN Commit
  /\ Len(trees) <= MaxCached /\ Len(catalogs) <= MaxCached
  /\ \A r \in Reader :
       /\ call[r].at \in {"none", "repository", "commit", "recursive", "walk", "blobs", "done", "failed"}
       /\ Len(call[r].entries) <= MaxEntries + Len(Paths[Commit[ref]])

\* What a call answers is the tree of its commit: each path once, and all of them
\* unless it says truncated, by whichever way and from whichever cache it came.
TreeIsWhole ==
  \A r \in Reader : call[r].at = "done" =>
    LET c == call[r] all == Range(Paths[c.sha]) IN
    /\ Range(c.entries) \subseteq all /\ Cardinality(Range(c.entries)) = Len(c.entries)
    /\ ~c.truncated => Range(c.entries) = all

\* Skills are those of the tree they are answered with.
SkillsAreOfTree ==
  \A r \in SkillReader : call[r].at = "done" => call[r].skills = Skills(call[r].entries)

\* Nobody is answered from a cache who lost access before asking.
AnsweredWithAccess == \A r \in Reader : call[r].at = "done" => call[r].granted
=============================================================================
