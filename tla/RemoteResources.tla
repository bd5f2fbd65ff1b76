-------------------------- MODULE RemoteResources --------------------------
(***************************************************************************)
(* How an attempt discovers the skills of a checkout: guest/resources.py,  *)
(* which lists the guest's files, and resolveRemoteResources, which walks  *)
(* the listing, of remote-resources.ts.                                    *)
(*                                                                         *)
(* The walk is made twice.  The first names the files whose contents are   *)
(* asked for; the second reads names in them and decides which skills the  *)
(* model is offered.                                                       *)
(***************************************************************************)
EXTENDS Integers, Sequences, SequencesExt

CONSTANTS
  Root,       \* the skill roots in order: those of the project, then the global one
  Entry,      \* what may lie under a root, as paths relative to it, in order
  Directory,  \* those of Entry that are directories
  SkillName,  \* names that skills may declare
  Guest       \* the file systems to begin with: files, links, ignored paths and names

NoSkill == "none"

RemoteResourcesAssumption == Directory \subseteq Range(Entry) /\ NoSkill \notin SkillName

VARIABLES
  fs,         \* the guest's files
  at, todo,   \* where the discovery is, and what the walk has still to visit
  root,       \* the index of the root it walks
  seen,       \* the directories of this root it visited
  listing,    \* the entries that were captured
  picked,     \* the files whose contents are asked for
  content,    \* the names they declare
  skills

vars == << fs, at, todo, root, seen, listing, picked, content, skills >>

(***************************************************************************)
(* Files.  A path is a root followed by an entry.  There may be links:     *)
(* each maps a directory to another one, whose files it shows.             *)
(***************************************************************************)
Path == {<< r >> \o e : r \in Range(Root), e \in Range(Entry)}
Children(paths, d) ==
  {p \in paths : Len(p) = Len(d) + 1 /\ Front(p) = d}
IsDirectory(p) == Tail(p) \in Directory
Declared(d) == Append(d, "SKILL.md")
Files == {p \in Path : ~IsDirectory(p)}

\* realpath, for links that stay inside their root.
Target(d) == IF d \in DOMAIN fs.links THEN fs.links[d] ELSE d
RECURSIVE Canonical(_)
Canonical(p) ==
  IF Len(p) = 1 THEN p
  ELSE Target(Append(Canonical(Front(p)), Last(p)))

Exists(p) == IsDirectory(p) \/ Canonical(p) \in fs.files

\* resources.py lists a link to an ancestor and does not follow it.
Listed ==
  {p \in Path : Exists(p) /\
     \A k \in 1 .. Len(p) - 1 : \A j \in 1 .. k - 1 :
       Canonical(SubSeq(p, 1, k)) # Canonical(SubSeq(p, 1, j))}

Order(p, q) ==
  \E i, j \in DOMAIN Entry : Tail(p) = Entry[i] /\ Tail(q) = Entry[j] /\ i < j

Init ==
  /\ fs \in Guest
  /\ at = "list" /\ todo = << >> /\ root = 1 /\ seen = {}
  /\ listing = {} /\ picked = {} /\ content = << >> /\ skills = << >>

(***************************************************************************)
(* Captures.  Any may fail; then the attempt does.                         *)
(***************************************************************************)
Fail ==
  /\ at \in {"list", "read"}
  /\ at' = "failed"
  /\ UNCHANGED << fs, todo, root, seen, listing, picked, content, skills >>

FirstRoot == todo' = << << Root[1] >> >> /\ root' = 1 /\ seen' = {}

List ==
  /\ at = "list"
  /\ listing' = Listed
  /\ at' = "pick" /\ FirstRoot
  /\ UNCHANGED << fs, picked, content, skills >>

\* What still runs in the guest changes what a file declares.
Change ==
  /\ at = "read"
  /\ \E p \in picked, n \in SkillName :
       fs.name[Canonical(p)] # n /\ fs' = [fs EXCEPT !.name[Canonical(p)] = n]
  /\ UNCHANGED << at, todo, root, seen, listing, picked, content, skills >>

Read ==
  /\ at = "read"
  /\ content' = [p \in picked |-> fs.name[Canonical(p)]]
  /\ at' = "load" /\ FirstRoot
  /\ UNCHANGED << fs, listing, picked, skills >>

(***************************************************************************)
(* The walk.                                                               *)
(***************************************************************************)
Ignored(p) == p \in fs.ignored

Taken(p) ==
  \E k \in DOMAIN skills :
    Canonical(skills[k].path) = Canonical(p) \/ skills[k].name = content[p]

\* load: without a usable declaration, or after a collision, the file is left out.
Load(p) ==
  IF at = "pick" THEN picked' = picked \cup {p} /\ UNCHANGED skills
  ELSE /\ skills' = IF p \notin DOMAIN content \/ content[p] = NoSkill \/ Taken(p) THEN skills
                    ELSE Append(skills, [path |-> p, name |-> content[p]])
       /\ UNCHANGED picked

\* Directories, and the files of the root itself.
Below(d) ==
  LET chosen == {p \in Children(listing, d) : ~Ignored(p) /\ (IsDirectory(p) \/ Len(d) = 1)}
  IN SetToSortSeq(chosen, Order)

\* "SKILL.md" makes its directory one skill.
Stops(d) == Declared(d) \in listing /\ ~Ignored(Declared(d))

Visit ==
  /\ at \in {"pick", "load"} /\ todo # << >>
  /\ LET p == Head(todo) IN
     IF Len(p) > 1 /\ ~IsDirectory(p)
     THEN Load(p) /\ todo' = Tail(todo) /\ UNCHANGED seen
     ELSE IF Canonical(p) \in seen
     THEN todo' = Tail(todo) /\ UNCHANGED << seen, picked, skills >>
     ELSE /\ seen' = seen \cup {Canonical(p)}
          /\ IF Stops(p)
             THEN Load(Declared(p)) /\ todo' = Tail(todo)
             ELSE todo' = Below(p) \o Tail(todo) /\ UNCHANGED << picked, skills >>
  /\ UNCHANGED << fs, at, root, listing, content >>

NextRoot ==
  /\ at \in {"pick", "load"} /\ todo = << >>
  /\ IF root < Len(Root)
     THEN root' = root + 1 /\ seen' = {} /\ todo' = << << Root[root + 1] >> >> /\ UNCHANGED at
     ELSE IF at = "pick" /\ picked = {}
     THEN at' = "load" /\ FirstRoot
     ELSE at' = (IF at = "pick" THEN "read" ELSE "done") /\ UNCHANGED << todo, root, seen >>
  /\ UNCHANGED << fs, listing, picked, content, skills >>

Next == Fail \/ List \/ Change \/ Read \/ Visit \/ NextRoot

Spec == Init /\ [][Next]_vars

-----------------------------------------------------------------------------
TypeOK ==
  /\ at \in {"list", "pick", "read", "load", "done", "failed"}
  /\ root \in DOMAIN Root /\ picked \subseteq Files /\ listing \subseteq Path
  /\ \A k \in DOMAIN skills : skills[k].path \in picked /\ skills[k].name \in SkillName

Visible(p) == \A k \in 2 .. Len(p) : ~Ignored(SubSeq(p, 1, k))

\* What may be a skill: a SKILL.md, or a file of a root itself, that no pattern
\* hides and no skill directory above it contains.
Eligible(p) ==
  /\ p \in listing /\ ~IsDirectory(p) /\ (Len(p) = 2 \/ Last(p) = "SKILL.md")
  /\ Visible(p)
  /\ \A k \in 1 .. Len(p) - 1 :
       LET d == SubSeq(p, 1, k) IN Stops(d) => p = Declared(d)

Before(p, q) ==
  \E i, j \in DOMAIN Root : p[1] = Root[i] /\ q[1] = Root[j] /\ (i < j \/ (i = j /\ Order(p, q)))

\* A directory is visited under the first of its names ("cycle or collision").
FirstName(p) ==
  \A k \in 2 .. Len(p) - 1 : \A q \in listing :
    (IsDirectory(q) /\ Visible(q) /\ Before(q, SubSeq(p, 1, k)))
      => Canonical(q) # Canonical(SubSeq(p, 1, k))

\* The model is offered each skill once: no two share a name or a file, what is
\* not eligible stays out, and of several with one name the first wins, so that a
\* skill of the project hides a global one.
SkillsAreSound ==
  at = "done" =>
    /\ \A i, j \in DOMAIN skills : i # j =>
         /\ skills[i].name # skills[j].name
         /\ Canonical(skills[i].path) # Canonical(skills[j].path)
    /\ \A i \in DOMAIN skills : Eligible(skills[i].path)
    /\ \A i, j \in DOMAIN skills : i < j => Before(skills[i].path, skills[j].path)

\* No eligible skill is lost: it is offered, or one that comes before it has its
\* name or is its file, although links lead to directories twice or in a circle.
SkillsAreComplete ==
  at = "done" =>
    \A p \in DOMAIN content : Eligible(p) /\ FirstName(p) /\ content[p] # NoSkill =>
      \E k \in DOMAIN skills :
        LET s == skills[k] IN
        /\ s.name = content[p] \/ Canonical(s.path) = Canonical(p)
        /\ ~Before(p, s.path)

\* The second walk finds the contents of every file it comes to, though the first
\* could not know which would be loaded.
AskedForAll ==
  at = "done" =>
    \A p \in listing : Eligible(p) /\ FirstName(p) => p \in DOMAIN content
=============================================================================
