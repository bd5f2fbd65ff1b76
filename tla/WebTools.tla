------------------------------ MODULE WebTools ------------------------------
(***************************************************************************)
(* The agent's web_search and web_fetch (apps/runner/src/web-tools.ts):    *)
(* one call of one of them.  A search asks Brave, then Firecrawl if that   *)
(* left nothing, and reads the first results in parallel; each request may *)
(* fail, and the call may be aborted or time out under any of them.        *)
(***************************************************************************)
EXTENDS Naturals, Sequences, SequencesExt

CONSTANTS
  Raw,       \* what a provider may give as a URL
  Href,      \* its normal form, or None unless it is a public URL
  MaxItems,  \* how long an answer of a provider is (bound)
  Limits,    \* the limits that are asked for
  Excerpts,  \* how many results are read: 3
  None

WebAssumption ==
  /\ DOMAIN Href = Raw /\ MaxItems \in Nat \ {0} /\ Excerpts \in Nat
  /\ Limits \subseteq Nat \ {0}

VARIABLES
  keys,     \* the providers that have an API key
  kind,     \* which tool is called
  limit,    \* of the search
  aborted,  \* the signal of the call, or its timeout
  phase,    \* where the call is
  source,   \* the provider the results are said to be from
  items,    \* the results: the URL of each, and how far its page is
  answer    \* what the model is told

vars == << keys, kind, limit, aborted, phase, source, items, answer >>

Url    == {Href[r] : r \in Raw} \ {None}
Page   == {"not_requested", "asked", "extracted", "failed", "cut"}
Item   == [url : Url, page : Page]
Status == {"ok", "failed", "unsupported", "unsafe_final_url"}

TypeOK ==
  /\ keys \in (SUBSET {"brave", "firecrawl"}) \ {{}}
  /\ kind \in {"search", "fetch"} /\ limit \in Limits /\ aborted \in BOOLEAN
  /\ phase \in {"brave", "firecrawl", "pages", "page", "told", "thrown"}
  /\ source \in {"brave", "firecrawl"}
  /\ items \in Seq(Item) /\ Len(items) <= limit
  /\ answer \in Status \cup {"none"}

\* A tool exists if it has a provider; the URL of a fetch was validated.
Init ==
  /\ keys \in (SUBSET {"brave", "firecrawl"}) \ {{}}
  /\ kind \in {"search", "fetch"} /\ limit \in Limits /\ aborted = FALSE
  /\ kind = "fetch" => "firecrawl" \in keys /\ limit = 1
  /\ phase = IF kind = "fetch" THEN "page" ELSE IF "brave" \in keys THEN "brave" ELSE "firecrawl"
  /\ source = IF "brave" \in keys /\ kind = "search" THEN "brave" ELSE "firecrawl"
  /\ IF kind = "search" THEN items = << >>
     ELSE \E u \in Url : items = << [url |-> u, page |-> "asked"] >>
  /\ answer = "none"

Throw == phase' = "thrown" /\ UNCHANGED << keys, kind, limit, aborted, source, items, answer >>

\* The caller gives up, or 60 seconds have passed.
Abort ==
  /\ phase \notin {"told", "thrown"} /\ ~aborted
  /\ aborted' = TRUE
  /\ UNCHANGED << keys, kind, limit, phase, source, items, answer >>

-----------------------------------------------------------------------------
(* web_search. *)

\* (fault) the same URL twice
Listed(raws) ==
  FoldLeft(LAMBDA out, r : IF Href[r] = None \/ Len(out) = limit THEN out ELSE Append(out, Href[r]),
           << >>, raws)

\* safeSearchItems: the public URLs, each once, up to the limit.
SafeSearchItems(raws) ==
  FoldLeft(LAMBDA out, r : IF Href[r] = None \/ Contains(out, Href[r]) \/ Len(out) = limit
                           THEN out ELSE Append(out, Href[r]), << >>, raws)

\* The results go on to be read, or the next provider is asked.
Found(urls) ==
  IF urls = << >> /\ phase = "brave" /\ "firecrawl" \in keys
  THEN /\ phase' = "firecrawl" /\ source' = "firecrawl"
       /\ UNCHANGED items
  ELSE /\ phase' = "pages"
       /\ items' = [i \in 1 .. Len(urls) |->
            [url |-> urls[i],
             page |-> IF "firecrawl" \in keys /\ i <= Excerpts THEN "asked" ELSE "not_requested"]]
       /\ UNCHANGED source

\* A provider answers with a list.
Search ==
  /\ phase \in {"brave", "firecrawl"} /\ ~aborted
  /\ \E n \in 0 .. MaxItems : \E raws \in [1 .. n -> Raw] : Found(SafeSearchItems(raws))
  /\ UNCHANGED << keys, kind, limit, aborted, answer >>

\* An error, no JSON, another shape or a body over the limit count as no results.
SearchFails ==
  /\ phase \in {"brave", "firecrawl"}
  /\ IF aborted THEN Throw
     ELSE Found(<< >>) /\ UNCHANGED << keys, kind, limit, aborted, answer >>

SetItem(i, item) == items' = [items EXCEPT ![i] = item]

\* The page of a result is read, at the URL where it was found in the end.
Excerpt(i) ==
  /\ phase = "pages" /\ items[i].page = "asked" /\ ~aborted
  /\ \E r \in Raw : Href[r] # None /\ SetItem(i, [url |-> Href[r], page |-> "extracted"])
  /\ UNCHANGED << keys, kind, limit, aborted, phase, source, answer >>

\* (fault) a page that is cut off by the abort counts as one that failed
CutCounts(i) ==
  /\ phase = "pages" /\ items[i].page = "asked"
  /\ SetItem(i, [items[i] EXCEPT !.page = IF aborted THEN "cut" ELSE "failed"])
  /\ UNCHANGED << keys, kind, limit, aborted, phase, source, answer >>

\* It cannot be read, or is not at a public URL.  Under an abort the call throws,
\* whatever the others still do.
ExcerptFails(i) ==
  /\ phase = "pages" /\ items[i].page = "asked"
  /\ SetItem(i, [items[i] EXCEPT !.page = IF aborted THEN "cut" ELSE "failed"])
  /\ phase' = IF aborted THEN "thrown" ELSE phase
  /\ UNCHANGED << keys, kind, limit, aborted, source, answer >>

\* The status goes with the results, and with `partial` if the page of one failed.
Tell(status) == phase' = "told" /\ answer' = status

TellResults ==
  /\ phase = "pages"
  /\ \A i \in 1 .. Len(items) : items[i].page # "asked"
  /\ UNCHANGED items
  /\ Tell(IF items = << >> THEN "failed" ELSE "ok")
  /\ UNCHANGED << keys, kind, limit, aborted, source >>

-----------------------------------------------------------------------------
(* web_fetch: one page. *)

\* It may have ended up where it is not public, or have no text.
Fetch ==
  /\ phase = "page" /\ ~aborted
  /\ \E r \in Raw :
       IF Href[r] = None
       THEN /\ items' = << >>
            /\ Tell("unsafe_final_url")
       ELSE /\ items' = << [url |-> Href[r], page |-> "extracted"] >>
            /\ \E status \in {"ok", "unsupported"} : Tell(status)
  /\ UNCHANGED << keys, kind, limit, aborted, source >>

FetchFails ==
  /\ phase = "page"
  /\ IF aborted THEN Throw
     ELSE /\ items' = << >>
          /\ Tell("failed")
          /\ UNCHANGED << keys, kind, limit, aborted, source >>

-----------------------------------------------------------------------------
Next ==
  \/ Abort
  \/ Search \/ SearchFails \/ TellResults
  \/ \E i \in 1 .. Len(items) : Excerpt(i) \/ ExcerptFails(i)
  \/ Fetch \/ FetchFails

Spec == Init /\ [][Next]_vars

-----------------------------------------------------------------------------
(* Properties. *)

\* No result is listed twice, until its page was found elsewhere.
EachOnce ==
  \A i, j \in 1 .. Len(items) :
    i # j /\ items[i].url = items[j].url =>
      "extracted" \in {items[i].page, items[j].page}

\* What the model is told is whole: a search fails only if nothing was found, only
\* the first results are read, and a page that the abort cut off never passes for
\* one that failed.
AnswerIsWhole ==
  phase = "told" /\ kind = "search" =>
    /\ answer = "failed" <=> items = << >>
    /\ \A i \in 1 .. Len(items) :
         /\ items[i].page \notin {"asked", "cut"}
         /\ items[i].page = "not_requested" <=> i > Excerpts \/ "firecrawl" \notin keys
=============================================================================
