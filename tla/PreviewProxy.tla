---------------------------- MODULE PreviewProxy ----------------------------
(***************************************************************************)
(* Requests to a preview: the gateway's proxy (apps/gateway/src/           *)
(* preview.ts), the forwarder in the sandbox (infra/modal/                 *)
(* preview-forwarder.ts) and, between them, Modal's router, which takes a  *)
(* request only with a connect token that is still good.                   *)
(***************************************************************************)
EXTENDS Integers, Sequences

CONSTANTS
  Get, Mutation, Socket,   \* requests: GET or HEAD, others, WebSockets
  MaxTokens, MaxTurns      \* bounds: tokens minted, changes of the workspace and the app

Request == Get \cup Mutation \cup Socket
Address == {"127.0.0.1", "[::1]"}
Token   == 1 .. MaxTokens

PreviewProxyAssumption ==
  /\ Get \cap Mutation = {} /\ (Get \cup Mutation) \cap Socket = {}
  /\ MaxTokens \in Nat \ {0} /\ MaxTurns \in Nat

VARIABLES
  running,    \* the workspace can be reached
  app,        \* the loopback addresses on which the app listens
  turns,
  token,      \* each token: none, minting, good, bad or failed
  cached,     \* the token that tokens holds for the provider, 0 if none
  touched,    \* the review was recorded less than a minute ago, or is being
  req

vars == << running, app, turns, token, cached, touched, req >>

\* left are the addresses still to try; reached counts arrivals at the app.
New == [at |-> "new", token |-> 0, first |-> 0, tries |-> 0, left |-> << >>,
        reached |-> 0, status |-> "none"]

Init ==
  /\ running = TRUE
  /\ app \in SUBSET Address
  /\ turns = 0
  /\ token = [t \in Token |-> "none"]
  /\ cached = 0
  /\ touched = FALSE
  /\ req = [r \in Request |-> New]

Minted == {t \in Token : token[t] # "none"}
NextToken == IF Minted = {} THEN 1 ELSE 1 + CHOOSE t \in Minted : \A u \in Minted : u <= t

(***************************************************************************)
(* The workspace, the app and the tokens' lifetimes.                       *)
(***************************************************************************)
Turn ==
  /\ turns < MaxTurns /\ turns' = turns + 1
  /\ \/ running' = ~running /\ UNCHANGED << app, token, cached >>
     \/ app' \in SUBSET Address /\ app' # app /\ UNCHANGED << running, token, cached >>
     \/ /\ \E t \in Token : token[t] = "good" /\ token' = [token EXCEPT ![t] = "bad"]
        /\ UNCHANGED << running, app, cached >>
     \/ /\ cached # 0 /\ cached' = 0          \* tokenTtlMs
        /\ UNCHANGED << running, app, token >>
  /\ UNCHANGED << touched, req >>

TouchIntervalEnds ==
  /\ touched
  /\ touched' = FALSE
  /\ UNCHANGED << running, app, turns, token, cached, req >>

(***************************************************************************)
(* The gateway.                                                            *)
(***************************************************************************)
\* credentials, which gives the cached token or mints one.
Use(r, rec) ==
  IF cached # 0
  THEN /\ req' = [req EXCEPT ![r] = [rec EXCEPT !.token = cached]]
       /\ UNCHANGED << token, cached >>
  ELSE /\ NextToken \in Token
       /\ token' = [token EXCEPT ![NextToken] = "minting"]
       /\ cached' = NextToken
       /\ req' = [req EXCEPT ![r] = [rec EXCEPT !.token = NextToken]]

End(r, status) == req' = [req EXCEPT ![r].at = "done", ![r].status = status]

\* A paused workspace is told to the visitor and is not touched.
Resolve(r) ==
  /\ req[r].at = "new"
  /\ IF running
     THEN /\ Use(r, [New EXCEPT !.at = "token", !.first = NextToken, !.tries = 1])
          /\ touched' = TRUE
     ELSE End(r, "asleep") /\ UNCHANGED << token, cached, touched >>
  /\ UNCHANGED << running, app, turns >>

\* A failed mint removes whatever token is cached by then, a later one too.
Forgotten == 0

\* createConnectToken
MintEnds(t) ==
  /\ token[t] = "minting"
  /\ \/ token' = [token EXCEPT ![t] = "good"] /\ UNCHANGED cached
     \/ token' = [token EXCEPT ![t] = "failed"] /\ cached' = Forgotten
  /\ UNCHANGED << running, app, turns, touched, req >>

\* Modal's router, which reaches the forwarder of a running sandbox.
Send(r) ==
  /\ req[r].at = "token" /\ token[req[r].token] # "minting"
  /\ \/ token[req[r].token] = "failed" /\ End(r, "error")
     \/ token[req[r].token] = "good" /\ running
          /\ req' = [req EXCEPT ![r].at = "forwarder", ![r].left = << "127.0.0.1", "[::1]" >>]
     \/ token[req[r].token] = "good" /\ ~running /\ End(r, "error")
     \/ token[req[r].token] = "bad" /\ req' = [req EXCEPT ![r].at = "refused"]
  /\ UNCHANGED << running, app, turns, token, cached, touched >>

\* tokens.delete, credentials
Renew(r, rec) ==
  /\ NextToken \in Token
  /\ token' = [token EXCEPT ![NextToken] = "minting"]
  /\ cached' = NextToken
  /\ req' = [req EXCEPT ![r] = [rec EXCEPT !.token = NextToken]]

Retries(r) == r \notin Mutation

\* A refusal without x-cloud-swe-forwarded is Modal's.  "Never replay a mutation
\* or an already-consumed request body."
Refused(r) ==
  /\ req[r].at = "refused"
  /\ IF req[r].tries = 2
     THEN End(r, "refused") /\ UNCHANGED << token, cached >>
     ELSE Renew(r, IF Retries(r) THEN [req[r] EXCEPT !.at = "token", !.tries = 2]
                   ELSE [req[r] EXCEPT !.at = "renewing"])
  /\ UNCHANGED << running, app, turns, touched >>

\* A mutation waits for the new token too, and is refused.
Renewed(r) ==
  /\ req[r].at = "renewing" /\ token[req[r].token] # "minting"
  /\ End(r, IF token[req[r].token] = "failed" THEN "error" ELSE "refused")
  /\ UNCHANGED << running, app, turns, token, cached, touched >>

(***************************************************************************)
(* The forwarder.                                                          *)
(***************************************************************************)
\* acceptsTcp; a WebSocket is dialled without a probe.
Probe(r) ==
  /\ req[r].at = "forwarder"
  /\ req' = [req EXCEPT ![r] =
       IF req[r].left = << >> THEN [@ EXCEPT !.at = "answer", !.status = "502"]
       ELSE IF Head(req[r].left) \in app THEN [@ EXCEPT !.at = "fetch"]
       ELSE [@ EXCEPT !.left = Tail(@)]]
  /\ UNCHANGED << running, app, turns, token, cached, touched >>

\* The other loopback is dialled for a WebSocket only.
AfterFailure(r) == IF r \in Socket THEN "forwarder" ELSE "answer"

\* The request reaches the app, which answers, refuses, or fails after it.
Fetch(r) ==
  /\ req[r].at = "fetch"
  /\ \/ \E status \in {"app", "app 401"} :
          req' = [req EXCEPT ![r].at = "answer", ![r].status = status, ![r].reached = @ + 1]
     \/ \E reached \in {0, 1} :
          req' = [req EXCEPT ![r].at = AfterFailure(r), ![r].status = "502",
                             ![r].left = Tail(@), ![r].reached = @ + reached]
  /\ UNCHANGED << running, app, turns, token, cached, touched >>

\* A WebSocket that does not open is dialled once more, whatever the reason.
Redials(r) == r \in Socket /\ req[r].tries = 1 /\ req[r].status # "app"

Answer(r) ==
  /\ req[r].at = "answer"
  /\ IF Redials(r)
     THEN Renew(r, [req[r] EXCEPT !.at = "token", !.tries = 2])
     ELSE End(r, req[r].status) /\ UNCHANGED << token, cached >>
  /\ UNCHANGED << running, app, turns, touched >>

\* The sandbox stops under a request.
Cut(r) ==
  /\ req[r].at \in {"forwarder", "fetch", "answer"} /\ ~running
  /\ End(r, "error")
  /\ UNCHANGED << running, app, turns, token, cached, touched >>

Next ==
  \/ Turn \/ TouchIntervalEnds
  \/ \E t \in Token : MintEnds(t)
  \/ \E r \in Request :
       \/ Resolve(r) \/ Send(r) \/ Refused(r) \/ Renewed(r)
       \/ Probe(r) \/ Fetch(r) \/ Answer(r) \/ Cut(r)

Spec == Init /\ [][Next]_vars

-----------------------------------------------------------------------------
TypeOK ==
  /\ running \in BOOLEAN /\ app \subseteq Address /\ cached \in 0 .. MaxTokens
  /\ \A t \in Token : token[t] \in {"none", "minting", "good", "bad", "failed"}
  /\ \A r \in Request :
       /\ req[r].at \in {"new", "token", "refused", "renewing", "forwarder", "fetch", "answer", "done"}
       /\ req[r].tries \in 0 .. 2 /\ req[r].token \in 0 .. MaxTokens

\* An HTTP request reaches the app at most once, whatever is tried again by the
\* gateway (the token) or by the forwarder (the address).
AppOnce == \A r \in Get \cup Mutation : req[r].reached <= 1

\* A GET is refused by the router only with a token that was minted for it: one
\* that others left in the cache, or that lost its force there, is replaced.
RefusedIsFresh ==
  \A r \in Get : req[r].status = "refused" => req[r].token >= req[r].first

\* A token that could not be minted is not given to later requests.
CacheIsUsable == cached # 0 => token[cached] # "failed"
=============================================================================
