-------------------------- MODULE CommandOutcomes --------------------------
(***************************************************************************)
(* What an attempt makes of a command's end: the capture of a process's    *)
(* streams by a provider (docker.ts) and the outcome that the model, the   *)
(* events and the fatal latch are given (pi.ts).                           *)
(*                                                                         *)
(* A stream is the sequence of the widths in bytes of its characters.      *)
(***************************************************************************)
EXTENDS Integers, Sequences, SequencesExt, FiniteSetsExt

CONSTANTS
  ProviderLimit, Limit,   \* bytes that the provider and the attempt keep
  Width,                  \* widths of characters
  MaxWrites               \* bound: characters that the command writes

CommandOutcomesAssumption ==
  /\ Limit \in Nat \ {0} /\ ProviderLimit \in Nat \ {0} /\ MaxWrites \in Nat
  /\ Width \subseteq Nat \ {0}

Stream    == {"stdout", "stderr"}
Unsettled == {"transport-timeout", "cancelled", "unknown"}

VARIABLES
  wrote,        \* what the command wrote to each stream
  got,          \* what the provider captured of it
  process,      \* running, over with a status, or killed
  interrupted,  \* why the provider killed it, or none
  outcome       \* the PiCommandDiagnostic, once there is one

vars == << wrote, got, process, interrupted, outcome >>

NoOutcome == [kind |-> "none", stdout |-> << >>, stderr |-> << >>, output |-> << >>, truncated |-> FALSE]

Init ==
  /\ wrote = [s \in Stream |-> << >>] /\ got = wrote
  /\ process = "running" /\ interrupted = "none"
  /\ outcome = NoOutcome

Bytes(text) == FoldLeft(LAMBDA n, w : n + w, 0, text)

\* boundedUtf8: the longest beginning of whole characters that fits.
Bounded(text, max) ==
  LET fits == {n \in 0 .. Len(text) : Bytes(SubSeq(text, 1, n)) <= max} IN
  IF fits = {} THEN << >> ELSE SubSeq(text, 1, Max(fits))

(***************************************************************************)
(* The provider.                                                           *)
(***************************************************************************)
Used(streams) == Bytes(streams.stdout) + Bytes(streams.stderr)

\* Both streams share the limit.
Room(s) == ProviderLimit - Used(got)

\* Nothing is captured after an interruption; what does not fit interrupts.
Write(s) ==
  /\ process = "running" /\ Len(wrote.stdout) + Len(wrote.stderr) < MaxWrites
  /\ \E w \in Width :
       /\ wrote' = [wrote EXCEPT ![s] = Append(@, w)]
       /\ IF interrupted # "none" THEN UNCHANGED << got, interrupted >>
          ELSE /\ got' = [got EXCEPT ![s] = @ \o Bounded(<< w >>, Room(s))]
               /\ interrupted' = IF w > Room(s) THEN "output-limit" ELSE "none"
  /\ UNCHANGED << process, outcome >>

\* The deadline or the abort signal kills the process, a failure of it is noted;
\* the first two overwrite what interrupted it before.
Interrupt ==
  /\ process = "running"
  /\ \/ interrupted' \in {"transport-timeout", "cancelled"}
     \/ interrupted = "none" /\ interrupted' = "unknown"
  /\ UNCHANGED << wrote, got, process, outcome >>

\* The process closes, by itself or not, with a status or without one.
Close(status) ==
  /\ process = "running"
  /\ process' = status
  /\ UNCHANGED << wrote, got, interrupted, outcome >>

(***************************************************************************)
(* The outcome.                                                            *)
(***************************************************************************)
Newline == 1

\* boundedStreams: stdout first, then stderr, then both in one text.
Combined(stdout, stderr) ==
  LET out == Bounded(stdout, Limit)
      err == Bounded(stderr, Limit - Bytes(out))
  IN  IF err # << >> THEN out \o << Newline >> \o err ELSE out

Truncated(stdout, stderr, provider) ==
  \/ provider
  \/ Bytes(stdout) + Bytes(stderr) > Limit
  \/ Bytes(Combined(stdout, stderr)) > Limit

Diagnostic(kind, stdout, stderr, provider) ==
  LET out == Bounded(stdout, Limit) IN
  [kind |-> kind, stdout |-> out, stderr |-> Bounded(stderr, Limit - Bytes(out)),
   output |-> Bounded(Combined(stdout, stderr), Limit),
   truncated |-> Truncated(stdout, stderr, provider)]

\* normalizePiCommandResult: a process result that does not survive the limit is
\* an outcome of its own.
ProcessKind ==
  IF Truncated(got.stdout, got.stderr, FALSE) THEN "output-limit"
  ELSE IF process = "zero" THEN "completed" ELSE "nonzero"

\* A status counts only if nothing interrupted the process.
Known == interrupted = "none" /\ process # "no status"

Normalize ==
  /\ process # "running" /\ outcome = NoOutcome
  /\ outcome' =
       IF Known THEN Diagnostic(ProcessKind, got.stdout, got.stderr, FALSE)
       ELSE Diagnostic(IF interrupted = "none" THEN "unknown" ELSE interrupted,
                       got.stdout, got.stderr, interrupted = "output-limit")
  /\ UNCHANGED << wrote, got, process, interrupted >>

\* transportFromThrownError: typed errors keep their kind; of others the abort
\* signal and the wording decide.
Throw ==
  /\ process = "running" /\ outcome = NoOutcome
  /\ process' = "no status"
  /\ \E kind \in Unsettled \cup {"output-limit"} :
       outcome' = Diagnostic(kind, << >>, << >>, kind = "output-limit")
  /\ UNCHANGED << wrote, got, interrupted >>

Next ==
  \/ \E s \in Stream : Write(s)
  \/ Interrupt \/ Normalize \/ Throw
  \/ \E status \in {"zero", "nonzero", "no status"} : Close(status)

Spec == Init /\ [][Next]_vars

-----------------------------------------------------------------------------
TypeOK ==
  /\ \A s \in Stream : wrote[s] \in Seq(Width) /\ got[s] \in Seq(Width)
  /\ process \in {"running", "zero", "nonzero", "no status"}
  /\ interrupted \in Unsettled \cup {"output-limit", "none"}
  /\ outcome.kind \in Unsettled \cup {"output-limit", "completed", "nonzero", "none"}

\* A command counts as completed or failed only if its end was seen and the model
\* is given all that it wrote; a cut output is always told.
NothingLostSilently ==
  /\ outcome.kind \in {"completed", "nonzero"} =>
       /\ outcome.stdout = wrote.stdout /\ outcome.stderr = wrote.stderr
       /\ process \in {"zero", "nonzero"} /\ interrupted = "none"
  /\ (outcome.kind = "output-limit") = outcome.truncated
       \/ outcome.kind \in Unsettled

\* What is persisted stays within the limits, in whole characters, whichever
\* stream fills them.
OutputIsBounded ==
  /\ Used(got) <= ProviderLimit
  /\ Bytes(outcome.stdout) + Bytes(outcome.stderr) <= Limit /\ Bytes(outcome.output) <= Limit
  /\ \A s \in Stream : IsPrefix(outcome[s], wrote[s])
=============================================================================
