------------------------ MODULE GuestCommands_proofs ------------------------
(***************************************************************************)
(* A command of an attempt runs at most once, its outcome is the one its   *)
(* body had, and who is admitted to the workspace has it for itself.       *)
(***************************************************************************)
EXTENDS GuestCommands, FiniteSetTheorems, TLAPS

(***************************************************************************)
(* The inductive invariant.                                                *)
(***************************************************************************)
\* No request of c has left.
Untouched(c) == journal[c] = "absent" /\ \A i \in Delivery : wrapper[c][i] = "none"

\* TypeOK, part by part.
RowState == {"absent", "queued"} \cup Dispatched \cup SettledState
Result   == SettledState \cup {None, "undispatched"}
Record   == [state : RowState, owner : Attempt \cup {None}, result : Result,
             order : 0 .. Cardinality(Command)]

RowsTyped ==
  /\ row \in [Command -> Record]
  /\ call \in [Command -> {"none", "queued", "admitted", "marked", "sent",
                           "checking", "over"}]

AttemptsTyped ==
  /\ owner \in Attempt \cup {None}
  /\ attempt \in [Attempt -> {"idle", "preparing", "working", "gone"}]
  /\ seen \in [Attempt -> [Command -> {None, "queued"} \cup Dispatched]]

GuestTyped ==
  /\ wrapper \in [Command -> [Delivery ->
       {"none", "inflight", "answering", "gone"} \cup Holding]]
  /\ journal \in [Command -> {"absent", "pending", "running"} \cup SettledState]
  /\ body \in [Command -> {"none", "running"} \cup SettledState]
  /\ starts \in [Command -> 0 .. Deliveries]

\* What the journal says of the script and of the body.
Journals ==
  \A c \in Command :
    /\ starts[c] \in {0, 1}
    /\ starts[c] = 0 <=> body[c] = "none"
    /\ journal[c] \in {"absent", "pending"} => starts[c] = 0
    /\ journal[c] \in SettledState => body[c] = journal[c]

\* The lock of the journal has one holder, and tells how far the script is.
Scripts ==
  \A c \in Command, i \in Delivery :
    /\ wrapper[c][i] = "waiting" => journal[c] = "pending"
    /\ wrapper[c][i] = "holding" => journal[c] = "running" /\ body[c] # "none"
    /\ wrapper[c][i] = "wrote" => journal[c] \in SettledState
    /\ wrapper[c][i] \in Holding =>
         \A j \in Delivery : wrapper[c][j] \in Holding => i = j

\* A call of the coordinator and the row it keeps.
CallsAndRows ==
  \A c \in Command :
    /\ call[c] = "none" <=> row[c].state = "absent"
    /\ row[c].owner = None <=> row[c].state = "absent"
    /\ call[c] \notin {"none", "over"} => attempt[row[c].owner] = "working"
    /\ row[c].state = "queued" => call[c] \in {"queued", "over"}
    /\ call[c] \in {"none", "queued", "admitted", "marked"} => Untouched(c)
    /\ row[c].state = "queued" => Untouched(c)
    /\ row[c].result # None <=> row[c].state \in SettledState

\* What an attempt has listed was there, and has not gone back to the queue.
Listed ==
  \A a \in Attempt, c \in Command :
    /\ seen[a][c] # None => row[c].state # "absent"
    /\ seen[a][c] \in Dispatched => row[c].state # "queued"

\* Beside an exclusive command nothing is dispatched.
DispatchedTogether ==
  \A c, d \in Active : c # d => {c, d} \subseteq Reads

Rows ==
  /\ RowsTyped /\ AttemptsTyped /\ GuestTyped
  /\ Journals
  /\ Scripts
  /\ CallsAndRows
  /\ Listed
  /\ DispatchedTogether
  /\ ResultIsTheGuests

Live(a) == attempt[a] \in {"preparing", "working"}

OneLive == \A a, b \in Attempt : Live(a) /\ Live(b) => a = b

\* While an attempt prepares nobody else settles what it has listed.
ListedStays ==
  \A a \in Attempt, c \in Command :
    attempt[a] = "preparing" /\ seen[a][c] # None => row[c].state = seen[a][c]

\* A settled command either ended, or is over and never left.
SettledEnded ==
  \A c \in Command : row[c].state \in SettledState =>
    \/ row[c].result \in SettledState
    \/ row[c].result = "undispatched" /\ call[c] = "over" /\ Untouched(c)

Owned ==
  /\ OneLive
  /\ ListedStays
  /\ SettledEnded
-----------------------------------------------------------------------------
(***************************************************************************)
(* What a step writes to a row.                                            *)
(***************************************************************************)
\* Only the state and the result of c are written, these ones.
Writes(c, state, result) ==
  /\ row' \in [Command -> Record]
  /\ \A d \in Command \ {c} : row'[d] = row[d]
  /\ row'[c].owner = row[c].owner
  /\ row'[c].order = row[c].order
  /\ row'[c].state = state
  /\ row'[c].result = IF result = None THEN row[c].result ELSE result

LEMMA RowIsSet ==
  ASSUME RowsTyped, NEW c \in Command, NEW state \in RowState, NEW result \in Result,
         SetRow(c, state, result)
  PROVE  Writes(c, state, result)
  <1> DEFINE r == [row[c] EXCEPT !.state = state,
                                 !.result = IF result = None THEN row[c].result ELSE result]
  <1>1. row[c] \in Record
    BY DEF RowsTyped
  <1>2. r \in Record
    BY <1>1 DEF Record
  <1>3. row' = [row EXCEPT ![c] = r]
    BY DEF SetRow, RowsTyped
  <1>4. /\ r.owner = row[c].owner
        /\ r.order = row[c].order
        /\ r.state = state
        /\ r.result = IF result = None THEN row[c].result ELSE result
    BY <1>1 DEF Record
  <1> HIDE DEF r
  <1> QED BY <1>2, <1>3, <1>4 DEF RowsTyped, Writes

LEMMA RowIsTried ==
  ASSUME RowsTyped, NEW c \in Command, NEW state \in RowState, NEW result \in Result,
         TrySetRow(c, state, result)
  PROVE  \/ Allows(c, state) /\ Writes(c, state, result)
         \/ ~Allows(c, state) /\ row' = row
  BY RowIsSet DEF TrySetRow

LEMMA ObservedOutcome ==
  ASSUME CommandAssumption, GuestTyped, NEW c \in Command, Known(c)
  PROVE  Observed(c) \in SettledState /\ Observed(c) = journal[c]
  BY DEF Known, Observed, SettledState

LEMMA LearntOrGivenUp ==
  ASSUME CommandAssumption, RowsTyped, GuestTyped, NEW c \in Command, Learn(c) \/ GiveUp(c)
  PROVE  \/ row' = row
         \/ Allows(c, "unknown") /\ Writes(c, "unknown", None)
         \/ \E s \in SettledState : journal[c] = s /\ Allows(c, s) /\ Writes(c, s, s)
  <1>1. ASSUME Known(c), Learn(c) PROVE \E s \in SettledState :
          journal[c] = s /\ ((Allows(c, s) /\ Writes(c, s, s)) \/ row' = row)
    BY <1>1, ObservedOutcome, RowIsTried DEF Learn, RowState, Result
  <1>2. ASSUME TrySetRow(c, "unknown", None)
        PROVE  (Allows(c, "unknown") /\ Writes(c, "unknown", None)) \/ row' = row
    BY <1>2, RowIsTried DEF RowState, Result, Dispatched
  <1> QED BY <1>1, <1>2 DEF Learn, GiveUp

\* A command that is dispatched may change its state, and any may be settled.
LEMMA WritesKeepTogether ==
  ASSUME DispatchedTogether, NEW c \in Command, NEW state, NEW result, Writes(c, state, result),
         state \in Dispatched => row[c].state \in Dispatched
  PROVE  DispatchedTogether'
  BY DEF DispatchedTogether, Active, Writes

LEMMA WritesKeepResults ==
  ASSUME ResultIsTheGuests, NEW c \in Command, NEW state, NEW result, Writes(c, state, result),
         body' = body, result \in SettledState => body[c] = result
  PROVE  ResultIsTheGuests'
  BY DEF ResultIsTheGuests, Writes

LEMMA SameRows ==
  ASSUME row' = row
  PROVE  /\ DispatchedTogether => DispatchedTogether'
         /\ Listed /\ seen' = seen => Listed'
         /\ ResultIsTheGuests /\ body' = body => ResultIsTheGuests'
  BY DEF DispatchedTogether, ResultIsTheGuests, Active, Listed

LEMMA WrapperIsSet ==
  ASSUME GuestTyped, NEW c \in Command, NEW i \in Delivery,
         NEW w \in {"none", "inflight", "answering", "gone"} \cup Holding,
         wrapper' = [wrapper EXCEPT ![c][i] = w]
  PROVE  wrapper' \in [Command -> [Delivery ->
           {"none", "inflight", "answering", "gone"} \cup Holding]]
  BY DEF GuestTyped

LEMMA QueuedAreRetired ==
  ASSUME RowsTyped, NEW a \in Attempt, Claim(a)
  PROVE  /\ row' \in [Command -> Record]
         /\ \A c \in Command :
              /\ row'[c].owner = row[c].owner
              /\ row[c].state # "queued" => row'[c] = row[c]
              /\ row[c].state = "queued" =>
                   row'[c].state = "failed" /\ row'[c].result = "undispatched"
  <1> DEFINE R(c) == [row[c] EXCEPT !.state = "failed", !.result = "undispatched"]
  <1>1. \A c \in Command : row[c] \in Record
    BY DEF RowsTyped
  <1>2. \A c \in Command : /\ R(c) \in Record /\ R(c).owner = row[c].owner
                           /\ R(c).state = "failed" /\ R(c).result = "undispatched"
    BY <1>1 DEF Record, RowState, Result, SettledState
  <1>3. row' = [c \in Command |-> IF row[c].state = "queued" THEN R(c) ELSE row[c]]
    BY DEF Claim
  <1> HIDE DEF R
  <1> QED BY <1>1, <1>2, <1>3

LEMMA NewRow ==
  ASSUME CommandAssumption, RowsTyped, NEW a \in Attempt, NEW c \in Command, Begin(a, c)
  PROVE  /\ row' \in [Command -> Record]
         /\ \A d \in Command \ {c} : row'[d] = row[d]
         /\ row'[c].state = "queued" /\ row'[c].owner = a /\ row'[c].result = None
  <1> DEFINE taken == {d \in Command : row[d].state # "absent"}
             r == [state |-> "queued", owner |-> a, result |-> None,
                   order |-> Cardinality(taken)]
  <1>1. Cardinality(taken) \in 0 .. Cardinality(Command)
    <2>1. IsFiniteSet(taken) /\ Cardinality(taken) <= Cardinality(Command)
      BY FS_Subset DEF CommandAssumption
    <2>2. Cardinality(taken) \in Nat /\ Cardinality(Command) \in Nat
      BY <2>1, FS_CardinalityType DEF CommandAssumption
    <2> QED BY <2>1, <2>2
  <1>2. r \in Record
    BY <1>1 DEF Record, RowState, Result
  <1>3. row' = [row EXCEPT ![c] = r]
    BY DEF Begin
  <1>4. r.state = "queued" /\ r.owner = a /\ r.result = None
    OBVIOUS
  <1> HIDE DEF r
  <1> QED BY <1>2, <1>3, <1>4 DEF RowsTyped

LEMMA WritesKeepListed ==
  ASSUME Listed, NEW c \in Command, NEW state, NEW result, Writes(c, state, result),
         state \notin {"absent", "queued"}, seen' = seen
  PROVE  Listed'
  BY DEF Listed, Writes

LEMMA KeepLoseRequest ==
  ASSUME CommandAssumption, Rows, NEW c \in Command, NEW i \in Delivery, LoseRequest(c, i)
  PROVE  Rows'
  <1>1. RowsTyped'
    BY DEF LoseRequest, Rows, RowsTyped, store
  <1>2. AttemptsTyped'
    BY DEF LoseRequest, Rows, AttemptsTyped, store
  <1>3. GuestTyped'
    BY DEF LoseRequest, Rows, GuestTyped
  <1>4. Journals'
    BY DEF LoseRequest, Rows, Journals
  <1>5. Scripts'
    BY DEF LoseRequest, Rows, Scripts, Holding
  <1>6. CallsAndRows'
    BY DEF LoseRequest, Rows, CallsAndRows, Untouched, store
  <1>7. Listed'
    BY DEF LoseRequest, Rows, Listed, store
  <1>8. DispatchedTogether'
    BY DEF LoseRequest, Rows, DispatchedTogether, Active, store
  <1>9. ResultIsTheGuests'
    BY DEF LoseRequest, Rows, ResultIsTheGuests, store
  <1> QED BY <1>1, <1>2, <1>3, <1>4, <1>5, <1>6, <1>7, <1>8, <1>9 DEF Rows

LEMMA KeepOpenJournal ==
  ASSUME CommandAssumption, Rows, NEW c \in Command, NEW i \in Delivery, OpenJournal(c, i)
  PROVE  Rows'
  <1>1. RowsTyped'
    BY DEF OpenJournal, Rows, RowsTyped, store
  <1>2. AttemptsTyped'
    BY DEF OpenJournal, Rows, AttemptsTyped, store
  <1>3. GuestTyped'
    <2>1. wrapper' \in [Command -> [Delivery ->
            {"none", "inflight", "answering", "gone"} \cup Holding]]
      BY WrapperIsSet DEF OpenJournal, Rows, Holding
    <2> QED BY <2>1 DEF OpenJournal, Rows, GuestTyped
  <1>4. Journals'
    BY DEF CommandAssumption, OpenJournal, JournalLocked, Fresh, Rows, RowsTyped, Record, Result,
       AttemptsTyped, GuestTyped, Journals, Scripts, ResultIsTheGuests, SettledState
  <1>5. Scripts'
    <2>1. PICK w \in {"waiting", "answering"} :
            /\ wrapper' = [wrapper EXCEPT ![c][i] = w]
            /\ (w = "waiting" <=> Fresh(c))
      BY DEF OpenJournal
    <2>2. \A d \in Command, j \in Delivery :
            wrapper'[d][j] = IF d = c /\ j = i THEN w ELSE wrapper[d][j]
      BY <2>1 DEF Rows, GuestTyped
    <2>3. journal' = IF Fresh(c) THEN [journal EXCEPT ![c] = "pending"] ELSE journal
      BY DEF OpenJournal
    <2>4. \A j \in Delivery : wrapper[c][j] \notin Holding
      BY DEF OpenJournal, JournalLocked
    <2>5. body' = body
      BY DEF OpenJournal
    <2> QED BY <2>1, <2>2, <2>3, <2>4, <2>5 DEF Rows, GuestTyped, Scripts, Holding
  <1>6. CallsAndRows'
    BY DEF OpenJournal, Rows, GuestTyped, Scripts, CallsAndRows, Untouched, store
  <1>7. Listed'
    BY DEF OpenJournal, Rows, Listed, store
  <1>8. DispatchedTogether'
    BY DEF OpenJournal, Rows, DispatchedTogether, Active, store
  <1>9. ResultIsTheGuests'
    BY DEF OpenJournal, Rows, ResultIsTheGuests, store
  <1> QED BY <1>1, <1>2, <1>3, <1>4, <1>5, <1>6, <1>7, <1>8, <1>9 DEF Rows

LEMMA KeepStartBody ==
  ASSUME CommandAssumption, Rows, NEW c \in Command, NEW i \in Delivery, StartBody(c, i) PROVE Rows'
  <1>1. RowsTyped'
    BY DEF StartBody, Rows, RowsTyped, store
  <1>2. AttemptsTyped'
    BY DEF StartBody, Rows, AttemptsTyped, store
  <1>3. GuestTyped'
    BY DEF CommandAssumption, StartBody, Rows, GuestTyped, Journals, Scripts, Holding
  <1>4. Journals'
    BY DEF StartBody, Rows, GuestTyped, Journals, Scripts
  <1>5. Scripts'
    BY DEF CommandAssumption, StartBody, Rows, GuestTyped, Scripts, Holding
  <1>6. CallsAndRows'
    BY DEF StartBody, Rows, CallsAndRows, Untouched, store
  <1>7. Listed'
    BY DEF StartBody, Rows, Listed, store
  <1>8. DispatchedTogether'
    BY DEF StartBody, Rows, DispatchedTogether, Active, store
  <1>9. ResultIsTheGuests'
    BY DEF StartBody, Rows, Journals, Scripts, ResultIsTheGuests, SettledState, store
  <1> QED BY <1>1, <1>2, <1>3, <1>4, <1>5, <1>6, <1>7, <1>8, <1>9 DEF Rows

LEMMA KeepEndBody ==
  ASSUME CommandAssumption, Rows, NEW c \in Command, EndBody(c) PROVE Rows'
  <1>1. RowsTyped'
    BY DEF EndBody, Rows, RowsTyped, store
  <1>2. AttemptsTyped'
    BY DEF EndBody, Rows, AttemptsTyped, store
  <1>3. GuestTyped'
    BY DEF EndBody, Rows, GuestTyped
  <1>4. Journals'
    BY DEF EndBody, Rows, Journals, SettledState
  <1>5. Scripts'
    BY DEF EndBody, Rows, Scripts, SettledState
  <1>6. CallsAndRows'
    BY DEF EndBody, Rows, CallsAndRows, Untouched, store
  <1>7. Listed'
    BY DEF EndBody, Rows, Listed, store
  <1>8. DispatchedTogether'
    BY DEF EndBody, Rows, DispatchedTogether, Active, store
  <1>9. ResultIsTheGuests'
    BY DEF EndBody, Rows, ResultIsTheGuests, SettledState, store
  <1> QED BY <1>1, <1>2, <1>3, <1>4, <1>5, <1>6, <1>7, <1>8, <1>9 DEF Rows

LEMMA KeepWriteState ==
  ASSUME CommandAssumption, Rows, NEW c \in Command, NEW i \in Delivery, WriteState(c, i)
  PROVE  Rows'
  <1>1. RowsTyped'
    BY DEF WriteState, Rows, RowsTyped, store
  <1>2. AttemptsTyped'
    BY DEF WriteState, Rows, AttemptsTyped, store
  <1>3. GuestTyped'
    BY DEF WriteState, Rows, GuestTyped, Holding
  <1>4. Journals'
    BY DEF WriteState, Rows, Journals, SettledState
  <1>5. Scripts'
    BY DEF CommandAssumption, WriteState, Rows, GuestTyped, Scripts, Holding
  <1>6. CallsAndRows'
    BY DEF WriteState, Rows, CallsAndRows, Untouched, store
  <1>7. Listed'
    BY DEF WriteState, Rows, Listed, store
  <1>8. DispatchedTogether'
    BY DEF WriteState, Rows, DispatchedTogether, Active, store
  <1>9. ResultIsTheGuests'
    BY DEF WriteState, Rows, ResultIsTheGuests, store
  <1> QED BY <1>1, <1>2, <1>3, <1>4, <1>5, <1>6, <1>7, <1>8, <1>9 DEF Rows

LEMMA KeepCloseLocks ==
  ASSUME CommandAssumption, Rows, NEW c \in Command, NEW i \in Delivery, CloseLocks(c, i)
  PROVE  Rows'
  <1>1. RowsTyped'
    BY DEF CloseLocks, Rows, RowsTyped, store
  <1>2. AttemptsTyped'
    BY DEF CloseLocks, Rows, AttemptsTyped, store
  <1>3. GuestTyped'
    BY DEF CloseLocks, Rows, GuestTyped
  <1>4. Journals'
    BY DEF CloseLocks, Rows, Journals
  <1>5. Scripts'
    BY DEF CloseLocks, Rows, Scripts, Holding
  <1>6. CallsAndRows'
    BY DEF CloseLocks, Rows, CallsAndRows, Untouched, store
  <1>7. Listed'
    BY DEF CloseLocks, Rows, Listed, store
  <1>8. DispatchedTogether'
    BY DEF CloseLocks, Rows, DispatchedTogether, Active, store
  <1>9. ResultIsTheGuests'
    BY DEF CloseLocks, Rows, ResultIsTheGuests, store
  <1> QED BY <1>1, <1>2, <1>3, <1>4, <1>5, <1>6, <1>7, <1>8, <1>9 DEF Rows

LEMMA KeepKillWrapper ==
  ASSUME CommandAssumption, Rows, NEW c \in Command, NEW i \in Delivery, KillWrapper(c, i)
  PROVE  Rows'
  <1>1. RowsTyped'
    BY DEF KillWrapper, Rows, RowsTyped, store
  <1>2. AttemptsTyped'
    BY DEF KillWrapper, Rows, AttemptsTyped, store
  <1>3. GuestTyped'
    BY DEF KillWrapper, Rows, GuestTyped
  <1>4. Journals'
    BY DEF KillWrapper, Rows, Journals
  <1>5. Scripts'
    BY DEF KillWrapper, Rows, Scripts, Holding
  <1>6. CallsAndRows'
    BY DEF KillWrapper, Rows, CallsAndRows, Untouched, Holding, store
  <1>7. Listed'
    BY DEF KillWrapper, Rows, Listed, store
  <1>8. DispatchedTogether'
    BY DEF KillWrapper, Rows, DispatchedTogether, Active, store
  <1>9. ResultIsTheGuests'
    BY DEF KillWrapper, Rows, ResultIsTheGuests, store
  <1> QED BY <1>1, <1>2, <1>3, <1>4, <1>5, <1>6, <1>7, <1>8, <1>9 DEF Rows

LEMMA KeepBegin ==
  ASSUME CommandAssumption, Rows, NEW a \in Attempt, NEW c \in Command, Begin(a, c) PROVE Rows'
  <1>w. /\ row' \in [Command -> Record]
        /\ \A d \in Command \ {c} : row'[d] = row[d]
        /\ row'[c].state = "queued" /\ row'[c].owner = a /\ row'[c].result = None
    BY NewRow DEF Rows
  <1>1. RowsTyped'
    BY <1>w DEF Begin, Rows, RowsTyped
  <1>2. AttemptsTyped'
    BY <1>w DEF Begin, Rows, AttemptsTyped
  <1>3. GuestTyped'
    BY <1>w DEF Begin, Rows, GuestTyped, guest
  <1>4. Journals'
    BY <1>w DEF Begin, Rows, Journals, guest
  <1>5. Scripts'
    BY <1>w DEF Begin, Rows, Scripts, guest
  <1>6. CallsAndRows'
    BY <1>w DEF CommandAssumption, Begin, Rows, RowsTyped, CallsAndRows, Untouched, SettledState,
       guest
  <1>7. Listed'
    BY <1>w DEF CommandAssumption, Begin, Rows, Listed, Dispatched
  <1>8. DispatchedTogether'
    BY <1>w DEF Rows, DispatchedTogether, Active, Dispatched
  <1>9. ResultIsTheGuests'
    BY <1>w DEF CommandAssumption, Begin, Rows, ResultIsTheGuests, SettledState, guest
  <1> QED BY <1>1, <1>2, <1>3, <1>4, <1>5, <1>6, <1>7, <1>8, <1>9 DEF Rows

LEMMA AdmitWrites ==
  ASSUME CommandAssumption, Rows, NEW c \in Command, Admit(c)
  PROVE  Writes(c, "pending", None)
  BY RowIsSet DEF Admit, Rows, RowState, Result, Dispatched

LEMMA KeepAdmit ==
  ASSUME CommandAssumption, Rows, NEW c \in Command, Admit(c) PROVE Rows'
  <1>w. Writes(c, "pending", None)
    BY AdmitWrites
  <1>1. RowsTyped'
    BY <1>w DEF Admit, Rows, RowsTyped, Writes
  <1>2. AttemptsTyped'
    BY <1>w DEF Admit, Rows, AttemptsTyped
  <1>3. GuestTyped'
    BY <1>w DEF Admit, Rows, GuestTyped, guest
  <1>4. Journals'
    BY <1>w DEF Admit, Rows, Journals, guest
  <1>5. Scripts'
    BY <1>w DEF Admit, Rows, Scripts, guest
  <1>6. CallsAndRows'
    BY <1>w DEF Admit, Rows, CallsAndRows, Untouched, SettledState, guest, Writes
  <1>7. Listed'
    BY <1>w, WritesKeepListed DEF Admit, Rows
  <1>8. DispatchedTogether'
    BY <1>w DEF Admit, InTurn, DispatchedTogether, Active, Writes
  <1>9. ResultIsTheGuests'
    BY <1>w DEF Admit, Rows, ResultIsTheGuests, guest, Writes
  <1> QED BY <1>1, <1>2, <1>3, <1>4, <1>5, <1>6, <1>7, <1>8, <1>9 DEF Rows

LEMMA NotDispatchedWrites ==
  ASSUME CommandAssumption, Rows, NEW c \in Command, NotDispatched(c)
  PROVE  \/ Allows(c, "failed") /\ Writes(c, "failed", "undispatched")
         \/ ~Allows(c, "failed") /\ row' = row
  BY RowIsTried DEF NotDispatched, Rows, RowState, Result, SettledState

LEMMA KeepNotDispatched ==
  ASSUME CommandAssumption, Rows, NEW c \in Command, NotDispatched(c) PROVE Rows'
  <1>w. \/ Allows(c, "failed") /\ Writes(c, "failed", "undispatched")
        \/ ~Allows(c, "failed") /\ row' = row
    BY NotDispatchedWrites
  <1>1. RowsTyped'
    BY <1>w DEF NotDispatched, Rows, RowsTyped, Writes
  <1>2. AttemptsTyped'
    BY <1>w DEF NotDispatched, Rows, AttemptsTyped
  <1>3. GuestTyped'
    BY <1>w DEF NotDispatched, Rows, GuestTyped, guest
  <1>4. Journals'
    BY <1>w DEF NotDispatched, Rows, Journals, guest
  <1>5. Scripts'
    BY <1>w DEF NotDispatched, Rows, Scripts, guest
  <1>6. CallsAndRows'
    BY <1>w DEF CommandAssumption, NotDispatched, Rows, CallsAndRows, Untouched, SettledState,
       guest, Writes
  <1>7. Listed'
    BY <1>w, WritesKeepListed, SameRows DEF NotDispatched, Rows, SettledState, store
  <1>8. DispatchedTogether'
    BY <1>w, WritesKeepTogether, SameRows DEF Rows, Dispatched
  <1>9. ResultIsTheGuests'
    BY <1>w, WritesKeepResults, SameRows DEF NotDispatched, Rows, SettledState, guest
  <1> QED BY <1>1, <1>2, <1>3, <1>4, <1>5, <1>6, <1>7, <1>8, <1>9 DEF Rows

LEMMA MarkRunningWrites ==
  ASSUME CommandAssumption, Rows, NEW c \in Command, MarkRunning(c)
  PROVE  \/ Allows(c, "running") /\ Writes(c, "running", None)
         \/ ~Allows(c, "running") /\ row' = row
  BY RowIsTried DEF MarkRunning, Rows, RowState, Result, Dispatched

LEMMA KeepMarkRunning ==
  ASSUME CommandAssumption, Rows, NEW c \in Command, MarkRunning(c) PROVE Rows'
  <1>w. \/ Allows(c, "running") /\ Writes(c, "running", None)
        \/ ~Allows(c, "running") /\ row' = row
    BY MarkRunningWrites
  <1>x. Allows(c, "running") => row[c].state \in Dispatched
    BY DEF MarkRunning, Allows, Rows, RowsTyped, Record, RowState, SettledState, CallsAndRows
  <1>1. RowsTyped'
    BY <1>w DEF MarkRunning, Rows, RowsTyped, Writes
  <1>2. AttemptsTyped'
    BY <1>w DEF MarkRunning, Rows, AttemptsTyped
  <1>3. GuestTyped'
    BY <1>w DEF MarkRunning, Rows, GuestTyped, guest
  <1>4. Journals'
    BY <1>w DEF MarkRunning, Rows, Journals, guest
  <1>5. Scripts'
    BY <1>w DEF MarkRunning, Rows, Scripts, guest
  <1>6. CallsAndRows'
    BY <1>w DEF MarkRunning, Allows, Rows, CallsAndRows, Untouched, SettledState, guest, Writes
  <1>7. Listed'
    BY <1>w, WritesKeepListed, SameRows DEF MarkRunning, Rows, SettledState, store
  <1>8. DispatchedTogether'
    BY <1>w, <1>x, WritesKeepTogether, SameRows DEF Rows
  <1>9. ResultIsTheGuests'
    BY <1>w, WritesKeepResults, SameRows DEF CommandAssumption, MarkRunning, Rows, SettledState,
       guest
  <1> QED BY <1>1, <1>2, <1>3, <1>4, <1>5, <1>6, <1>7, <1>8, <1>9 DEF Rows

LEMMA KeepSend ==
  ASSUME CommandAssumption, Rows, NEW c \in Command, Send(c) PROVE Rows'
  <1>1. RowsTyped'
    BY DEF Send, Rows, RowsTyped, store
  <1>2. AttemptsTyped'
    BY DEF Send, Rows, AttemptsTyped, store
  <1>3. GuestTyped'
    BY DEF Send, Rows, GuestTyped
  <1>4. Journals'
    BY DEF Send, Rows, Journals
  <1>5. Scripts'
    BY DEF Send, Rows, Scripts, Holding
  <1>6. CallsAndRows'
    BY DEF Send, Rows, RowsTyped, CallsAndRows, Untouched, store
  <1>7. Listed'
    BY DEF Send, Rows, Listed, store
  <1>8. DispatchedTogether'
    BY DEF Send, Rows, DispatchedTogether, Active, store
  <1>9. ResultIsTheGuests'
    BY DEF Send, Rows, ResultIsTheGuests, store
  <1> QED BY <1>1, <1>2, <1>3, <1>4, <1>5, <1>6, <1>7, <1>8, <1>9 DEF Rows

LEMMA AnswerWrites ==
  ASSUME CommandAssumption, Rows, NEW c \in Command, NEW i \in Delivery, Answer(c, i)
  PROVE  \/ row' = row
         \/ \E s \in SettledState : journal[c] = s /\ Allows(c, s) /\ Writes(c, s, s)
  BY RowIsTried, ObservedOutcome DEF Answer, Rows, RowState, Result

LEMMA KeepAnswer ==
  ASSUME CommandAssumption, Rows, NEW c \in Command, NEW i \in Delivery, Answer(c, i) PROVE Rows'
  <1>w. \/ row' = row
        \/ \E s \in SettledState : journal[c] = s /\ Allows(c, s) /\ Writes(c, s, s)
    BY AnswerWrites
  <1>1. RowsTyped'
    <2>1. row' \in [Command -> Record]
      BY <1>w DEF Rows, RowsTyped, Writes
    <2> QED BY <2>1 DEF Answer, Rows, RowsTyped
  <1>2. AttemptsTyped'
    BY <1>w DEF Answer, Rows, AttemptsTyped
  <1>3. GuestTyped'
    BY <1>w DEF Answer, Rows, GuestTyped
  <1>4. Journals'
    BY <1>w DEF Answer, Rows, Journals
  <1>5. Scripts'
    BY <1>w DEF CommandAssumption, Answer, Rows, Scripts, Holding
  <1>6. CallsAndRows'
    BY <1>w DEF CommandAssumption, Answer, Rows, RowsTyped, CallsAndRows, Untouched,
       SettledState, Writes
  <1>7. Listed'
    BY <1>w, WritesKeepListed, SameRows DEF Answer, Rows, SettledState, store
  <1>8. DispatchedTogether'
    BY <1>w, WritesKeepTogether, SameRows DEF Rows, SettledState, Dispatched
  <1>9. ResultIsTheGuests'
    BY <1>w, WritesKeepResults, SameRows DEF Answer, Rows, Journals
  <1> QED BY <1>1, <1>2, <1>3, <1>4, <1>5, <1>6, <1>7, <1>8, <1>9 DEF Rows

LEMMA KeepExecFails ==
  ASSUME CommandAssumption, Rows, NEW c \in Command, ExecFails(c) PROVE Rows'
  <1>1. RowsTyped'
    BY DEF ExecFails, Rows, RowsTyped, store
  <1>2. AttemptsTyped'
    BY DEF ExecFails, Rows, AttemptsTyped, store
  <1>3. GuestTyped'
    BY DEF ExecFails, Rows, GuestTyped, guest
  <1>4. Journals'
    BY DEF ExecFails, Rows, Journals, guest
  <1>5. Scripts'
    BY DEF ExecFails, Rows, Scripts, guest
  <1>6. CallsAndRows'
    BY DEF ExecFails, Rows, CallsAndRows, Untouched, store, guest
  <1>7. Listed'
    BY DEF ExecFails, Rows, Listed, store
  <1>8. DispatchedTogether'
    BY DEF ExecFails, Rows, DispatchedTogether, Active, store
  <1>9. ResultIsTheGuests'
    BY DEF ExecFails, Rows, ResultIsTheGuests, store, guest
  <1> QED BY <1>1, <1>2, <1>3, <1>4, <1>5, <1>6, <1>7, <1>8, <1>9 DEF Rows

LEMMA ReconcileWrites ==
  ASSUME CommandAssumption, Rows, NEW c \in Command, Reconcile(c)
  PROVE  \/ row' = row
         \/ Allows(c, "unknown") /\ Writes(c, "unknown", None)
         \/ \E s \in SettledState : journal[c] = s /\ Allows(c, s) /\ Writes(c, s, s)
  BY LearntOrGivenUp DEF Reconcile, Rows

LEMMA KeepReconcile ==
  ASSUME CommandAssumption, Rows, NEW c \in Command, Reconcile(c) PROVE Rows'
  <1>w. \/ row' = row
        \/ Allows(c, "unknown") /\ Writes(c, "unknown", None)
        \/ \E s \in SettledState : journal[c] = s /\ Allows(c, s) /\ Writes(c, s, s)
    BY ReconcileWrites
  <1>1. RowsTyped'
    BY <1>w DEF Reconcile, Rows, RowsTyped, Writes
  <1>2. AttemptsTyped'
    BY <1>w DEF Reconcile, Rows, AttemptsTyped
  <1>3. GuestTyped'
    BY <1>w DEF Reconcile, Rows, GuestTyped, guest
  <1>4. Journals'
    BY <1>w DEF Reconcile, Rows, Journals, guest
  <1>5. Scripts'
    BY <1>w DEF Reconcile, Rows, Scripts, guest
  <1>6. CallsAndRows'
    BY <1>w DEF CommandAssumption, Reconcile, Allows, Rows, CallsAndRows, Untouched,
       SettledState, guest, Writes
  <1>7. Listed'
    BY <1>w, WritesKeepListed, SameRows DEF Reconcile, Rows, SettledState, store
  <1>8. DispatchedTogether'
    BY <1>w, WritesKeepTogether, SameRows DEF Reconcile, Allows, Rows, RowsTyped, Record,
       RowState, CallsAndRows
  <1>9. ResultIsTheGuests'
    BY <1>w, WritesKeepResults, SameRows DEF CommandAssumption, Reconcile, Rows, Journals,
       SettledState, guest
  <1> QED BY <1>1, <1>2, <1>3, <1>4, <1>5, <1>6, <1>7, <1>8, <1>9 DEF Rows

LEMMA KeepStoreFails ==
  ASSUME CommandAssumption, Rows, NEW c \in Command, StoreFails(c) PROVE Rows'
  <1>1. RowsTyped'
    BY DEF StoreFails, Rows, RowsTyped, store
  <1>2. AttemptsTyped'
    BY DEF StoreFails, Rows, AttemptsTyped, store
  <1>3. GuestTyped'
    BY DEF StoreFails, Rows, GuestTyped, guest
  <1>4. Journals'
    BY DEF StoreFails, Rows, Journals, guest
  <1>5. Scripts'
    BY DEF StoreFails, Rows, Scripts, guest
  <1>6. CallsAndRows'
    BY DEF StoreFails, Rows, CallsAndRows, Untouched, store, guest
  <1>7. Listed'
    BY DEF StoreFails, Rows, Listed, store
  <1>8. DispatchedTogether'
    BY DEF StoreFails, Rows, DispatchedTogether, Active, store
  <1>9. ResultIsTheGuests'
    BY DEF StoreFails, Rows, ResultIsTheGuests, store, guest
  <1> QED BY <1>1, <1>2, <1>3, <1>4, <1>5, <1>6, <1>7, <1>8, <1>9 DEF Rows

LEMMA KeepPrepare ==
  ASSUME CommandAssumption, Rows, NEW a \in Attempt, Prepare(a) PROVE Rows'
  <1>1. RowsTyped'
    BY DEF Prepare, Rows, RowsTyped
  <1>2. AttemptsTyped'
    BY DEF Prepare, Unsettled, Rows, AttemptsTyped
  <1>3. GuestTyped'
    BY DEF Prepare, Rows, GuestTyped, guest
  <1>4. Journals'
    BY DEF Prepare, Rows, Journals, guest
  <1>5. Scripts'
    BY DEF Prepare, Rows, Scripts, guest
  <1>6. CallsAndRows'
    BY DEF Prepare, Rows, CallsAndRows, Untouched, guest
  <1>7. Listed'
    BY DEF Prepare, Unsettled, Rows, Listed, Dispatched
  <1>8. DispatchedTogether'
    BY DEF Prepare, Rows, DispatchedTogether, Active
  <1>9. ResultIsTheGuests'
    BY DEF Prepare, Rows, ResultIsTheGuests, guest
  <1> QED BY <1>1, <1>2, <1>3, <1>4, <1>5, <1>6, <1>7, <1>8, <1>9 DEF Rows

LEMMA ReconcileListedWrites ==
  ASSUME CommandAssumption, Rows, NEW a \in Attempt, NEW c \in Command, ReconcileListed(a, c)
  PROVE  \/ row' = row
         \/ seen[a][c] # "queued" /\ Allows(c, "unknown") /\ Writes(c, "unknown", None)
         \/ \E s \in SettledState : journal[c] = s /\ Allows(c, s) /\ Writes(c, s, s)
         \/ seen[a][c] = "queued" /\ Allows(c, "failed") /\ Writes(c, "failed", "undispatched")
  BY LearntOrGivenUp, RowIsTried DEF ReconcileListed, Rows, RowState, Result, SettledState

LEMMA KeepReconcileListed ==
  ASSUME CommandAssumption, Rows, NEW a \in Attempt, NEW c \in Command, ReconcileListed(a, c)
  PROVE  Rows'
  <1>w. \/ row' = row
        \/ seen[a][c] # "queued" /\ Allows(c, "unknown") /\ Writes(c, "unknown", None)
        \/ \E s \in SettledState : journal[c] = s /\ Allows(c, s) /\ Writes(c, s, s)
        \/ seen[a][c] = "queued" /\ Allows(c, "failed") /\ Writes(c, "failed", "undispatched")
    BY ReconcileListedWrites
  <1>x. \/ seen[a][c] = "queued" /\ row[c].state # "absent"
        \/ row[c].state \in Dispatched \cup SettledState
    BY DEF ReconcileListed, Rows, RowsTyped, AttemptsTyped, Record, RowState, Listed
  <1>y. /\ UNCHANGED << owner, call, guest >>
        /\ attempt[a] = "preparing"
        /\ attempt' = attempt \/ attempt' = [attempt EXCEPT ![a] = "gone"]
    BY DEF ReconcileListed, Failed
  <1>1. RowsTyped'
    BY <1>w DEF ReconcileListed, Rows, RowsTyped, Writes
  <1>2. AttemptsTyped'
    BY DEF ReconcileListed, Failed, Rows, AttemptsTyped
  <1>3. GuestTyped'
    BY <1>w DEF ReconcileListed, Rows, GuestTyped, guest
  <1>4. Journals'
    BY <1>w DEF ReconcileListed, Rows, Journals, guest
  <1>5. Scripts'
    BY <1>w DEF ReconcileListed, Rows, Scripts, guest
  <1>6. CallsAndRows'
    <2>1. \A d \in Command :
            /\ row'[d].owner = row[d].owner
            /\ row'[d].state = "absent" <=> row[d].state = "absent"
            /\ row'[d].state = "queued" => row[d].state = "queued"
      BY <1>w, <1>x DEF Writes, SettledState, Dispatched
    <2>2. \A d \in Command : row'[d].result # None <=> row'[d].state \in SettledState
      BY <1>w DEF CommandAssumption, Writes, Rows, CallsAndRows, Allows, SettledState
    <2>3. \A d \in Command : call[d] \notin {"none", "over"} => attempt'[row[d].owner] = "working"
      <3>1. \A d \in Command : row[d].owner \in Attempt \cup {None}
        BY DEF Rows, RowsTyped, Record
      <3> QED BY <3>1, <1>y DEF Rows, AttemptsTyped, CallsAndRows
    <2> QED BY <2>1, <2>2, <2>3, <1>y DEF Rows, CallsAndRows, Untouched, guest
  <1>7. Listed'
    BY <1>w DEF CommandAssumption, ReconcileListed, Rows, Listed, SettledState, Dispatched,
       Writes
  <1>8. DispatchedTogether'
    BY <1>w, <1>x, WritesKeepTogether, SameRows DEF Allows, Rows, SettledState, Dispatched
  <1>9. ResultIsTheGuests'
    BY <1>w, <1>y, WritesKeepResults, SameRows DEF CommandAssumption, Rows, Journals,
       SettledState, guest
  <1> QED BY <1>1, <1>2, <1>3, <1>4, <1>5, <1>6, <1>7, <1>8, <1>9 DEF Rows

LEMMA KeepClaim ==
  ASSUME CommandAssumption, Rows, NEW a \in Attempt, Claim(a) PROVE Rows'
  <1>w. /\ row' \in [Command -> Record]
        /\ \A c \in Command :
             /\ row'[c].owner = row[c].owner
             /\ row[c].state # "queued" => row'[c] = row[c]
             /\ row[c].state = "queued" =>
                  row'[c].state = "failed" /\ row'[c].result = "undispatched"
    BY QueuedAreRetired DEF Rows
  <1>v. MayClaim(a) /\ owner' = a /\ attempt' = [attempt EXCEPT ![a] = "working"]
        /\ UNCHANGED << seen, call, guest >>
    BY DEF Claim
  <1>1. RowsTyped'
    BY <1>w, <1>v DEF Rows, RowsTyped
  <1>2. AttemptsTyped'
    BY <1>w, <1>v DEF Rows, AttemptsTyped
  <1>3. GuestTyped'
    BY <1>w, <1>v DEF Rows, GuestTyped, guest
  <1>4. Journals'
    BY <1>w, <1>v DEF Rows, Journals, guest
  <1>5. Scripts'
    BY <1>w, <1>v DEF Rows, Scripts, guest
  <1>6. CallsAndRows'
    BY <1>w, <1>v DEF CommandAssumption, Rows, CallsAndRows, Untouched, SettledState, guest
  <1>7. Listed'
    BY <1>w, <1>v DEF Rows, Listed
  <1>8. DispatchedTogether'
    BY <1>w, <1>v DEF Rows, DispatchedTogether, Active, Dispatched
  <1>9. ResultIsTheGuests'
    BY <1>w, <1>v DEF Rows, ResultIsTheGuests, SettledState, guest
  <1> QED BY <1>1, <1>2, <1>3, <1>4, <1>5, <1>6, <1>7, <1>8, <1>9 DEF Rows

LEMMA KeepEndAttempt ==
  ASSUME CommandAssumption, Rows, NEW a \in Attempt, EndAttempt(a) PROVE Rows'
  <1>1. RowsTyped'
    BY DEF EndAttempt, Rows, RowsTyped
  <1>2. AttemptsTyped'
    BY DEF EndAttempt, Failed, Rows, AttemptsTyped
  <1>3. GuestTyped'
    BY DEF EndAttempt, Rows, GuestTyped, guest
  <1>4. Journals'
    BY DEF EndAttempt, Rows, Journals, guest
  <1>5. Scripts'
    BY DEF EndAttempt, Rows, Scripts, guest
  <1>6. CallsAndRows'
    BY DEF EndAttempt, Failed, Rows, CallsAndRows, Untouched, guest
  <1>7. Listed'
    BY DEF EndAttempt, Rows, Listed
  <1>8. DispatchedTogether'
    BY DEF EndAttempt, Rows, DispatchedTogether, Active
  <1>9. ResultIsTheGuests'
    BY DEF EndAttempt, Rows, ResultIsTheGuests, guest
  <1> QED BY <1>1, <1>2, <1>3, <1>4, <1>5, <1>6, <1>7, <1>8, <1>9 DEF Rows


-----------------------------------------------------------------------------
(***************************************************************************)
(* While the lock of the workspace is kept.                                *)
(***************************************************************************)
LEMMA WorkingAlone ==
  ASSUME CommandAssumption, Rows, Owned, NEW c \in Command, Alive(c)
  PROVE  \A a \in Attempt : attempt[a] # "preparing"
  <1>1. row[c].owner \in Attempt
    BY DEF Rows, RowsTyped, Record, Alive
  <1> QED BY <1>1 DEF Alive, Owned, OneLive, Live

\* A command whose call has not left is not settled.
LEMMA NotYetSettled ==
  ASSUME CommandAssumption, Rows, Owned, NEW c \in Command, call[c] # "over", Untouched(c)
  PROVE  row[c].state \notin SettledState
  BY DEF Rows, Owned, SettledEnded, Journals, ResultIsTheGuests, Untouched, SettledState

LEMMA OwnedByTheGuest ==
  ASSUME Owned, UNCHANGED << store, call >>, \A c \in Command : Untouched(c) => Untouched(c)'
  PROVE  Owned'
  BY DEF Owned, store, OneLive, Live, ListedStays, SettledEnded

LEMMA OwnLoseRequest ==
  ASSUME CommandAssumption, Rows, Owned, NEW c \in Command, NEW i \in Delivery, LoseRequest(c, i)
  PROVE  Owned'
  BY OwnedByTheGuest DEF LoseRequest, Untouched

LEMMA OwnOpenJournal ==
  ASSUME CommandAssumption, Rows, Owned, NEW c \in Command, NEW i \in Delivery, OpenJournal(c, i)
  PROVE  Owned'
  BY OwnedByTheGuest DEF OpenJournal, Rows, GuestTyped, Untouched

LEMMA OwnStartBody ==
  ASSUME CommandAssumption, Rows, Owned, NEW c \in Command, NEW i \in Delivery, StartBody(c, i)
  PROVE  Owned'
  BY OwnedByTheGuest DEF StartBody, Untouched

LEMMA OwnEndBody ==
  ASSUME CommandAssumption, Rows, Owned, NEW c \in Command, EndBody(c)
  PROVE  Owned'
  BY OwnedByTheGuest DEF EndBody, Untouched

LEMMA OwnWriteState ==
  ASSUME CommandAssumption, Rows, Owned, NEW c \in Command, NEW i \in Delivery, WriteState(c, i)
  PROVE  Owned'
  BY OwnedByTheGuest DEF WriteState, Untouched

LEMMA OwnCloseLocks ==
  ASSUME CommandAssumption, Rows, Owned, NEW c \in Command, NEW i \in Delivery, CloseLocks(c, i)
  PROVE  Owned'
  BY OwnedByTheGuest DEF CloseLocks, Untouched

LEMMA OwnKillWrapper ==
  ASSUME CommandAssumption, Rows, Owned, NEW c \in Command, NEW i \in Delivery, KillWrapper(c, i)
  PROVE  Owned'
  BY OwnedByTheGuest DEF KillWrapper, Untouched, Holding

LEMMA OwnBegin ==
  ASSUME CommandAssumption, Rows, Owned, NEW a \in Attempt, NEW c \in Command, Begin(a, c)
  PROVE  Owned'
  <1>w. /\ row' \in [Command -> Record]
        /\ \A d \in Command \ {c} : row'[d] = row[d]
        /\ row'[c].state = "queued" /\ row'[c].owner = a /\ row'[c].result = None
    BY NewRow DEF Rows
  <1>1. OneLive'
    BY DEF Begin, Owned, OneLive, Live
  <1>2. ListedStays'
    BY <1>w DEF Begin, Owned, OneLive, Live, ListedStays
  <1>3. SettledEnded'
    BY <1>w DEF Begin, Owned, SettledEnded, Untouched, SettledState, guest
  <1> QED BY <1>1, <1>2, <1>3 DEF Owned

LEMMA OwnAdmit ==
  ASSUME CommandAssumption, Rows, Owned, NEW c \in Command, Admit(c)
  PROVE  Owned'
  <1>w. Writes(c, "pending", None)
    BY AdmitWrites
  <1>1. OneLive'
    BY DEF Admit, Owned, OneLive, Live
  <1>2. ListedStays'
    BY <1>w, WorkingAlone DEF Admit, ListedStays
  <1>3. SettledEnded'
    BY <1>w, WorkingAlone DEF Admit, Writes, Owned, SettledEnded, Untouched, SettledState, guest
  <1> QED BY <1>1, <1>2, <1>3 DEF Owned

LEMMA OwnNotDispatched ==
  ASSUME CommandAssumption, Rows, Owned, NEW c \in Command, NotDispatched(c)
  PROVE  Owned'
  <1>w. \/ Allows(c, "failed") /\ Writes(c, "failed", "undispatched")
        \/ ~Allows(c, "failed") /\ row' = row
    BY NotDispatchedWrites
  <1>1. OneLive'
    BY DEF NotDispatched, Owned, OneLive, Live
  <1>2. ListedStays'
    BY <1>w, WorkingAlone, NotYetSettled DEF NotDispatched, ListedStays
  <1>3. SettledEnded'
    BY <1>w, WorkingAlone, NotYetSettled DEF NotDispatched, Writes, Rows, RowsTyped,
       CallsAndRows, Owned, SettledEnded, Untouched, guest
  <1> QED BY <1>1, <1>2, <1>3 DEF Owned

LEMMA OwnMarkRunning ==
  ASSUME CommandAssumption, Rows, Owned, NEW c \in Command, MarkRunning(c)
  PROVE  Owned'
  <1>w. \/ Allows(c, "running") /\ Writes(c, "running", None)
        \/ ~Allows(c, "running") /\ row' = row
    BY MarkRunningWrites
  <1>1. OneLive'
    BY DEF MarkRunning, Owned, OneLive, Live
  <1>2. ListedStays'
    BY <1>w, WorkingAlone, NotYetSettled DEF MarkRunning, ListedStays
  <1>3. SettledEnded'
    BY <1>w, WorkingAlone, NotYetSettled DEF MarkRunning, Writes, Owned, SettledEnded, Untouched,
       SettledState, guest
  <1> QED BY <1>1, <1>2, <1>3 DEF Owned

LEMMA OwnSend ==
  ASSUME CommandAssumption, Rows, Owned, NEW c \in Command, Send(c)
  PROVE  Owned'
  <1>1. OneLive'
    BY DEF Send, Owned, OneLive, Live, store
  <1>2. ListedStays'
    BY DEF Send, Owned, ListedStays, store
  <1>3. SettledEnded'
    BY DEF Send, Owned, SettledEnded, Untouched, store
  <1> QED BY <1>1, <1>2, <1>3 DEF Owned

LEMMA OwnAnswer ==
  ASSUME CommandAssumption, Rows, Owned, NEW c \in Command, NEW i \in Delivery, Answer(c, i)
  PROVE  Owned'
  <1>w. \/ row' = row
        \/ \E s \in SettledState : journal[c] = s /\ Allows(c, s) /\ Writes(c, s, s)
    BY AnswerWrites
  <1>1. OneLive'
    BY DEF Answer, Owned, OneLive, Live
  <1>2. ListedStays'
    BY <1>w, WorkingAlone DEF Answer, Owned, ListedStays
  <1>3. SettledEnded'
    BY <1>w, WorkingAlone DEF Answer, Writes, Rows, RowsTyped, CallsAndRows, Owned, SettledEnded,
       Untouched
  <1> QED BY <1>1, <1>2, <1>3 DEF Owned

LEMMA OwnExecFails ==
  ASSUME CommandAssumption, Rows, Owned, NEW c \in Command, ExecFails(c)
  PROVE  Owned'
  <1>1. OneLive'
    BY DEF ExecFails, Owned, OneLive, Live, store
  <1>2. ListedStays'
    BY DEF ExecFails, Owned, ListedStays, store
  <1>3. SettledEnded'
    BY DEF ExecFails, Owned, SettledEnded, Untouched, store, guest
  <1> QED BY <1>1, <1>2, <1>3 DEF Owned

LEMMA OwnReconcile ==
  ASSUME CommandAssumption, Rows, Owned, NEW c \in Command, Reconcile(c)
  PROVE  Owned'
  <1>w. \/ row' = row
        \/ Allows(c, "unknown") /\ Writes(c, "unknown", None)
        \/ \E s \in SettledState : journal[c] = s /\ Allows(c, s) /\ Writes(c, s, s)
    BY ReconcileWrites
  <1>1. OneLive'
    BY DEF Reconcile, Owned, OneLive, Live
  <1>2. ListedStays'
    BY <1>w, WorkingAlone DEF Reconcile, ListedStays
  <1>3. SettledEnded'
    BY <1>w, WorkingAlone DEF CommandAssumption, Reconcile, Writes, Owned, SettledEnded,
       Untouched, SettledState, guest
  <1> QED BY <1>1, <1>2, <1>3 DEF Owned

LEMMA OwnStoreFails ==
  ASSUME CommandAssumption, Rows, Owned, NEW c \in Command, StoreFails(c)
  PROVE  Owned'
  <1>1. OneLive'
    BY DEF StoreFails, Owned, OneLive, Live, store
  <1>2. ListedStays'
    BY DEF StoreFails, Owned, ListedStays, store
  <1>3. SettledEnded'
    BY DEF StoreFails, Owned, SettledEnded, Untouched, store, guest
  <1> QED BY <1>1, <1>2, <1>3 DEF Owned

LEMMA OwnPrepare ==
  ASSUME CommandAssumption, LockKept, Rows, Owned, NEW a \in Attempt, Prepare(a)
  PROVE  Owned'
  <1>1. OneLive'
    BY DEF Prepare, OneLive, Live
  <1>2. ListedStays'
    BY DEF Prepare, Rows, AttemptsTyped, ListedStays
  <1>3. SettledEnded'
    BY DEF Prepare, Owned, SettledEnded, Untouched, guest
  <1> QED BY <1>1, <1>2, <1>3 DEF Owned

LEMMA OwnReconcileListed ==
  ASSUME CommandAssumption, Rows, Owned, NEW a \in Attempt, NEW c \in Command, ReconcileListed(a, c)
  PROVE  Owned'
  <1>w. \/ row' = row
        \/ seen[a][c] # "queued" /\ Allows(c, "unknown") /\ Writes(c, "unknown", None)
        \/ \E s \in SettledState : journal[c] = s /\ Allows(c, s) /\ Writes(c, s, s)
        \/ seen[a][c] = "queued" /\ Allows(c, "failed") /\ Writes(c, "failed", "undispatched")
    BY ReconcileListedWrites
  <1>1. OneLive'
    BY DEF ReconcileListed, Failed, Rows, AttemptsTyped, Owned, OneLive, Live
  <1>2. ListedStays'
    BY <1>w DEF ReconcileListed, Failed, Writes, Rows, AttemptsTyped, Owned, OneLive, Live,
       ListedStays
  <1>3. SettledEnded'
    BY <1>w DEF CommandAssumption, ReconcileListed, Writes, Rows, Record, RowState, CallsAndRows,
       Owned, OneLive, Live, ListedStays, SettledEnded, Untouched, SettledState, guest
  <1> QED BY <1>1, <1>2, <1>3 DEF Owned

LEMMA OwnClaim ==
  ASSUME CommandAssumption, Rows, Owned, NEW a \in Attempt, Claim(a)
  PROVE  Owned'
  <1>w. /\ row' \in [Command -> Record]
        /\ \A c \in Command :
             /\ row'[c].owner = row[c].owner
             /\ row[c].state # "queued" => row'[c] = row[c]
             /\ row[c].state = "queued" =>
                  row'[c].state = "failed" /\ row'[c].result = "undispatched"
    BY QueuedAreRetired DEF Rows
  <1>1. OneLive'
    BY DEF Claim, MayClaim, Rows, AttemptsTyped, Owned, OneLive, Live
  <1>2. ListedStays'
    <2>1. \A b \in Attempt : attempt'[b] # "preparing"
      BY DEF Claim, MayClaim, Rows, AttemptsTyped, Owned, OneLive, Live
    <2> QED BY <2>1 DEF ListedStays
  <1>3. SettledEnded'
    <2>1. ASSUME NEW c \in Command, row[c].state = "queued" PROVE call[c] = "over" /\ Untouched(c)
      <3>1. row[c].owner \in Attempt
        BY <2>1 DEF Rows, RowsTyped, Record, CallsAndRows
      <3>2. attempt[row[c].owner] # "working"
        BY <3>1 DEF Claim, MayClaim, Owned, OneLive, Live
      <3> QED BY <2>1, <3>2 DEF Rows, CallsAndRows
    <2>2. UNCHANGED << call, guest >>
      BY DEF Claim
    <2> QED BY <1>w, <2>1, <2>2 DEF Owned, SettledEnded, Untouched, guest
  <1> QED BY <1>1, <1>2, <1>3 DEF Owned

LEMMA OwnEndAttempt ==
  ASSUME CommandAssumption, Rows, Owned, NEW a \in Attempt, EndAttempt(a)
  PROVE  Owned'
  <1>1. OneLive'
    BY DEF EndAttempt, Failed, Owned, OneLive, Live
  <1>2. ListedStays'
    BY DEF EndAttempt, Failed, Owned, ListedStays
  <1>3. SettledEnded'
    BY DEF EndAttempt, Owned, SettledEnded, Untouched, guest
  <1> QED BY <1>1, <1>2, <1>3 DEF Owned

-----------------------------------------------------------------------------
LEMMA RowsInit == ASSUME CommandAssumption, Init PROVE Rows
  <1>1. 0 \in 0 .. Cardinality(Command)
    BY FS_CardinalityType DEF CommandAssumption
  <1>2. RowsTyped /\ AttemptsTyped /\ GuestTyped
    BY <1>1 DEF CommandAssumption, Init, RowsTyped, Record, RowState, Result, AttemptsTyped,
       GuestTyped
  <1>3. Journals /\ Scripts /\ CallsAndRows /\ Listed
    BY DEF Init, Journals, Scripts, CallsAndRows, Listed, Untouched, SettledState, Holding
  <1>4. DispatchedTogether /\ ResultIsTheGuests
    BY DEF CommandAssumption, Init, DispatchedTogether, ResultIsTheGuests, Active, Dispatched,
       SettledState
  <1> QED BY <1>2, <1>3, <1>4 DEF Rows

LEMMA RowsNext ==
  ASSUME CommandAssumption, Rows, [Next]_vars
  PROVE  Rows'
  <1>1. ASSUME NEW c \in Command, CoordinatorStep(c) \/ StoreFails(c) \/ EndBody(c) PROVE Rows'
    BY <1>1, KeepAdmit, KeepNotDispatched, KeepMarkRunning, KeepSend, KeepExecFails,
       KeepReconcile, KeepStoreFails, KeepEndBody DEF CoordinatorStep
  <1>2. ASSUME NEW c \in Command, NEW i \in Delivery, GuestStep(c, i) PROVE Rows'
    BY <1>2, KeepLoseRequest, KeepOpenJournal, KeepStartBody, KeepWriteState, KeepCloseLocks,
       KeepKillWrapper, KeepAnswer DEF GuestStep
  <1>3. ASSUME NEW a \in Attempt, NEW c \in Command, Begin(a, c) \/ ReconcileListed(a, c)
        PROVE  Rows'
    BY <1>3, KeepBegin, KeepReconcileListed
  <1>4. ASSUME NEW a \in Attempt, Prepare(a) \/ Claim(a) \/ EndAttempt(a) PROVE Rows'
    BY <1>4, KeepPrepare, KeepClaim, KeepEndAttempt
  <1>5. CASE UNCHANGED vars
    BY <1>5 DEF vars, Rows, RowsTyped, AttemptsTyped, GuestTyped, Journals, Scripts,
       CallsAndRows, Listed, Untouched, DispatchedTogether, Active, ResultIsTheGuests
  <1> QED BY <1>1, <1>2, <1>3, <1>4, <1>5 DEF Next

LEMMA OwnedInit == ASSUME CommandAssumption, Init PROVE Owned
  BY DEF Init, Owned, OneLive, Live, ListedStays, SettledEnded, SettledState

LEMMA OwnedNext ==
  ASSUME CommandAssumption, LockKept, Rows, Owned, [Next]_vars
  PROVE  Owned'
  <1>1. ASSUME NEW c \in Command, CoordinatorStep(c) \/ StoreFails(c) \/ EndBody(c) PROVE Owned'
    BY <1>1, OwnAdmit, OwnNotDispatched, OwnMarkRunning, OwnSend, OwnExecFails, OwnReconcile,
       OwnStoreFails, OwnEndBody DEF CoordinatorStep
  <1>2. ASSUME NEW c \in Command, NEW i \in Delivery, GuestStep(c, i) PROVE Owned'
    BY <1>2, OwnLoseRequest, OwnOpenJournal, OwnStartBody, OwnWriteState, OwnCloseLocks,
       OwnKillWrapper, OwnAnswer DEF GuestStep
  <1>3. ASSUME NEW a \in Attempt, NEW c \in Command, Begin(a, c) \/ ReconcileListed(a, c)
        PROVE  Owned'
    BY <1>3, OwnBegin, OwnReconcileListed
  <1>4. ASSUME NEW a \in Attempt, Prepare(a) \/ Claim(a) \/ EndAttempt(a) PROVE Owned'
    BY <1>4, OwnPrepare, OwnClaim, OwnEndAttempt
  <1>5. CASE UNCHANGED vars
    BY <1>5 DEF vars, Owned, OneLive, Live, ListedStays, SettledEnded, Untouched
  <1> QED BY <1>1, <1>2, <1>3, <1>4, <1>5 DEF Next

-----------------------------------------------------------------------------
LEMMA AlwaysRows == ASSUME CommandAssumption PROVE Spec => []Rows
  <1>1. Init => Rows
    BY RowsInit
  <1>2. Rows /\ [Next]_vars => Rows'
    BY RowsNext
  <1> QED BY <1>1, <1>2, PTL DEF Spec

\* The type invariant.
THEOREM CommandsAreTyped == ASSUME CommandAssumption PROVE Spec => []TypeOK
  <1>1. Rows => TypeOK
    BY DEF Rows, RowsTyped, AttemptsTyped, GuestTyped, TypeOK, Record, RowState, Result
  <1> QED BY <1>1, AlwaysRows, PTL

\* execution-coordinator.ts, guest-command.ts: the body of a command is started
\* at most once, whatever is delivered twice, lost, killed or superseded.
THEOREM BodiesRunOnce == ASSUME CommandAssumption PROVE Spec => []RunsOnce
  <1>1. Rows => RunsOnce
    BY DEF Rows, Journals, RunsOnce
  <1> QED BY <1>1, AlwaysRows, PTL

\* commands.ts, updateCommand: an outcome is stored only when the body had it,
\* also when the attempt that stores it has been superseded.
THEOREM ResultsAreTheGuests == ASSUME CommandAssumption PROVE Spec => []ResultIsTheGuests
  <1>1. Rows => ResultIsTheGuests
    BY DEF Rows
  <1> QED BY <1>1, AlwaysRows, PTL

\* What holds of a state in which the lock was kept all along.
LEMMA KeptIsSafe ==
  ASSUME CommandAssumption, Rows, Owned
  PROVE  SettledIsOver /\ OnlyReadsTogether /\ RetiredNeverRuns
  <1>1. \A c \in Command : Untouched(c) => body[c] = "none" /\ starts[c] = 0
    BY DEF Rows, Journals, Untouched
  <1>2. SettledIsOver
    BY <1>1 DEF Rows, Owned, SettledEnded, ResultIsTheGuests, Untouched, SettledIsOver,
       SettledState
  <1>3. \A c \in Command : body[c] = "running" => c \in Active
    <2>1. SUFFICES ASSUME NEW c \in Command, body[c] = "running" PROVE c \in Active
      OBVIOUS
    <2>2. row[c].state \notin {"absent", "queued"}
      BY <1>1, <2>1 DEF Rows, CallsAndRows
    <2>3. row[c].state \notin SettledState
      BY <1>2, <2>1 DEF SettledIsOver
    <2> QED BY <2>2, <2>3 DEF Rows, RowsTyped, Record, RowState, Active
  <1>4. OnlyReadsTogether
    BY <1>3 DEF Rows, DispatchedTogether, OnlyReadsTogether
  <1>5. RetiredNeverRuns
    BY <1>1 DEF CommandAssumption, Rows, CallsAndRows, Owned, SettledEnded, RetiredNeverRuns,
       SettledState
  <1> QED BY <1>2, <1>4, <1>5

\* While the workspace lock is kept: who is admitted after a settled command
\* has the workspace for itself, commands run beside each other only if all are
\* reads, and a command retired as never dispatched is never run.
THEOREM WorkspaceIsExclusive ==
  ASSUME CommandAssumption, LockKept
  PROVE  Spec => [](SettledIsOver /\ OnlyReadsTogether /\ RetiredNeverRuns)
  <1> DEFINE Inv == Rows /\ Owned
  <1>1. Init => Inv
    BY RowsInit, OwnedInit
  <1>2. Inv /\ [Next]_vars => Inv'
    BY RowsNext, OwnedNext
  <1>3. Inv => SettledIsOver /\ OnlyReadsTogether /\ RetiredNeverRuns
    BY KeptIsSafe
  <1> QED BY <1>1, <1>2, <1>3, PTL DEF Spec
=============================================================================
