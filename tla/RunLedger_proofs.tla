--------------------------- MODULE RunLedger_proofs ---------------------------
(***************************************************************************)
(* Proofs about RunLedger for any number of runs and workers and any       *)
(* limits.                                                                 *)
(***************************************************************************)
EXTENDS RunLedger, SequenceTheorems, TLAPS

-----------------------------------------------------------------------------
(* Lemmas about the histories of a row. *)

\* Appending an event keeps the earlier ones and makes the new one the last.
LEMMA AppendKeepsHistory ==
    ASSUME NEW e \in Seq(Events), NEW v \in Events
    PROVE  /\ Append(e, v) \in Seq(Events)
           /\ Append(e, v) # << >>
           /\ Len(Append(e, v)) = Len(e) + 1
           /\ DOMAIN Append(e, v) = 1 .. Len(e) + 1
           /\ \A i \in DOMAIN e : Append(e, v)[i] = e[i]
           /\ LastOf(Append(e, v)) = v
BY AppendProperties, LenProperties, SMT DEF LastOf

\* An event that is not a dispatch fence leaves the dispatches of a row alone.
LEMMA AppendOtherEvent ==
    ASSUME NEW x \in Rows, NEW y \in Rows, NEW v \in Events,
           v.type # "dispatch_fenced", y.events = Append(x.events, v)
    PROVE  Dispatches(y) = Dispatches(x)
<1>1. x.events \in Seq(Events)
  BY DEF Rows
<1>2. DOMAIN x.events = 1 .. Len(x.events) /\ Len(x.events) \in Nat
  BY <1>1, LenProperties
<1>3. y.events[Len(x.events) + 1] = v
  BY <1>1, <1>2, AppendKeepsHistory DEF LastOf
<1>4. DOMAIN y.events = 1 .. Len(x.events) + 1
      /\ \A i \in DOMAIN x.events : y.events[i] = x.events[i]
  BY <1>1, AppendKeepsHistory
<1>5. QED
  BY <1>2, <1>3, <1>4 DEF Dispatches

\* Moving the active attempt keeps the number and the type of the attempts.
LEMMA MoveAttemptType ==
    ASSUME NEW x \in Rows, NEW s \in AttemptStatuses \cup TerminalStatuses,
           NEW code \in RunFailureCodes \cup {NoCode}
    PROVE  /\ MoveAttempt(x, s, code) \in Seq(Attempts)
           /\ Len(MoveAttempt(x, s, code)) = Len(x.attempts)
           /\ DOMAIN MoveAttempt(x, s, code) = DOMAIN x.attempts
           /\ \A i \in DOMAIN x.attempts :
                /\ MoveAttempt(x, s, code)[i].leaseEpoch = x.attempts[i].leaseEpoch
                /\ i \in ActiveAttempt(x) => MoveAttempt(x, s, code)[i].status = s
                /\ i \notin ActiveAttempt(x) => MoveAttempt(x, s, code)[i] = x.attempts[i]
<1>1. x.attempts \in Seq(Attempts)
  BY DEF Rows
<1>2. /\ Len(x.attempts) \in Nat
      /\ DOMAIN x.attempts = 1 .. Len(x.attempts)
      /\ \A i \in DOMAIN x.attempts : x.attempts[i] \in Attempts
  BY <1>1, LenProperties, ElementOfSeq
<1>3. \A i \in DOMAIN x.attempts :
         /\ [x.attempts[i] EXCEPT !.status = s, !.safeErrorCode = code] \in Attempts
         /\ [x.attempts[i] EXCEPT !.status = s, !.safeErrorCode = code].leaseEpoch
              = x.attempts[i].leaseEpoch
         /\ [x.attempts[i] EXCEPT !.status = s, !.safeErrorCode = code].status = s
  BY <1>2 DEF Attempts
<1>4. MoveAttempt(x, s, code) \in [1 .. Len(x.attempts) -> Attempts]
  BY <1>2, <1>3 DEF MoveAttempt
<1>5. /\ MoveAttempt(x, s, code) \in Seq(Attempts)
      /\ Len(MoveAttempt(x, s, code)) = Len(x.attempts)
  BY <1>2, <1>4, SeqDef
<1>6. QED
  BY <1>2, <1>3, <1>5 DEF MoveAttempt

\* In a consistent row the active attempt is the latest, and exists exactly while the
\* job is leased.
LEMMA ActiveAttemptIsLast ==
    ASSUME NEW x \in Rows, RowProjections(x)
    PROVE  /\ x.jobStatus = "leased" => ActiveAttempt(x) = {Len(x.attempts)}
           /\ x.jobStatus # "leased" => ActiveAttempt(x) = {}
<1>1. x.attempts \in Seq(Attempts)
  BY DEF Rows
<1>2. /\ Len(x.attempts) \in Nat
      /\ DOMAIN x.attempts = 1 .. Len(x.attempts)
  BY <1>1, LenProperties
<1>3. "failed" \notin AttemptStatuses
  BY DEF AttemptStatuses
<1>4. CASE x.jobStatus = "leased"
  BY <1>2, <1>3, <1>4 DEF RowProjections, ActiveAttempt
<1>5. CASE x.jobStatus # "leased"
  BY <1>2, <1>3, <1>5 DEF RowProjections, ActiveAttempt
<1>6. QED
  BY <1>4, <1>5
-----------------------------------------------------------------------------
(* Every row transformer keeps a consistent row consistent. *)

\* The inductive invariant of one row.
RowOK(x) ==
    /\ RowProjections(x)
    /\ RowLease(x)
    /\ RowReplay(x)
    /\ RowOneDispatch(x)
    /\ RowHonest(x)
    /\ RowContent(x)

\* An outcome that agrees with whether the run crossed the dispatch fence.
HonestEnd(x, s, code) ==
    x.status = "dispatch_fenced" <=>
        s \in {"succeeded", "indeterminate"} \/ (s = "failed" /\ code \in ToolFailureCodes)

Codes == RunFailureCodes \cup {NoCode}

\* The identity of no run is a consistent row.
LEMMA NoRowOK ==
    ASSUME NEW s \in {"absent", "deleted"}
    PROVE  NoRow(s) \in Rows /\ RowOK(NoRow(s))
<1>1. << >> \in Seq(Attempts) /\ << >> \in Seq(Events) /\ Len(<< >>) = 0
  BY EmptySeq
<1>2. NoRow(s) \in Rows
  BY <1>1 DEF NoRow, Rows, NoCode, NoTime
<1>3. RowProjections(NoRow(s)) /\ RowLease(NoRow(s)) /\ RowReplay(NoRow(s))
  BY <1>1 DEF NoRow, RowProjections, RowLease, RowReplay, Active, Terminal, NoTime,
              AttemptStatuses, TerminalStatuses, ActiveStatuses, UndispatchedStatuses
<1>4. Dispatches(NoRow(s)) = {}
  BY <1>1 DEF NoRow, Dispatches
<1>5. RowOneDispatch(NoRow(s)) /\ RowHonest(NoRow(s)) /\ RowContent(NoRow(s))
  BY <1>4 DEF RowOneDispatch, RowHonest, RowContent, NoRow, Active, Terminal, NoTime,
              TerminalStatuses, ActiveStatuses, UndispatchedStatuses
<1>6. QED
  BY <1>2, <1>3, <1>5 DEF RowOK

\* _terminalize_run settles an active row honestly and consistently.
LEMMA TerminalizeOK ==
    ASSUME NEW x \in Rows, RowOK(x), Active(x),
           NEW s \in TerminalStatuses, NEW at \in Nat \ {0}, NEW code \in Codes,
           NEW type \in RunEventTypes \ {"dispatch_fenced"},
           HonestEnd(x, s, code)
    PROVE  LET y == TerminalizeRun(x, s, at, code, type) IN
           /\ y \in Rows /\ RowOK(y) /\ Terminal(y)
           /\ y.status = s /\ y.safeErrorCode = code /\ y.terminalAt = at
           /\ y.events = AppendNextEvent(x, type, s)
           /\ y.arguments = x.arguments /\ y.resultExpiresAt = NoTime
           /\ y.executionEpoch = x.executionEpoch /\ y.leaseEpoch = x.leaseEpoch
           /\ y.createdAt = x.createdAt
<1> DEFINE y == TerminalizeRun(x, s, at, code, type)
<1>1. /\ y.status = s /\ y.safeErrorCode = code /\ y.terminalAt = at
      /\ y.jobStatus = s /\ y.leaseOwner = NoWorker /\ y.leaseExpiresAt = NoTime
      /\ y.attempts = MoveAttempt(x, s, code)
      /\ y.events = AppendNextEvent(x, type, s)
      /\ y.arguments = x.arguments /\ y.resultExpiresAt = x.resultExpiresAt
      /\ y.leaseEpoch = x.leaseEpoch /\ y.executionEpoch = x.executionEpoch
      /\ y.createdAt = x.createdAt
  BY DEF TerminalizeRun, Rows
<1>2. [type |-> type, status |-> s] \in Events
  BY DEF Events
<1>3. x.events \in Seq(Events) /\ x.attempts \in Seq(Attempts)
  BY DEF Rows
<1>4. /\ y.events \in Seq(Events) /\ y.events # << >>
      /\ LastOf(y.events) = [type |-> type, status |-> s]
  BY <1>1, <1>2, <1>3, AppendKeepsHistory DEF AppendNextEvent
<1>5. MoveAttempt(x, s, code) \in Seq(Attempts)
  BY MoveAttemptType DEF Codes
<1>6. y \in Rows
  BY <1>4, <1>1, <1>5 DEF TerminalizeRun, Rows, Codes, NoTime
<1>7. Dispatches(y) = Dispatches(x)
  BY <1>1, <1>2, <1>6, AppendOtherEvent DEF AppendNextEvent
<1>8. Terminal(y) /\ ~Active(y) /\ s \notin AttemptStatuses /\ s # "queued"
  BY <1>1 DEF Terminal, Active, TerminalStatuses, ActiveStatuses, UndispatchedStatuses,
              AttemptStatuses
<1>9. RowProjections(y)
  <2>1. s # "leased"
    BY DEF TerminalStatuses
  <2>2. Len(y.attempts) = y.leaseEpoch
    BY <1>1, MoveAttemptType DEF RowOK, RowProjections, Codes
  <2>3. ASSUME NEW i \in DOMAIN y.attempts
        PROVE  /\ y.attempts[i].leaseEpoch = i
               /\ i < Len(y.attempts) => y.attempts[i].status = "failed"
               /\ i = Len(y.attempts) => y.attempts[i].status = s
    <3>1. i \in DOMAIN x.attempts /\ Len(y.attempts) = Len(x.attempts)
      BY <1>1, <2>3, MoveAttemptType DEF Codes
    <3>2. /\ y.attempts[i].leaseEpoch = x.attempts[i].leaseEpoch
          /\ i \in ActiveAttempt(x) => y.attempts[i].status = s
          /\ i \notin ActiveAttempt(x) => y.attempts[i] = x.attempts[i]
      BY <1>1, <3>1, MoveAttemptType DEF Codes
    <3>3. CASE x.jobStatus = "leased"
      BY <3>1, <3>2, <3>3, ActiveAttemptIsLast DEF RowOK, RowProjections
    <3>4. CASE x.jobStatus # "leased"
      <4>1. x.status = "queued"
        BY <3>4 DEF RowOK, RowProjections, Active, ActiveStatuses, UndispatchedStatuses,
                    AttemptStatuses
      <4>2. x.attempts[Len(x.attempts)].status = "queued"
            /\ Len(x.attempts) \in DOMAIN x.attempts
        BY <1>3, <3>1, <4>1, LenProperties DEF RowOK, RowProjections
      <4>3. x.attempts[Len(x.attempts)] \in Attempts
        BY <1>3, <4>2, LenProperties, ElementOfSeq
      <4>4. QED
        BY <4>2, <4>3 DEF Attempts, AttemptStatuses, TerminalStatuses
    <3>5. QED
      BY <3>3, <3>4
  <2>4. QED
    BY <1>1, <1>8, <2>1, <2>2, <2>3 DEF RowProjections
<1>10. RowLease(y) /\ RowReplay(y)
  BY <1>1, <1>4, <1>8 DEF RowLease, RowReplay, TerminalStatuses
<1>11. RowOneDispatch(y)
  BY <1>7 DEF RowOK, RowOneDispatch
<1>12. RowHonest(y)
  <2>1. Dispatches(x) # {} <=> x.status = "dispatch_fenced"
    BY DEF RowOK, RowHonest, Active, ActiveStatuses, UndispatchedStatuses
  <2>2. s # "dispatch_fenced"
    BY DEF TerminalStatuses
  <2>3. QED
    BY <1>1, <1>7, <2>1, <2>2 DEF HonestEnd, RowHonest
<1>13. RowContent(y) /\ y.resultExpiresAt = NoTime
  <2>1. x.resultExpiresAt = NoTime
    BY DEF RowOK, RowContent, Active, ActiveStatuses, UndispatchedStatuses
  <2>2. at # NoTime
    BY DEF NoTime
  <2>3. QED
    BY <1>1, <1>8, <2>1, <2>2 DEF RowContent
<1>14. QED
  BY <1>1, <1>6, <1>8, <1>9, <1>10, <1>11, <1>12, <1>13 DEF RowOK

\* A row that differs only in its cancellation flag, in retained content that may be
\* dropped and in at most one more event of its own status stays consistent.
LEMMA AnnotateOK ==
    ASSUME NEW x \in Rows, RowOK(x), NEW y \in Rows,
           y.status = x.status, y.safeErrorCode = x.safeErrorCode,
           y.jobStatus = x.jobStatus, y.leaseOwner = x.leaseOwner,
           y.leaseEpoch = x.leaseEpoch, y.leaseExpiresAt = x.leaseExpiresAt,
           y.deadline = x.deadline, y.attempts = x.attempts,
           y.terminalAt = x.terminalAt,
           Active(x) => y.arguments = x.arguments, y.arguments => x.arguments,
           y.resultExpiresAt \in {x.resultExpiresAt, NoTime},
           NEW v \in Events, v.type # "dispatch_fenced", v.status = x.status,
           y.events = x.events \/ y.events = Append(x.events, v)
    PROVE  RowOK(y)
<1>1. x.events \in Seq(Events)
  BY DEF Rows
<1>2. Dispatches(y) = Dispatches(x)
  BY AppendOtherEvent DEF Dispatches
<1>3. RowReplay(y)
  <2>1. CASE y.events = x.events
    BY <2>1 DEF RowOK, RowReplay, Active, Terminal
  <2>2. CASE y.events = Append(x.events, v)
    BY <1>1, <2>2, AppendKeepsHistory DEF RowReplay
  <2>3. QED
    BY <2>1, <2>2
<1>4. RowProjections(y) /\ RowLease(y)
  BY DEF RowOK, RowProjections, RowLease, Terminal
<1>5. RowOneDispatch(y) /\ RowHonest(y)
  BY <1>2 DEF RowOK, RowOneDispatch, RowHonest
<1>6. RowContent(y)
  BY DEF RowOK, RowContent, Active, Terminal
<1>7. QED
  BY <1>3, <1>4, <1>5, <1>6 DEF RowOK

\* An event of the status a run is in is an event.
LEMMA EventType ==
    ASSUME NEW type \in RunEventTypes, NEW s \in ActiveStatuses \cup TerminalStatuses
    PROVE  [type |-> type, status |-> s] \in Events
BY DEF Events

\* A deadline settles an active row consistently, whatever fence it reached.
LEMMA ExpireDeadlineOK ==
    ASSUME NEW x \in Rows, RowOK(x), Active(x), NEW at \in Nat \ {0}
    PROVE  LET y == ExpireDeadline(x, at) IN
           /\ y \in Rows /\ RowOK(y) /\ Terminal(y)
           /\ y.executionEpoch = x.executionEpoch
<1>1. /\ TimeoutStatus(x) \in TerminalStatuses
      /\ "deadline_exceeded" \in Codes
      /\ "terminal" \in RunEventTypes \ {"dispatch_fenced"}
  BY DEF TimeoutStatus, TerminalStatuses, Codes, RunFailureCodes, RunEventTypes
<1>2. HonestEnd(x, TimeoutStatus(x), "deadline_exceeded")
  BY DEF HonestEnd, TimeoutStatus
<1>3. QED
  BY <1>1, <1>2, TerminalizeOK DEF ExpireDeadline

\* A poll that missed the settlement of a timed-out run settles it as it was.
LEMMA ResettledOK ==
    ASSUME NEW x \in Rows, RowOK(x), NEW t \in Nat \ {0},
           x.deadline <= t, SettledUnseen(x, t)
    PROVE  LET y == ExpireDeadline(x, t) IN
           y \in Rows /\ RowOK(y) /\ Terminal(y) /\ RowFinal(x, y)
<1> DEFINE v == [type |-> "terminal", status |-> "timed_out"]
           y == ExpireDeadline(x, t)
<1>1. /\ x.status = "timed_out" /\ TimeoutStatus(x) = "timed_out"
      /\ t <= x.terminalAt + ClockLag
  BY DEF SettledUnseen, StillSeen, TimeoutStatus
<1>2. /\ x.jobStatus = "timed_out" /\ x.leaseOwner = NoWorker /\ x.leaseExpiresAt = NoTime
      /\ x.jobStatus # "leased" /\ Terminal(x) /\ ~Active(x)
  BY <1>1 DEF RowOK, RowProjections, RowLease, Terminal, TerminalStatuses, Active,
              ActiveStatuses, UndispatchedStatuses
<1>3. MoveAttempt(x, "timed_out", "deadline_exceeded") = x.attempts
  <2>1. ActiveAttempt(x) = {}
    BY <1>2, ActiveAttemptIsLast DEF RowOK
  <2>2. x.attempts = [i \in DOMAIN x.attempts |-> x.attempts[i]]
    <3>1. x.attempts \in Seq(Attempts)
      BY DEF Rows
    <3>2. x.attempts \in [1 .. Len(x.attempts) -> Attempts]
      BY <3>1, LenProperties
    <3>3. QED
      BY <3>2
  <2>3. QED
    BY <2>1, <2>2 DEF MoveAttempt
<1>4. v \in Events /\ v.type # "dispatch_fenced" /\ v.status = x.status
  <2>1. "terminal" \in RunEventTypes /\ "timed_out" \in TerminalStatuses
    BY DEF RunEventTypes, TerminalStatuses
  <2>2. QED
    BY <1>1, <2>1, EventType
<1>5. Append(x.events, v) \in Seq(Events)
  BY <1>4, AppendKeepsHistory DEF Rows
<1>6. /\ y.status = x.status /\ y.safeErrorCode = "deadline_exceeded" /\ y.terminalAt = t
      /\ y.jobStatus = x.jobStatus /\ y.leaseOwner = x.leaseOwner
      /\ y.leaseEpoch = x.leaseEpoch /\ y.leaseExpiresAt = x.leaseExpiresAt
      /\ y.deadline = x.deadline /\ y.attempts = x.attempts
      /\ y.arguments = x.arguments /\ y.resultExpiresAt = x.resultExpiresAt
      /\ y.events = Append(x.events, v)
  BY <1>1, <1>2, <1>3 DEF ExpireDeadline, TerminalizeRun, AppendNextEvent, Rows
<1>7. y \in Rows
  <2>1. /\ "deadline_exceeded" \in RunFailureCodes /\ "timed_out" \in TerminalStatuses
        /\ NoTime \in Nat
    BY DEF RunFailureCodes, TerminalStatuses, NoTime
  <2>2. y = [x EXCEPT !.status = "timed_out", !.safeErrorCode = "deadline_exceeded",
                      !.terminalAt = t, !.jobStatus = "timed_out", !.leaseOwner = NoWorker,
                      !.leaseExpiresAt = NoTime, !.staleReads = {},
                      !.attempts = x.attempts, !.events = Append(x.events, v)]
    BY <1>1, <1>3 DEF ExpireDeadline, TerminalizeRun, AppendNextEvent
  <2>3. x.attempts \in Seq(Attempts)
    BY DEF Rows
  <2> HIDE DEF y, v
  <2>4. QED
    BY <1>5, <2>1, <2>2, <2>3 DEF Rows
<1> HIDE DEF y, v
<1>8. RowReplay(y)
  BY <1>4, <1>5, <1>6, AppendKeepsHistory, SMTT(20) DEF RowReplay, Rows
<1>9. Dispatches(y) = Dispatches(x)
  BY <1>4, <1>6, <1>7, AppendOtherEvent
<1>10. RowProjections(y) /\ RowLease(y)
  BY <1>6 DEF RowOK, RowProjections, RowLease, Terminal
<1>11. RowOneDispatch(y) /\ RowHonest(y)
  BY <1>1, <1>6, <1>9 DEF RowOK, RowOneDispatch, RowHonest
<1>12. RowContent(y) /\ Terminal(y)
  BY <1>1, <1>2, <1>6 DEF RowOK, RowContent, Active, Terminal, NoTime
<1>13. RowFinal(x, y)
  BY <1>1, <1>2, <1>4, <1>6 DEF RowFinal, RowResettled, v
<1>14. QED
  BY <1>7, <1>8, <1>10, <1>11, <1>12, <1>13 DEF RowOK, y

\* Cancelling an active row keeps it consistent: settled, or still dispatched.
LEMMA CancelledRowOK ==
    ASSUME NEW x \in Rows, RowOK(x), Active(x), now \in Nat \ {0}
    PROVE  /\ CancelledRow(x) \in Rows /\ RowOK(CancelledRow(x))
           /\ CancelledRow(x).executionEpoch = x.executionEpoch
<1> DEFINE y == [x EXCEPT !.cancellationRequested = TRUE]
<1>1. y \in Rows
  BY DEF Rows
<1>2. /\ y.status = x.status /\ y.safeErrorCode = x.safeErrorCode
      /\ y.jobStatus = x.jobStatus /\ y.leaseOwner = x.leaseOwner
      /\ y.leaseEpoch = x.leaseEpoch /\ y.leaseExpiresAt = x.leaseExpiresAt
      /\ y.deadline = x.deadline /\ y.attempts = x.attempts
      /\ y.terminalAt = x.terminalAt /\ y.arguments = x.arguments
      /\ y.resultExpiresAt = x.resultExpiresAt /\ y.events = x.events
      /\ y.executionEpoch = x.executionEpoch
  BY DEF Rows
<1>3. /\ "cancel_requested" \in RunEventTypes \ {"dispatch_fenced"}
      /\ "cancelled_before_dispatch" \in Codes /\ "cancelled" \in TerminalStatuses
      /\ x.status \in ActiveStatuses \cup TerminalStatuses
  BY DEF RunEventTypes, Codes, RunFailureCodes, TerminalStatuses, Active
<1>4. [type |-> "cancel_requested", status |-> x.status] \in Events
  BY <1>3, EventType
<1>5. RowOK(y) /\ Active(y)
  <2> HIDE DEF y
  <2> QED
    BY <1>1, <1>2, <1>4, AnnotateOK DEF Active
<1>6. CASE x.deadline <= now
  <2>1. CancelledRow(x) = ExpireDeadline(y, now)
    BY <1>6 DEF CancelledRow
  <2> HIDE DEF y
  <2>2. QED
    BY <1>1, <1>2, <1>5, <2>1, ExpireDeadlineOK
<1>7. CASE ~(x.deadline <= now) /\ x.status \in UndispatchedStatuses
  <2>1. CancelledRow(x) =
          TerminalizeRun(y, "cancelled", now, "cancelled_before_dispatch", "cancel_requested")
    BY <1>7 DEF CancelledRow
  <2>2. HonestEnd(y, "cancelled", "cancelled_before_dispatch")
    BY <1>2, <1>7 DEF HonestEnd, UndispatchedStatuses
  <2> HIDE DEF y
  <2>3. QED
    BY <1>1, <1>2, <1>3, <1>5, <2>1, <2>2, TerminalizeOK
<1>8. CASE ~(x.deadline <= now) /\ x.status \notin UndispatchedStatuses
  <2> DEFINE z == [y EXCEPT !.events = AppendNextEvent(y, "cancel_requested", y.status)]
  <2>1. CancelledRow(x) = z
    BY <1>8 DEF CancelledRow
  <2>2. AppendNextEvent(y, "cancel_requested", y.status)
          = Append(x.events, [type |-> "cancel_requested", status |-> x.status])
    BY <1>2 DEF AppendNextEvent
  <2>3. Append(x.events, [type |-> "cancel_requested", status |-> x.status]) \in Seq(Events)
    BY <1>4, AppendKeepsHistory DEF Rows
  <2>4. z \in Rows
    BY <1>1, <2>2, <2>3 DEF Rows
  <2>5. /\ z.status = x.status /\ z.safeErrorCode = x.safeErrorCode
        /\ z.jobStatus = x.jobStatus /\ z.leaseOwner = x.leaseOwner
        /\ z.leaseEpoch = x.leaseEpoch /\ z.leaseExpiresAt = x.leaseExpiresAt
        /\ z.deadline = x.deadline /\ z.attempts = x.attempts
        /\ z.terminalAt = x.terminalAt /\ z.arguments = x.arguments
        /\ z.resultExpiresAt = x.resultExpiresAt
        /\ z.executionEpoch = x.executionEpoch
        /\ z.events = Append(x.events, [type |-> "cancel_requested", status |-> x.status])
    BY <1>1, <2>2 DEF Rows
  <2> HIDE DEF y, z
  <2>6. RowOK(z)
    BY <1>4, <2>4, <2>5, AnnotateOK
  <2>7. QED
    BY <2>1, <2>4, <2>5, <2>6
<1>9. QED
  BY <1>6, <1>7, <1>8

\* reconcile_restore_quarantine settles an active row honestly.
LEMMA ReconcileRowOK ==
    ASSUME NEW x \in Rows, RowOK(x), Active(x), now \in Nat \ {0}
    PROVE  /\ ReconcileRow(x) \in Rows /\ RowOK(ReconcileRow(x))
           /\ ReconcileRow(x).executionEpoch = x.executionEpoch
<1> DEFINE s == IF x.status = "dispatch_fenced" THEN "indeterminate" ELSE "cancelled"
<1>1. /\ s \in TerminalStatuses /\ "restore_reconciliation" \in Codes
      /\ "restore_reconciled" \in RunEventTypes \ {"dispatch_fenced"}
  BY DEF TerminalStatuses, Codes, RunFailureCodes, RunEventTypes
<1>2. HonestEnd(x, s, "restore_reconciliation")
  BY DEF HonestEnd
<1>3. ReconcileRow(x) =
        TerminalizeRun(x, s, now, "restore_reconciliation", "restore_reconciled")
  BY DEF ReconcileRow
<1> HIDE DEF s
<1>4. QED
  BY <1>1, <1>2, <1>3, TerminalizeOK

\* Purging the arguments of a row settles it first if it is active.
LEMMA ExpireContentRowOK ==
    ASSUME NEW x \in Rows, RowOK(x), Active(x) \/ Terminal(x), now \in Nat \ {0}
    PROVE  /\ ExpireContentRow(x) \in Rows /\ RowOK(ExpireContentRow(x))
           /\ Terminal(ExpireContentRow(x))
           /\ RowFinal(x, ExpireContentRow(x))
<1> DEFINE v == [type |-> "content_expired", status |-> x.status]
           a == [x EXCEPT !.events = AppendNextEvent(x, "content_expired", x.status)]
           b == TerminalizeRun(x, TimeoutStatus(x), now, "content_retention_deadline",
                               "content_expired")
<1>1. v \in Events
  BY EventType DEF RunEventTypes, Active, Terminal
<1>2. Append(x.events, v) \in Seq(Events)
  BY <1>1, AppendKeepsHistory DEF Rows
<1>3. CASE Terminal(x)
  <2> DEFINE c == [a EXCEPT !.arguments = FALSE]
  <2>1. ExpireContentRow(x) = c
    BY <1>3 DEF ExpireContentRow
  <2>2. c \in Rows
    BY <1>2 DEF Rows, AppendNextEvent
  <2>3. /\ c.status = x.status /\ c.safeErrorCode = x.safeErrorCode
        /\ c.jobStatus = x.jobStatus /\ c.leaseOwner = x.leaseOwner
        /\ c.leaseEpoch = x.leaseEpoch /\ c.leaseExpiresAt = x.leaseExpiresAt
        /\ c.deadline = x.deadline /\ c.attempts = x.attempts
        /\ c.terminalAt = x.terminalAt
        /\ c.resultExpiresAt = x.resultExpiresAt
        /\ c.executionEpoch = x.executionEpoch
        /\ c.events = Append(x.events, v)
        /\ c.arguments = FALSE
    BY DEF Rows, AppendNextEvent
  <2>4. ~Active(x)
    BY <1>3 DEF Active, Terminal, ActiveStatuses, UndispatchedStatuses, TerminalStatuses
  <2>5. v.type # "dispatch_fenced" /\ v.status = x.status
    OBVIOUS
  <2> HIDE DEF c, v, a
  <2>6. RowOK(c)
    BY <1>1, <2>2, <2>3, <2>4, <2>5, AnnotateOK
  <2>7. x.status # "deleted"
    BY <1>3 DEF Terminal, TerminalStatuses
  <2>8. QED
    BY <1>3, <2>1, <2>2, <2>3, <2>6, <2>7 DEF Terminal, RowFinal
<1>4. CASE ~Terminal(x)
  <2> DEFINE c == [b EXCEPT !.arguments = FALSE]
  <2>1. ExpireContentRow(x) = c
    BY <1>4 DEF ExpireContentRow
  <2>2. /\ TimeoutStatus(x) \in TerminalStatuses
        /\ "content_retention_deadline" \in Codes
        /\ "content_expired" \in RunEventTypes \ {"dispatch_fenced"}
    BY DEF TimeoutStatus, TerminalStatuses, Codes, RunFailureCodes, RunEventTypes
  <2>3. HonestEnd(x, TimeoutStatus(x), "content_retention_deadline")
    BY DEF HonestEnd, TimeoutStatus
  <2>4. /\ b \in Rows /\ RowOK(b) /\ Terminal(b)
        /\ b.executionEpoch = x.executionEpoch
    BY <1>4, <2>2, <2>3, TerminalizeOK
  <2> HIDE DEF b
  <2>5. c \in Rows
    BY <2>4, ZenonT(30) DEF Rows
  <2>6. /\ c.status = b.status /\ c.safeErrorCode = b.safeErrorCode
        /\ c.jobStatus = b.jobStatus /\ c.leaseOwner = b.leaseOwner
        /\ c.leaseEpoch = b.leaseEpoch /\ c.leaseExpiresAt = b.leaseExpiresAt
        /\ c.deadline = b.deadline /\ c.attempts = b.attempts
        /\ c.terminalAt = b.terminalAt
        /\ c.resultExpiresAt = b.resultExpiresAt
        /\ c.executionEpoch = b.executionEpoch
        /\ c.events = b.events /\ c.arguments = FALSE
    BY <2>4 DEF Rows
  <2>7. ~Active(b)
    BY <2>4 DEF Active, Terminal, ActiveStatuses, UndispatchedStatuses, TerminalStatuses
  <2>8. PICK u \in Events : u.type # "dispatch_fenced" /\ u.status = b.status
    <3>1. [type |-> "terminal", status |-> b.status] \in Events
      BY <2>4, EventType DEF Terminal, RunEventTypes
    <3>2. QED
      BY <3>1
  <2> HIDE DEF c
  <2>9. RowOK(c)
    BY <2>4, <2>5, <2>6, <2>7, <2>8, AnnotateOK
  <2>10. QED
    BY <1>4, <2>1, <2>4, <2>5, <2>6, <2>9
       DEF Terminal, RowFinal, Active, ActiveStatuses, UndispatchedStatuses
<1>5. QED
  BY <1>3, <1>4

\* Dropping an expired result keeps a row consistent.
LEMMA ExpireResultOK ==
    ASSUME NEW x \in Rows, RowOK(x), x.resultExpiresAt # NoTime
    PROVE  LET y == [x EXCEPT !.resultExpiresAt = NoTime] IN
           y \in Rows /\ RowOK(y) /\ Terminal(y) /\ RowFinal(x, y)
<1> DEFINE y == [x EXCEPT !.resultExpiresAt = NoTime]
<1>1. y \in Rows
  BY DEF Rows, NoTime
<1>2. /\ y.status = x.status /\ y.safeErrorCode = x.safeErrorCode
      /\ y.jobStatus = x.jobStatus /\ y.leaseOwner = x.leaseOwner
      /\ y.leaseEpoch = x.leaseEpoch /\ y.leaseExpiresAt = x.leaseExpiresAt
      /\ y.deadline = x.deadline /\ y.attempts = x.attempts
      /\ y.terminalAt = x.terminalAt /\ y.arguments = x.arguments
      /\ y.resultExpiresAt = NoTime /\ y.events = x.events
      /\ y.executionEpoch = x.executionEpoch
  BY DEF Rows
<1>3. x.status = "succeeded"
  BY DEF RowOK, RowContent
<1>4. [type |-> "terminal", status |-> x.status] \in Events
  BY <1>3, EventType DEF RunEventTypes, TerminalStatuses
<1> HIDE DEF y
<1>5. RowOK(y)
  BY <1>1, <1>2, <1>4, AnnotateOK
<1>6. QED
  BY <1>1, <1>2, <1>3, <1>5 DEF y, Terminal, TerminalStatuses, RowFinal

\* complete_lease settles a row with the outcome its fence permits.
LEMMA CompleteRowOK ==
    ASSUME NEW x \in Rows, RowOK(x), Active(x), now \in Nat \ {0},
           NEW s \in TerminalStatuses, NEW code \in Codes,
           ValidWorkerCompletion(x, s, code)
    PROVE  /\ CompleteRow(x, s, code) \in Rows /\ RowOK(CompleteRow(x, s, code))
           /\ CompleteRow(x, s, code).executionEpoch = x.executionEpoch
<1> DEFINE b == TerminalizeRun(x, s, now, code, "terminal")
           t == IF s = "succeeded" THEN now + ResultRetention ELSE NoTime
           c == [b EXCEPT !.resultExpiresAt = t]
<1>1. HonestEnd(x, s, code)
  BY DEF ValidWorkerCompletion, HonestEnd, ToolFailureCodes
<1>2. "terminal" \in RunEventTypes \ {"dispatch_fenced"}
  BY DEF RunEventTypes
<1>3. /\ b \in Rows /\ RowOK(b) /\ Terminal(b) /\ b.status = s
      /\ b.resultExpiresAt = NoTime /\ b.executionEpoch = x.executionEpoch
  BY <1>1, <1>2, TerminalizeOK
<1>4. t \in Nat
  BY TimesAssumption DEF NoTime
<1>5. CompleteRow(x, s, code) = c
  BY <1>3 DEF CompleteRow
<1>6. t # NoTime => s = "succeeded"
  OBVIOUS
<1> HIDE DEF b, t
<1>7. c \in Rows
  BY <1>3, <1>4 DEF Rows
<1>8. /\ c.status = b.status /\ c.safeErrorCode = b.safeErrorCode
      /\ c.jobStatus = b.jobStatus /\ c.leaseOwner = b.leaseOwner
      /\ c.leaseEpoch = b.leaseEpoch /\ c.leaseExpiresAt = b.leaseExpiresAt
      /\ c.deadline = b.deadline /\ c.attempts = b.attempts
      /\ c.terminalAt = b.terminalAt /\ c.arguments = b.arguments
      /\ c.resultExpiresAt = t
      /\ c.executionEpoch = b.executionEpoch
      /\ c.events = b.events
  BY <1>3 DEF Rows
<1> HIDE DEF c
<1>9. RowProjections(c) /\ RowLease(c) /\ RowReplay(c)
  BY <1>3, <1>8 DEF RowOK, RowProjections, RowLease, RowReplay, Active, Terminal
<1>10. Dispatches(c) = Dispatches(b)
  BY <1>8 DEF Dispatches
<1>11. RowOneDispatch(c) /\ RowHonest(c)
  BY <1>3, <1>8, <1>10 DEF RowOK, RowOneDispatch, RowHonest
<1>12. RowContent(c)
  BY <1>3, <1>6, <1>8 DEF RowOK, RowContent, Active, Terminal
<1>13. QED
  BY <1>3, <1>5, <1>7, <1>8, <1>9, <1>11, <1>12 DEF RowOK

\* The clock reads of the polls that miss a change are instants.
LEMMA StaleReadsType ==
    ASSUME NEW x \in Rows, NEW from \in Nat, now \in Nat
    PROVE  StaleReads(x, from) \in SUBSET Nat
<1>1. x.staleReads \subseteq Nat /\ from .. now + ClockLag \subseteq Nat
  BY TimesAssumption DEF Rows
<1>2. QED
  BY <1>1 DEF StaleReads

\* A heartbeat keeps a leased row consistent.
LEMMA RenewRowOK ==
    ASSUME NEW x \in Rows, RowOK(x), x.jobStatus = "leased", now \in Nat \ {0}
    PROVE  LET y == RenewRow(x) IN
           /\ y \in Rows /\ RowOK(y)
           /\ y.status = x.status /\ y.jobStatus = x.jobStatus /\ y.attempts = x.attempts
           /\ y.executionEpoch = x.executionEpoch /\ y.events = x.events
<1> DEFINE t == Earlier(now + LeaseTime, x.deadline)
           u == StaleReads(x, x.leaseExpiresAt)
           y == [x EXCEPT !.leaseExpiresAt = t, !.staleReads = u]
<1>1. x.deadline \in Nat /\ x.leaseExpiresAt \in 1 .. x.deadline /\ x.leaseOwner # NoWorker
  BY DEF RowOK, RowLease, Rows
<1>2. t \in 1 .. x.deadline /\ t \in Nat
  BY <1>1, TimesAssumption DEF Earlier
<1>3. RenewRow(x) = y /\ u \in SUBSET Nat
  BY <1>1, StaleReadsType DEF RenewRow
<1> HIDE DEF t, u
<1>4. y \in Rows
  BY <1>1, <1>2, <1>3 DEF Rows
<1>5. /\ y.status = x.status /\ y.safeErrorCode = x.safeErrorCode
      /\ y.jobStatus = x.jobStatus /\ y.leaseOwner = x.leaseOwner
      /\ y.leaseEpoch = x.leaseEpoch /\ y.leaseExpiresAt = t
      /\ y.deadline = x.deadline /\ y.attempts = x.attempts
      /\ y.terminalAt = x.terminalAt /\ y.arguments = x.arguments
      /\ y.resultExpiresAt = x.resultExpiresAt /\ y.events = x.events
      /\ y.executionEpoch = x.executionEpoch
  BY DEF Rows
<1> HIDE DEF y
<1>6. RowProjections(y) /\ RowReplay(y) /\ RowContent(y)
  BY <1>5 DEF RowOK, RowProjections, RowReplay, RowContent, Active, Terminal
<1>7. RowLease(y)
  BY <1>1, <1>2, <1>5 DEF RowLease
<1>8. Dispatches(y) = Dispatches(x)
  BY <1>5 DEF Dispatches
<1>9. RowOneDispatch(y) /\ RowHonest(y)
  BY <1>5, <1>8 DEF RowOK, RowOneDispatch, RowHonest
<1>10. QED
  BY <1>3, <1>4, <1>5, <1>6, <1>7, <1>9 DEF RowOK

\* A fence moves the run and its attempt together; the dispatch fence is the one event
\* that counts as a dispatch, and only a run without one can reach it.
LEMMA FenceRowOK ==
    ASSUME NEW x \in Rows, RowOK(x),
           NEW target \in {"session_fenced", "dispatch_fenced"},
           x.status = IF target = "session_fenced" THEN "preparing" ELSE "session_fenced"
    PROVE  LET y == FenceRow(x, target) IN
           /\ y \in Rows /\ RowOK(y) /\ Active(y)
           /\ y.executionEpoch = x.executionEpoch
<1> DEFINE y == FenceRow(x, target)
           v == [type |-> target, status |-> target]
<1>1. /\ target \in AttemptStatuses \cup TerminalStatuses
      /\ target \in ActiveStatuses /\ NoCode \in RunFailureCodes \cup {NoCode}
      /\ target \in AttemptStatuses /\ x.status \in AttemptStatuses
      /\ x.status \in ActiveStatuses /\ x.status # "dispatch_fenced"
      /\ x.status \notin TerminalStatuses /\ target \notin TerminalStatuses
      /\ target # "queued" /\ x.status # "queued"
  BY DEF AttemptStatuses, TerminalStatuses, ActiveStatuses, UndispatchedStatuses
<1>2. v \in Events
  BY <1>1, EventType DEF RunEventTypes
<1>3. /\ y.status = target /\ y.attempts = MoveAttempt(x, target, NoCode)
      /\ y.events = Append(x.events, v)
      /\ y.safeErrorCode = x.safeErrorCode /\ y.jobStatus = x.jobStatus
      /\ y.leaseOwner = x.leaseOwner /\ y.leaseEpoch = x.leaseEpoch
      /\ y.leaseExpiresAt = x.leaseExpiresAt /\ y.deadline = x.deadline
      /\ y.terminalAt = x.terminalAt /\ y.arguments = x.arguments
      /\ y.resultExpiresAt = x.resultExpiresAt
      /\ y.executionEpoch = x.executionEpoch
  BY DEF FenceRow, AppendNextEvent, Rows
<1>4. x.events \in Seq(Events) /\ x.attempts \in Seq(Attempts)
  BY DEF Rows
<1>5. /\ Append(x.events, v) \in Seq(Events) /\ Append(x.events, v) # << >>
      /\ LastOf(Append(x.events, v)) = v
      /\ DOMAIN Append(x.events, v) = 1 .. Len(x.events) + 1
      /\ \A i \in DOMAIN x.events : Append(x.events, v)[i] = x.events[i]
      /\ Append(x.events, v)[Len(x.events) + 1] = v
  BY <1>2, <1>4, AppendKeepsHistory DEF LastOf
<1>6. MoveAttempt(x, target, NoCode) \in Seq(Attempts)
  BY <1>1, MoveAttemptType
<1>7. y \in Rows
  BY <1>1, <1>5, <1>6, ZenonT(30) DEF FenceRow, AppendNextEvent, Rows
<1>8. x.jobStatus = "leased" /\ Active(x) /\ Active(y) /\ ~Terminal(x) /\ ~Terminal(y)
  BY <1>1, <1>3 DEF RowOK, RowProjections, Active, Terminal
<1>9. Dispatches(x) = {}
  BY <1>1 DEF RowOK, RowHonest, TerminalStatuses
<1>10. IF target = "dispatch_fenced" THEN Dispatches(y) = {Len(x.events) + 1}
                                     ELSE Dispatches(y) = {}
  <2>1. DOMAIN x.events = 1 .. Len(x.events) /\ Len(x.events) \in Nat
    BY <1>4, LenProperties
  <2>2. \A i \in DOMAIN x.events : y.events[i].type # "dispatch_fenced"
    BY <1>3, <1>5, <1>9 DEF Dispatches
  <2>3. DOMAIN y.events = DOMAIN x.events \cup {Len(x.events) + 1}
        /\ y.events[Len(x.events) + 1].type = target
    BY <1>3, <1>5, <2>1
  <2>4. QED
    BY <2>2, <2>3 DEF Dispatches
<1> HIDE DEF y, v
<1>11. RowProjections(y)
  <2>1. /\ Len(y.attempts) = Len(x.attempts) /\ DOMAIN y.attempts = DOMAIN x.attempts
        /\ \A i \in DOMAIN x.attempts :
             /\ y.attempts[i].leaseEpoch = x.attempts[i].leaseEpoch
             /\ i \in ActiveAttempt(x) => y.attempts[i].status = target
             /\ i \notin ActiveAttempt(x) => y.attempts[i] = x.attempts[i]
    BY <1>1, <1>3, MoveAttemptType
  <2>2. ActiveAttempt(x) = {Len(x.attempts)}
    BY <1>8, ActiveAttemptIsLast DEF RowOK
  <2>3. Len(x.attempts) \in Nat /\ DOMAIN x.attempts = 1 .. Len(x.attempts)
    BY <1>4, LenProperties
  <2>4. QED
    BY <1>1, <1>3, <1>8, <2>1, <2>2, <2>3 DEF RowOK, RowProjections
<1>12. RowLease(y)
  BY <1>3, <1>8 DEF RowOK, RowLease
<1>13. RowReplay(y)
  BY <1>3, <1>5 DEF RowReplay, v
<1>14. RowOneDispatch(y) /\ RowHonest(y)
  BY <1>1, <1>3, <1>10 DEF RowOneDispatch, RowHonest
<1>15. RowContent(y)
  BY <1>3, <1>8 DEF RowOK, RowContent, Active, Terminal, TerminalStatuses
<1>16. QED
  BY <1>3, <1>7, <1>8, <1>11, <1>12, <1>13, <1>14, <1>15 DEF RowOK, y

\* The row of a lost lease has only ended attempts, and no new dispatch.
LEMMA LoseLeaseOK ==
    ASSUME NEW x \in Rows, RowOK(x), x.status \in UndispatchedStatuses
    PROVE  LET z == LoseLease(x) IN
           /\ z \in Rows
           /\ Len(z.attempts) = z.leaseEpoch
           /\ \A i \in DOMAIN z.attempts :
                z.attempts[i].leaseEpoch = i /\ z.attempts[i].status = "failed"
           /\ Dispatches(z) = {}
           /\ z.status = x.status /\ z.safeErrorCode = x.safeErrorCode
           /\ z.leaseEpoch = x.leaseEpoch /\ z.deadline = x.deadline
           /\ z.terminalAt = x.terminalAt /\ z.arguments = x.arguments
           /\ z.resultExpiresAt = x.resultExpiresAt /\ z.executionEpoch = x.executionEpoch
<1> DEFINE code == "worker_lost_before_dispatch"
           v == [type |-> "lease_lost", status |-> x.status]
           z == [x EXCEPT !.attempts = MoveAttempt(x, "failed", code),
                          !.events = AppendNextEvent(x, "lease_lost", x.status)]
<1>1. Dispatches(x) = {}
  BY DEF RowOK, RowHonest, UndispatchedStatuses
<1>2. x.events \in Seq(Events) /\ x.attempts \in Seq(Attempts)
  BY DEF Rows
<1>3. Len(x.attempts) \in Nat /\ DOMAIN x.attempts = 1 .. Len(x.attempts)
  BY <1>2, LenProperties
<1>4. CASE x.jobStatus = "leased"
  <2>1. ActiveAttempt(x) = {Len(x.attempts)}
    BY <1>4, ActiveAttemptIsLast DEF RowOK
  <2>2. LoseLease(x) = z
    BY <1>4, <2>1 DEF LoseLease
  <2>3. /\ "failed" \in AttemptStatuses \cup TerminalStatuses
        /\ code \in RunFailureCodes \cup {NoCode}
    BY DEF TerminalStatuses, RunFailureCodes
  <2>4. v \in Events
    BY EventType DEF RunEventTypes, ActiveStatuses
  <2>5. Append(x.events, v) \in Seq(Events)
    BY <1>2, <2>4, AppendKeepsHistory
  <2>6. /\ MoveAttempt(x, "failed", code) \in Seq(Attempts)
        /\ Len(MoveAttempt(x, "failed", code)) = Len(x.attempts)
        /\ DOMAIN MoveAttempt(x, "failed", code) = DOMAIN x.attempts
        /\ \A i \in DOMAIN x.attempts :
             /\ MoveAttempt(x, "failed", code)[i].leaseEpoch = x.attempts[i].leaseEpoch
             /\ i \in ActiveAttempt(x) => MoveAttempt(x, "failed", code)[i].status = "failed"
             /\ i \notin ActiveAttempt(x) =>
                  MoveAttempt(x, "failed", code)[i] = x.attempts[i]
    BY <2>3, MoveAttemptType
  <2>7. z \in Rows
    BY <2>5, <2>6 DEF Rows, AppendNextEvent
  <2>8. /\ z.attempts = MoveAttempt(x, "failed", code)
        /\ z.events = Append(x.events, v)
        /\ z.status = x.status /\ z.safeErrorCode = x.safeErrorCode
        /\ z.leaseEpoch = x.leaseEpoch /\ z.deadline = x.deadline
        /\ z.terminalAt = x.terminalAt /\ z.arguments = x.arguments
        /\ z.resultExpiresAt = x.resultExpiresAt /\ z.executionEpoch = x.executionEpoch
    BY DEF Rows, AppendNextEvent
  <2>9. v.type # "dispatch_fenced"
    OBVIOUS
  <2> HIDE DEF z, v, code
  <2>10. Dispatches(z) = {}
    BY <1>1, <2>4, <2>7, <2>8, <2>9, AppendOtherEvent
  <2>11. Len(z.attempts) = z.leaseEpoch
         /\ \A i \in DOMAIN z.attempts :
              z.attempts[i].leaseEpoch = i /\ z.attempts[i].status = "failed"
    BY <1>3, <2>1, <2>6, <2>8 DEF RowOK, RowProjections
  <2>12. QED
    BY <2>2, <2>7, <2>8, <2>10, <2>11
<1>5. CASE x.jobStatus # "leased"
  <2>1. LoseLease(x) = x
    BY <1>5 DEF LoseLease
  <2>2. x.status = "queued"
    BY <1>5 DEF RowOK, RowProjections, UndispatchedStatuses, AttemptStatuses
  <2>3. x.attempts = << >>
    <3>1. SUFFICES ASSUME Len(x.attempts) # 0 PROVE FALSE
      BY <1>2, EmptySeq
    <3>2. Len(x.attempts) \in DOMAIN x.attempts
      BY <1>3, <3>1
    <3>3. x.attempts[Len(x.attempts)].status = "queued"
      BY <2>2, <3>2 DEF RowOK, RowProjections
    <3>4. x.attempts[Len(x.attempts)] \in Attempts
      BY <1>2, <3>2, ElementOfSeq, LenProperties
    <3>5. QED
      BY <3>3, <3>4 DEF Attempts, AttemptStatuses, TerminalStatuses
  <2>4. DOMAIN x.attempts = {}
    BY <1>3, <2>3, EmptySeq
  <2>5. QED
    BY <1>1, <2>1, <2>4 DEF RowOK, RowProjections
<1>6. QED
  BY <1>4, <1>5

\* A claim opens the next attempt of an undispatched row and leases it up to its
\* deadline at most.
LEMMA LeaseRowOK ==
    ASSUME NEW x \in Rows, RowOK(x), x.status \in UndispatchedStatuses,
           NEW w \in Workers, now \in Nat \ {0}, now < x.deadline
    PROVE  LET y == LeaseRow(x, w) IN
           /\ y \in Rows /\ RowOK(y) /\ Active(y)
           /\ y.executionEpoch = x.executionEpoch
<1> DEFINE z == LoseLease(x)
           t == Earlier(now + LeaseTime, z.deadline)
           a == [leaseEpoch |-> z.leaseEpoch + 1, status |-> "preparing",
                 safeErrorCode |-> NoCode]
           v == [type |-> "attempt_started", status |-> "preparing"]
           u == StaleReads(z, IF z.jobStatus = "queued" THEN z.createdAt
                              ELSE z.leaseExpiresAt)
           y == [z EXCEPT !.jobStatus = "leased", !.leaseOwner = w,
                          !.leaseEpoch = z.leaseEpoch + 1, !.leaseExpiresAt = t,
                          !.staleReads = u,
                          !.attempts = Append(z.attempts, a), !.status = "preparing",
                          !.events = Append(z.events, v)]
<1>1. /\ z \in Rows
      /\ Len(z.attempts) = z.leaseEpoch
      /\ \A i \in DOMAIN z.attempts :
           z.attempts[i].leaseEpoch = i /\ z.attempts[i].status = "failed"
      /\ Dispatches(z) = {}
      /\ z.safeErrorCode = x.safeErrorCode /\ z.deadline = x.deadline
      /\ z.terminalAt = x.terminalAt /\ z.arguments = x.arguments
      /\ z.resultExpiresAt = x.resultExpiresAt /\ z.executionEpoch = x.executionEpoch
  BY LoseLeaseOK
<1>2. LeaseRow(x, w) = y
  BY DEF LeaseRow, AppendNextEvent
<1> HIDE DEF z
<1>3. /\ z.attempts \in Seq(Attempts) /\ z.events \in Seq(Events)
      /\ z.leaseEpoch \in Nat /\ z.deadline \in Nat /\ u \in SUBSET Nat
  BY <1>1, StaleReadsType DEF Rows
<1>4. t \in 1 .. z.deadline /\ t \in Nat
  BY <1>1, <1>3, TimesAssumption DEF Earlier
<1>5. a \in Attempts
  BY <1>3 DEF Attempts, AttemptStatuses, NoCode
<1>6. v \in Events
  BY EventType DEF RunEventTypes, ActiveStatuses, UndispatchedStatuses
<1>7. Append(z.events, v) \in Seq(Events) /\ Append(z.events, v) # << >>
      /\ LastOf(Append(z.events, v)) = v
  BY <1>3, <1>6, AppendKeepsHistory
<1>8. /\ Append(z.attempts, a) \in Seq(Attempts)
      /\ Len(Append(z.attempts, a)) = z.leaseEpoch + 1
      /\ DOMAIN Append(z.attempts, a) = 1 .. z.leaseEpoch + 1
      /\ \A i \in 1 .. z.leaseEpoch : Append(z.attempts, a)[i] = z.attempts[i]
      /\ Append(z.attempts, a)[z.leaseEpoch + 1] = a
      /\ DOMAIN z.attempts = 1 .. z.leaseEpoch
  BY <1>1, <1>3, <1>5, AppendProperties, LenProperties
<1>9. a.leaseEpoch = z.leaseEpoch + 1 /\ a.status = "preparing" /\ v.status = "preparing"
      /\ v.type # "dispatch_fenced"
  OBVIOUS
<1> HIDE DEF t, a, v, u
<1>10. y \in Rows
  <2>1. z \in Rows /\ z.leaseEpoch + 1 \in Nat /\ t \in Nat /\ u \in SUBSET Nat
    BY <1>1, <1>3, <1>4
  <2>2. Append(z.attempts, a) \in Seq(Attempts) /\ Append(z.events, v) \in Seq(Events)
    BY <1>7, <1>8
  <2>3. "preparing" \in ActiveStatuses
    BY DEF ActiveStatuses, UndispatchedStatuses
  <2>4. QED
    BY <2>1, <2>2, <2>3 DEF Rows
<1>11. /\ y.status = "preparing" /\ y.jobStatus = "leased" /\ y.leaseOwner = w
       /\ y.leaseEpoch = z.leaseEpoch + 1 /\ y.leaseExpiresAt = t
       /\ y.attempts = Append(z.attempts, a) /\ y.events = Append(z.events, v)
       /\ y.safeErrorCode = z.safeErrorCode /\ y.deadline = z.deadline
       /\ y.terminalAt = z.terminalAt /\ y.arguments = z.arguments
       /\ y.resultExpiresAt = z.resultExpiresAt /\ y.executionEpoch = z.executionEpoch
  BY <1>1 DEF Rows
<1> HIDE DEF y
<1>12. Active(y) /\ ~Terminal(y)
  BY <1>11 DEF Active, Terminal, ActiveStatuses, UndispatchedStatuses, TerminalStatuses
<1>13. Dispatches(y) = {}
  BY <1>1, <1>6, <1>9, <1>10, <1>11, AppendOtherEvent
<1>14. RowProjections(y)
  <2>1. \A i \in DOMAIN y.attempts :
           /\ y.attempts[i].leaseEpoch = i
           /\ i < Len(y.attempts) => y.attempts[i].status = "failed"
           /\ i = Len(y.attempts) => y.attempts[i].status = "preparing"
    BY <1>1, <1>3, <1>8, <1>9, <1>11
  <2>2. QED
    BY <1>3, <1>8, <1>11, <1>12, <2>1 DEF RowProjections, AttemptStatuses
<1>15. RowLease(y)
  BY <1>4, <1>11, WorkersAssumption DEF RowLease
<1>16. RowReplay(y)
  BY <1>7, <1>9, <1>11 DEF RowReplay
<1>17. RowOneDispatch(y) /\ RowHonest(y)
  BY <1>11, <1>13 DEF RowOneDispatch, RowHonest
<1>18. RowContent(y)
  <2>1. Active(x) /\ ~Terminal(x) /\ x.status # "succeeded"
    BY DEF Active, Terminal, ActiveStatuses, UndispatchedStatuses, TerminalStatuses
  <2>2. QED
    BY <1>1, <1>11, <1>12, <2>1 DEF RowOK, RowContent
<1>19. QED
  BY <1>1, <1>2, <1>10, <1>11, <1>12, <1>14, <1>15, <1>16, <1>17, <1>18 DEF RowOK

-----------------------------------------------------------------------------
(* Steps of the whole ledger. *)

\* A step of one row keeps it consistent, is final where the row is settled, and does
\* not bring an active row of another execution epoch into being.
GoodStep(x, y) ==
    /\ y \in Rows
    /\ RowOK(y)
    /\ RowFinal(x, y)
    /\ Active(y) => Active(x) /\ y.executionEpoch = x.executionEpoch

\* The inductive invariant: no part of it is preserved without the others.
LedgerInv ==
    /\ TypeOK
    /\ \A r \in Runs : RowOK(ledger[r])
    /\ RestoreReconciled

\* A consistent successor of an active row is a good step.
LEMMA ActiveStep ==
    ASSUME NEW x \in Rows, Active(x), NEW y \in Rows, RowOK(y),
           y.executionEpoch = x.executionEpoch
    PROVE  GoodStep(x, y)
BY DEF GoodStep, RowFinal, Active, Terminal, ActiveStatuses, UndispatchedStatuses,
       TerminalStatuses

\* A settled, final successor is a good step.
LEMMA SettledStep ==
    ASSUME NEW x \in Rows, NEW y \in Rows, RowOK(y), RowFinal(x, y), Terminal(y)
    PROVE  GoodStep(x, y)
BY DEF GoodStep, Active, Terminal, ActiveStatuses, UndispatchedStatuses, TerminalStatuses

\* Leaving a row alone is a good step.
LEMMA SameStep ==
    ASSUME NEW x \in Rows, RowOK(x)
    PROVE  GoodStep(x, x)
BY DEF GoodStep, RowFinal

\* A row whose job is queued or leased is active.
LEMMA OpenJobIsActive ==
    ASSUME NEW x \in Rows, RowOK(x), x.jobStatus \in {"queued", "leased"}
    PROVE  Active(x)
BY DEF RowOK, RowProjections, Active, ActiveStatuses, UndispatchedStatuses, AttemptStatuses

\* Deleting a settled row is a good step.
LEMMA DeleteStep ==
    ASSUME NEW x \in Rows, Terminal(x)
    PROVE  GoodStep(x, NoRow("deleted"))
<1>1. NoRow("deleted") \in Rows /\ RowOK(NoRow("deleted"))
  BY NoRowOK
<1>2. NoRow("deleted").status = "deleted"
  BY DEF NoRow
<1>3. QED
  BY <1>1, <1>2 DEF GoodStep, RowFinal, Active, Terminal, ActiveStatuses,
                    UndispatchedStatuses, TerminalStatuses

\* Good steps of all rows under an unchanged execution state keep the invariant's
\* ledger parts.
LEMMA GoodSteps ==
    ASSUME LedgerInv, UNCHANGED execution,
           ledger' = [r \in Runs |-> ledger'[r]],
           \A r \in Runs : GoodStep(ledger[r], ledger'[r])
    PROVE  /\ ledger' \in [Runs -> Rows]
           /\ \A r \in Runs : RowOK(ledger'[r]) /\ RowFinal(ledger[r], ledger'[r])
           /\ RestoreReconciled'
<1>1. ledger' \in [Runs -> Rows]
  BY DEF GoodStep
<1>2. \A r \in Runs : RowOK(ledger'[r]) /\ RowFinal(ledger[r], ledger'[r])
  BY DEF GoodStep
<1>3. RestoreReconciled'
  BY DEF GoodStep, LedgerInv, RestoreReconciled, ActiveRuns
<1>4. QED
  BY <1>1, <1>2, <1>3

\* A step of the row of one run is a good step of all rows.
LEMMA OneRow ==
    ASSUME LedgerInv, NEW r \in Runs, NEW y,
           ledger' = [ledger EXCEPT ![r] = y], GoodStep(ledger[r], y)
    PROVE  /\ ledger' = [q \in Runs |-> ledger'[q]]
           /\ \A q \in Runs : GoodStep(ledger[q], ledger'[q])
<1>1. ledger \in [Runs -> Rows] /\ \A q \in Runs : RowOK(ledger[q])
  BY DEF LedgerInv, TypeOK, TargetTypeOK
<1>2. ledger' = [q \in Runs |-> IF q = r THEN y ELSE ledger[q]]
  BY <1>1
<1>3. ASSUME NEW q \in Runs PROVE GoodStep(ledger[q], ledger'[q])
  BY <1>1, <1>2, SameStep
<1>4. QED
  BY <1>2, <1>3

\* Facts every step uses.
LEMMA RowFacts ==
    ASSUME LedgerInv
    PROVE  /\ now \in Nat \ {0} /\ execution.epoch \in Nat
           /\ ledger \in [Runs -> Rows]
           /\ \A r \in Runs : ledger[r] \in Rows /\ RowOK(ledger[r])
           /\ \A l \in leases : l.run \in Runs /\ l.worker \in Workers
BY BoundsAssumption DEF LedgerInv, TypeOK, JobLease

\* The row create_run inserts is consistent.
LEMMA AdmittedRowOK ==
    ASSUME LedgerInv, NEW d \in Nat
    PROVE  LET y == AdmittedRow(d) IN
           y \in Rows /\ RowOK(y) /\ y.executionEpoch = execution.epoch
<1> DEFINE v == [type |-> "admitted", status |-> "queued"]
           y == AdmittedRow(d)
<1>0. /\ now \in Nat /\ execution.epoch \in Nat
      /\ connection.controlEpoch \in Nat /\ capability.statusEpoch \in Nat
  BY BoundsAssumption DEF LedgerInv, TypeOK, TargetTypeOK
<1>1. v \in Events /\ v.type = "admitted" /\ v.status = "queued"
  BY EventType DEF RunEventTypes, ActiveStatuses, UndispatchedStatuses
<1>2. /\ <<v>> \in Seq(Events) /\ Len(<<v>>) = 1 /\ <<v>>[1] = v
      /\ DOMAIN <<v>> = 1 .. 1 /\ <<v>> # << >>
      /\ << >> \in Seq(Attempts) /\ Len(<< >>) = 0 /\ DOMAIN << >> = {}
  BY <1>1
<1>3. /\ y.status = "queued" /\ y.jobStatus = "queued" /\ y.events = <<v>>
      /\ y.attempts = << >> /\ y.leaseEpoch = 0 /\ y.leaseOwner = NoWorker
      /\ y.leaseExpiresAt = NoTime /\ y.arguments = TRUE /\ y.terminalAt = NoTime
      /\ y.resultExpiresAt = NoTime /\ y.executionEpoch = execution.epoch
      /\ y.safeErrorCode = NoCode
  BY DEF AdmittedRow, NoRow
<1>4. y \in Rows
  <2>1. "queued" \in ActiveStatuses /\ NoCode \in RunFailureCodes \cup {NoCode}
        /\ NoTime \in Nat /\ NoWorker \in Workers \cup {NoWorker}
    BY DEF ActiveStatuses, UndispatchedStatuses, NoTime
  <2>2. QED
    BY <1>0, <1>2, <2>1, ZenonT(30) DEF Rows, AdmittedRow, NoRow
<1> HIDE DEF y, v
<1>5. Dispatches(y) = {}
  BY <1>1, <1>2, <1>3 DEF Dispatches
<1>6. Active(y) /\ ~Terminal(y)
  BY <1>3 DEF Active, Terminal, ActiveStatuses, UndispatchedStatuses, TerminalStatuses
<1>7. RowProjections(y) /\ RowLease(y)
  BY <1>2, <1>3, <1>6 DEF RowProjections, RowLease, AttemptStatuses
<1>8. RowReplay(y)
  BY <1>1, <1>2, <1>3 DEF RowReplay, LastOf
<1>9. RowOneDispatch(y) /\ RowHonest(y) /\ RowContent(y)
  BY <1>3, <1>5, <1>6 DEF RowOneDispatch, RowHonest, RowContent
<1>10. QED
  BY <1>3, <1>4, <1>7, <1>8, <1>9 DEF RowOK, y

\* The row a claim selects: settled, or leased to its worker.
LEMMA ClaimRowOK ==
    ASSUME LedgerInv, NEW x \in Rows, RowOK(x), x.status \in UndispatchedStatuses,
           NEW w \in Workers
    PROVE  GoodStep(x, ClaimRow(x, w))
<1>1. now \in Nat \ {0} /\ x.deadline \in Nat
  BY RowFacts DEF Rows
<1>2. Active(x)
  BY DEF Active, ActiveStatuses
<1>3. CASE x.deadline <= now
  BY <1>1, <1>2, <1>3, ExpireDeadlineOK, ActiveStep DEF ClaimRow
<1>4. CASE ~(x.deadline <= now) /\ ~TargetIsCurrent(x)
  <2>1. /\ "failed" \in TerminalStatuses /\ "preparation_failed" \in Codes
        /\ "terminal" \in RunEventTypes \ {"dispatch_fenced"}
    BY DEF TerminalStatuses, Codes, RunFailureCodes, RunEventTypes
  <2>2. HonestEnd(x, "failed", "preparation_failed")
    BY DEF HonestEnd, ToolFailureCodes, UndispatchedStatuses
  <2>3. ClaimRow(x, w) = TerminalizeRun(x, "failed", now, "preparation_failed", "terminal")
    BY <1>4 DEF ClaimRow
  <2>4. QED
    BY <1>1, <1>2, <2>1, <2>2, <2>3, TerminalizeOK, ActiveStep
<1>5. CASE ~(x.deadline <= now) /\ TargetIsCurrent(x)
  <2>1. ClaimRow(x, w) = LeaseRow(x, w) /\ now < x.deadline
    BY <1>1, <1>5 DEF ClaimRow
  <2>2. QED
    BY <1>1, <1>2, <2>1, LeaseRowOK, ActiveStep
<1>6. QED
  BY <1>3, <1>4, <1>5

\* A row that opens a poll as overdue or abandoned is settled honestly.
LEMMA ReconciledOK ==
    ASSUME LedgerInv, NEW r \in Runs, NEW t \in Nat \ {0},
           NEW expired \in SUBSET Overdue(t), NEW abandoned \in SUBSET Abandoned(t)
    PROVE  GoodStep(ledger[r], Reconciled(r, t, expired, abandoned))
<1> DEFINE x == ledger[r]
<1>1. x \in Rows /\ RowOK(x)
  BY RowFacts
<1>2. CASE r \in expired
  <2>1. /\ x.deadline <= t
        /\ Active(x) \/ SettledUnseen(x, t)
    BY <1>1, <1>2, OpenJobIsActive DEF Overdue
  <2>2. Reconciled(r, t, expired, abandoned) = ExpireDeadline(x, t)
    BY <1>2 DEF Reconciled
  <2>3. QED
    BY <1>1, <2>1, <2>2, ExpireDeadlineOK, ActiveStep, ResettledOK, SettledStep
<1>3. CASE r \notin expired /\ r \in abandoned
  <2>1. x.status = "dispatch_fenced"
    BY <1>3 DEF Abandoned
  <2>2. /\ "indeterminate" \in TerminalStatuses /\ "worker_lost_after_dispatch" \in Codes
        /\ "terminal" \in RunEventTypes \ {"dispatch_fenced"} /\ Active(x)
    BY <2>1 DEF TerminalStatuses, Codes, RunFailureCodes, RunEventTypes, Active, ActiveStatuses
  <2>3. HonestEnd(x, "indeterminate", "worker_lost_after_dispatch")
    BY <2>1 DEF HonestEnd
  <2>4. Reconciled(r, t, expired, abandoned) =
          TerminalizeRun(x, "indeterminate", t, "worker_lost_after_dispatch", "terminal")
    BY <1>3 DEF Reconciled
  <2>5. QED
    BY <1>1, <2>2, <2>3, <2>4, TerminalizeOK, ActiveStep
<1>4. CASE r \notin expired /\ r \notin abandoned
  BY <1>1, <1>4, SameStep DEF Reconciled
<1>5. QED
  BY <1>2, <1>3, <1>4

\* claim_job: every row it reconciles, and the one it selects, takes a good step.
LEMMA ClaimJobOK ==
    ASSUME LedgerInv, NEW w \in Workers, NEW t \in ClockReads, NEW skipped \in SUBSET Runs,
           ClaimJob(w, t, skipped)
    PROVE  /\ ledger' = [r \in Runs |-> ledger'[r]]
           /\ \A r \in Runs : GoodStep(ledger[r], ledger'[r])
           /\ leases' \subseteq JobLease
<1>1. t \in Nat \ {0}
  BY RowFacts DEF ClockReads
<1>2. PICK expired \in Batches(Overdue(t) \ skipped, [r \in Runs |-> ledger[r].deadline]) :
      \E abandoned \in Batches((Abandoned(t) \ expired) \ skipped,
                               [r \in Runs |-> ledger[r].leaseExpiresAt]) :
        \/ /\ Claimable(t) \subseteq skipped
           /\ ledger' = [r \in Runs |-> Reconciled(r, t, expired, abandoned)]
           /\ UNCHANGED leases
        \/ \E c \in Oldest(Claimable(t) \ skipped) :
             /\ ledger' = [r \in Runs |-> IF r = c THEN ClaimRow(ledger[r], w)
                                          ELSE Reconciled(r, t, expired, abandoned)]
             /\ leases' = leases \cup LeaseOf(c, w)
  BY Zenon DEF ClaimJob
<1>3. PICK abandoned \in Batches((Abandoned(t) \ expired) \ skipped,
                                 [r \in Runs |-> ledger[r].leaseExpiresAt]) :
        \/ /\ Claimable(t) \subseteq skipped
           /\ ledger' = [r \in Runs |-> Reconciled(r, t, expired, abandoned)]
           /\ UNCHANGED leases
        \/ \E c \in Oldest(Claimable(t) \ skipped) :
             /\ ledger' = [r \in Runs |-> IF r = c THEN ClaimRow(ledger[r], w)
                                          ELSE Reconciled(r, t, expired, abandoned)]
             /\ leases' = leases \cup LeaseOf(c, w)
  BY <1>2, Zenon
<1>4. expired \in SUBSET Overdue(t) /\ abandoned \in SUBSET Abandoned(t)
  BY Zenon DEF Batches
<1>5. \A r \in Runs : GoodStep(ledger[r], Reconciled(r, t, expired, abandoned))
  BY <1>1, <1>4, ReconciledOK
<1>6. leases \subseteq JobLease
  BY DEF LedgerInv, TypeOK, TargetTypeOK
<1>7. CASE ledger' = [r \in Runs |-> Reconciled(r, t, expired, abandoned)] /\ UNCHANGED leases
  BY <1>5, <1>6, <1>7
<1>8. ASSUME NEW c \in Oldest(Claimable(t) \ skipped),
             ledger' = [r \in Runs |-> IF r = c THEN ClaimRow(ledger[r], w)
                                       ELSE Reconciled(r, t, expired, abandoned)],
             leases' = leases \cup LeaseOf(c, w)
      PROVE  /\ ledger' = [r \in Runs |-> ledger'[r]]
             /\ \A r \in Runs : GoodStep(ledger[r], ledger'[r])
             /\ leases' \subseteq JobLease
  <2>1. c \in Runs /\ ledger[c].status \in UndispatchedStatuses
    BY DEF Claimable, Oldest
  <2>2. ledger[c] \in Rows /\ RowOK(ledger[c])
    BY <2>1, RowFacts
  <2>3. GoodStep(ledger[c], ClaimRow(ledger[c], w))
    BY <2>1, <2>2, ClaimRowOK
  <2>4. LeaseOf(c, w) \subseteq JobLease
    <3>1. ledger[c].leaseEpoch \in Nat /\ ledger[c].executionEpoch \in Nat
      BY <2>2 DEF Rows
    <3>2. QED
      BY <2>1, <3>1 DEF JobLease, LeaseOf
  <2>5. leases' \subseteq JobLease
    BY <1>6, <1>8, <2>4
  <2>6. \A r \in Runs : GoodStep(ledger[r], ledger'[r])
    BY <1>5, <1>8, <2>3
  <2>7. QED
    BY <1>8, <2>5, <2>6
<1>9. QED
  BY <1>3, <1>7, <1>8

\* create_run: the new row belongs to the current execution epoch.
LEMMA CreateRunOK ==
    ASSUME LedgerInv, NEW r \in Runs, NEW d \in 1 .. MaxClock + MaxRunTime, CreateRun(r, d)
    PROVE  /\ ledger' \in [Runs -> Rows]
           /\ \A q \in Runs : RowOK(ledger'[q]) /\ RowFinal(ledger[q], ledger'[q])
           /\ RestoreReconciled'
<1> DEFINE y == AdmittedRow(d)
<1>1. d \in Nat
  BY BoundsAssumption, TimesAssumption
<1>2. y \in Rows /\ RowOK(y) /\ y.executionEpoch = execution.epoch
  BY <1>1, AdmittedRowOK
<1>3. /\ ledger' = [ledger EXCEPT ![r] = y] /\ ledger[r].status = "absent"
      /\ UNCHANGED execution /\ ~execution.quarantined
  BY DEF CreateRun
<1> HIDE DEF y
<1>4. RowFinal(ledger[r], y)
  BY <1>3 DEF RowFinal, Terminal, TerminalStatuses
<1>5. /\ ledger \in [Runs -> Rows]
      /\ \A q \in Runs : RowOK(ledger[q]) /\ RowFinal(ledger[q], ledger[q])
  BY RowFacts DEF RowFinal
<1>6. /\ ledger' \in [Runs -> Rows]
      /\ \A q \in Runs : RowOK(ledger'[q]) /\ RowFinal(ledger[q], ledger'[q])
  BY <1>2, <1>3, <1>4, <1>5
<1>7. RestoreReconciled'
  BY <1>2, <1>3, <1>5 DEF LedgerInv, RestoreReconciled, ActiveRuns
<1>8. QED
  BY <1>6, <1>7

\* What the holder of a lease does to its run is a good step.
LEMMA LeaseStepOK ==
    ASSUME LedgerInv, NEW l \in leases, LeaseStep(l)
    PROVE  /\ ledger' = [r \in Runs |-> ledger'[r]]
           /\ \A r \in Runs : GoodStep(ledger[r], ledger'[r])
<1> DEFINE x == ledger[l.run]
<1>1. /\ l.run \in Runs /\ now \in Nat \ {0} /\ x \in Rows /\ RowOK(x)
      /\ ledger \in [Runs -> Rows]
  BY RowFacts
<1>2. LeaseHeld(l) => x.jobStatus = "leased"
  BY DEF LeaseHeld
<1>3. LeaseHeld(l) => Active(x)
  BY <1>1, <1>2, OpenJobIsActive
<1>4. LeaseUsable(l) => LeaseHeld(l)
  BY DEF LeaseUsable
<1>5. CASE Heartbeat(l)
  <2>1. ledger' = [ledger EXCEPT ![l.run] = RenewRow(x)] /\ LeaseUsable(l)
    BY <1>5 DEF Heartbeat
  <2>2. GoodStep(x, RenewRow(x))
    BY <1>1, <1>2, <1>3, <1>4, <2>1, RenewRowOK, ActiveStep
  <2>3. QED
    BY <1>1, <2>1, <2>2, OneRow
<1>6. ASSUME NEW renew \in BOOLEAN, FenceSession(l, renew)
      PROVE  /\ ledger' = [r \in Runs |-> ledger'[r]]
             /\ \A r \in Runs : GoodStep(ledger[r], ledger'[r])
  <2> DEFINE u == IF renew THEN RenewRow(x) ELSE x
  <2>1. /\ ledger' = [ledger EXCEPT ![l.run] = FenceRow(u, "session_fenced")]
        /\ LeaseUsable(l) /\ x.status = "preparing"
    BY <1>6 DEF FenceSession, FenceAccepted
  <2>2. /\ u \in Rows /\ RowOK(u) /\ u.status = "preparing"
        /\ u.executionEpoch = x.executionEpoch
    BY <1>1, <1>2, <1>4, <2>1, RenewRowOK
  <2> HIDE DEF u
  <2>3. GoodStep(x, FenceRow(u, "session_fenced"))
    BY <1>1, <1>3, <1>4, <2>1, <2>2, FenceRowOK, ActiveStep
  <2>4. QED
    BY <1>1, <2>1, <2>3, OneRow
<1>7. CASE FenceDispatch(l)
  <2>1. /\ ledger' = [ledger EXCEPT ![l.run] = FenceRow(x, "dispatch_fenced")]
        /\ LeaseUsable(l) /\ x.status = "session_fenced"
    BY <1>7 DEF FenceDispatch, FenceAccepted
  <2>2. GoodStep(x, FenceRow(x, "dispatch_fenced"))
    BY <1>1, <1>3, <1>4, <2>1, FenceRowOK, ActiveStep
  <2>3. QED
    BY <1>1, <2>1, <2>2, OneRow
<1>8. ASSUME NEW s \in TerminalStatuses, NEW code \in RunFailureCodes \cup {NoCode},
             CompleteLease(l, s, code)
      PROVE  /\ ledger' = [r \in Runs |-> ledger'[r]]
             /\ \A r \in Runs : GoodStep(ledger[r], ledger'[r])
  <2>1. /\ ledger' = [ledger EXCEPT ![l.run] = CompleteRow(x, s, code)]
        /\ LeaseHeld(l) /\ ValidWorkerCompletion(x, s, code)
    BY <1>8 DEF CompleteLease, CompletionAccepted
  <2>2. GoodStep(x, CompleteRow(x, s, code))
    BY <1>1, <1>3, <2>1, CompleteRowOK, ActiveStep DEF Codes
  <2>3. QED
    BY <1>1, <2>1, <2>2, OneRow
<1>9. CASE CompleteLate(l)
  <2>1. ledger' = [ledger EXCEPT ![l.run] = ExpireDeadline(x, now)] /\ LeaseHeld(l)
    BY <1>9 DEF CompleteLate
  <2>2. GoodStep(x, ExpireDeadline(x, now))
    BY <1>1, <1>3, <2>1, ExpireDeadlineOK, ActiveStep
  <2>3. QED
    BY <1>1, <2>1, <2>2, OneRow
<1>10. QED
  BY <1>5, <1>6, <1>7, <1>8, <1>9 DEF LeaseStep

\* A batch of reconciled or cleaned-up rows takes good steps.
LEMMA BatchStepOK ==
    ASSUME LedgerInv, NEW skipped \in SUBSET Runs,
           \/ ReconcileRestoreQuarantine(skipped)
           \/ ExpireRetainedContent(skipped)
           \/ ExpireRetainedResults(skipped)
           \/ DeleteExpiredRunMetadata(skipped)
    PROVE  /\ ledger' = [r \in Runs |-> ledger'[r]]
           /\ \A r \in Runs : GoodStep(ledger[r], ledger'[r])
<1>1. now \in Nat \ {0} /\ \A r \in Runs : ledger[r] \in Rows /\ RowOK(ledger[r])
  BY RowFacts
<1>2. \A r \in Runs : GoodStep(ledger[r], ledger[r])
  BY <1>1, SameStep
<1>3. CASE ReconcileRestoreQuarantine(skipped)
  <2>1. PICK batch \in SUBSET ActiveRuns :
          ledger' = [r \in Runs |-> IF r \in batch THEN ReconcileRow(ledger[r]) ELSE ledger[r]]
    BY <1>3, Zenon DEF ReconcileRestoreQuarantine, Batches
  <2>2. \A r \in batch : GoodStep(ledger[r], ReconcileRow(ledger[r]))
    BY <1>1, ReconcileRowOK, ActiveStep DEF ActiveRuns
  <2>3. QED
    BY <1>2, <2>1, <2>2
<1>4. CASE ExpireRetainedContent(skipped)
  <2>1. PICK batch \in SUBSET {r \in Runs : ledger[r].arguments} :
          ledger' = [r \in Runs |->
                        IF r \in batch THEN ExpireContentRow(ledger[r]) ELSE ledger[r]]
    BY <1>4, Zenon DEF ExpireRetainedContent, Batches
  <2>2. ASSUME NEW r \in batch PROVE GoodStep(ledger[r], ExpireContentRow(ledger[r]))
    <3>1. Active(ledger[r]) \/ Terminal(ledger[r])
      BY <1>1, <2>2 DEF RowOK, RowContent
    <3>2. QED
      BY <1>1, <2>2, <3>1, ExpireContentRowOK, SettledStep
  <2>3. QED
    BY <1>2, <2>1, <2>2
<1>5. CASE ExpireRetainedResults(skipped)
  <2>1. PICK batch \in SUBSET {r \in Runs : ledger[r].resultExpiresAt # NoTime} :
          ledger' = [r \in Runs |->
                        IF r \in batch THEN [ledger[r] EXCEPT !.resultExpiresAt = NoTime]
                        ELSE ledger[r]]
    BY <1>5, Zenon DEF ExpireRetainedResults, Batches
  <2>2. ASSUME NEW r \in batch
        PROVE  GoodStep(ledger[r], [ledger[r] EXCEPT !.resultExpiresAt = NoTime])
    BY <1>1, <2>2, ExpireResultOK, SettledStep
  <2>3. QED
    BY <1>2, <2>1, <2>2
<1>6. CASE DeleteExpiredRunMetadata(skipped)
  <2>1. PICK batch \in SUBSET {r \in Runs : ledger[r].terminalAt # NoTime} :
          ledger' = [r \in Runs |-> IF r \in batch THEN NoRow("deleted") ELSE ledger[r]]
    BY <1>6, Zenon DEF DeleteExpiredRunMetadata, Batches
  <2>2. ASSUME NEW r \in batch PROVE GoodStep(ledger[r], NoRow("deleted"))
    BY <1>1, <2>2, DeleteStep DEF RowOK, RowContent
  <2>3. QED
    BY <1>2, <2>1, <2>2
<1>7. QED
  BY <1>3, <1>4, <1>5, <1>6
-----------------------------------------------------------------------------
(* The inductive invariant and what follows from it. *)

\* The empty ledger satisfies the invariant.
LEMMA InitOK == Init => LedgerInv
<1> SUFFICES ASSUME Init PROVE LedgerInv
  OBVIOUS
<1>1. NoRow("absent") \in Rows /\ RowOK(NoRow("absent"))
  BY NoRowOK
<1>2. NoRow("absent").status = "absent"
  BY DEF NoRow
<1>3. TypeOK
  BY <1>1, BoundsAssumption DEF Init, TypeOK, TargetTypeOK, Lifecycles
<1>4. \A r \in Runs : RowOK(ledger[r])
  BY <1>1 DEF Init
<1>5. RestoreReconciled
  BY <1>2 DEF Init, RestoreReconciled, ActiveRuns, Active, ActiveStatuses, UndispatchedStatuses
<1>6. QED
  BY <1>3, <1>4, <1>5 DEF LedgerInv

\* The changes of the target keep its type.
LEMMA TargetNextOK ==
    ASSUME TargetTypeOK, TargetNext
    PROVE  TargetTypeOK'
<1>1. ASSUME StatusChanges
      PROVE  capability' \in [enabled : BOOLEAN, statusEpoch : Nat]
  BY <1>1 DEF StatusChanges, TargetTypeOK
<1>2. CASE SetMembershipRole
  BY <1>2 DEF SetMembershipRole, TargetTypeOK
<1>3. CASE ChangeCapability
  BY <1>1, <1>3 DEF ChangeCapability, TargetTypeOK
<1>4. CASE ChangeConnection
  BY <1>4 DEF ChangeConnection, TargetTypeOK, Lifecycles
<1>5. CASE PublishRefresh
  <2>1. capability' \in [enabled : BOOLEAN, statusEpoch : Nat] /\ member' \in BOOLEAN
    BY <1>1, <1>5 DEF PublishRefresh, TargetTypeOK
  <2>2. connection' \in [lifecycle : Lifecycles, controlEpoch : Nat]
    BY <1>5 DEF PublishRefresh, TargetTypeOK, Lifecycles
  <2>3. QED
    BY <2>1, <2>2 DEF TargetTypeOK
<1>6. CASE AllocateRefresh
  BY <1>6 DEF AllocateRefresh, TargetTypeOK, Lifecycles
<1>7. QED
  BY <1>2, <1>3, <1>4, <1>5, <1>6 DEF TargetNext

\* Every operation keeps the invariant and leaves settled runs as they are.
LEMMA NextOK ==
    ASSUME LedgerInv, [Next]_vars
    PROVE  LedgerInv' /\ \A r \in Runs : RowFinal(ledger[r], ledger'[r])
<1> DEFINE Kept == /\ ledger' \in [Runs -> Rows]
                   /\ \A r \in Runs : RowOK(ledger'[r]) /\ RowFinal(ledger[r], ledger'[r])
                   /\ RestoreReconciled'
           Good == /\ ledger' = [r \in Runs |-> ledger'[r]]
                   /\ \A r \in Runs : GoodStep(ledger[r], ledger'[r])
           Rest == /\ now' \in 1 .. MaxClock
                   /\ execution' \in [epoch : Nat, quarantined : BOOLEAN]
                   /\ leases' \subseteq JobLease
                   /\ TargetTypeOK'
                   /\ revoked' \subseteq Runs
<1>1. /\ TypeOK /\ RestoreReconciled /\ ledger \in [Runs -> Rows]
      /\ \A r \in Runs : RowOK(ledger[r]) /\ RowFinal(ledger[r], ledger[r])
  BY DEF LedgerInv, TypeOK, RowFinal
<1>2. Kept /\ Rest => LedgerInv' /\ \A r \in Runs : RowFinal(ledger[r], ledger'[r])
  BY DEF LedgerInv, TypeOK, TargetTypeOK
<1> SUFFICES Kept /\ Rest
  BY <1>2
<1>3. Good /\ UNCHANGED execution => Kept
  BY GoodSteps
<1>4. UNCHANGED <<ledger, execution>> => Kept
  BY <1>1 DEF RestoreReconciled, ActiveRuns
<1>5. UNCHANGED <<now, execution, leases, targetVars>> => Rest
  BY <1>1 DEF TypeOK, TargetTypeOK, targetVars
<1> HIDE DEF Kept, Good
<1>6. ASSUME NEW r \in Runs, NEW d \in 1 .. MaxClock + MaxRunTime, CreateRun(r, d)
      PROVE  Kept /\ Rest
  BY <1>5, <1>6, CreateRunOK DEF CreateRun, Kept
<1>7. ASSUME NEW r \in Runs, CancelRun(r)
      PROVE  Kept /\ Rest
  <2>1. /\ ledger' = [ledger EXCEPT ![r] = CancelledRow(ledger[r])]
        /\ UNCHANGED <<now, execution, leases, targetVars>> /\ Active(ledger[r])
    BY <1>7 DEF CancelRun
  <2>2. GoodStep(ledger[r], CancelledRow(ledger[r]))
    BY <2>1, RowFacts, CancelledRowOK, ActiveStep
  <2>3. Good
    BY <2>1, <2>2, OneRow DEF Good
  <2>4. QED
    BY <1>3, <1>5, <2>1, <2>3
<1>8. ASSUME NEW w \in Workers, NEW t \in ClockReads, NEW skipped \in SUBSET Runs,
             ClaimJob(w, t, skipped)
      PROVE  Kept /\ Rest
  <2>1. Good /\ leases' \subseteq JobLease
    BY <1>8, ClaimJobOK DEF Good
  <2>2. UNCHANGED <<now, execution, targetVars>>
    BY <1>8 DEF ClaimJob
  <2>3. QED
    BY <1>1, <1>3, <2>1, <2>2 DEF TypeOK, TargetTypeOK, targetVars
<1>9. ASSUME NEW l \in leases, LeaseStep(l)
      PROVE  Kept /\ Rest
  <2>1. Good
    BY <1>9, LeaseStepOK DEF Good
  <2>2. UNCHANGED <<now, execution, leases, targetVars>>
    BY <1>9 DEF LeaseStep, Heartbeat, FenceSession, FenceDispatch, CompleteLease, CompleteLate
  <2>3. QED
    BY <1>3, <1>5, <2>1, <2>2
<1>10. CASE RestoreStep
  <2>1. CASE EnterRestoreQuarantine
    <3>1. /\ execution' = [epoch |-> execution.epoch + 1, quarantined |-> TRUE]
          /\ UNCHANGED <<now, ledger, leases, targetVars>>
      BY <2>1 DEF EnterRestoreQuarantine
    <3>2. Kept
      BY <1>1, <3>1 DEF Kept, RestoreReconciled
    <3>3. execution' \in [epoch : Nat, quarantined : BOOLEAN]
      BY <1>1, <3>1 DEF TypeOK
    <3>4. Rest
      BY <1>1, <3>1, <3>3 DEF TypeOK, TargetTypeOK, targetVars
    <3>5. QED
      BY <3>2, <3>4
  <2>2. ASSUME NEW skipped \in SUBSET Runs, ReconcileRestoreQuarantine(skipped)
        PROVE  Kept /\ Rest
    <3>1. Good
      BY <2>2, BatchStepOK DEF Good
    <3>2. UNCHANGED <<now, execution, leases, targetVars>>
      BY <2>2 DEF ReconcileRestoreQuarantine
    <3>3. QED
      BY <1>3, <1>5, <3>1, <3>2
  <2>3. CASE ClearRestoreQuarantine
    <3>1. /\ execution' = [execution EXCEPT !.quarantined = FALSE]
          /\ ActiveRuns = {} /\ UNCHANGED <<now, ledger, leases, targetVars>>
      BY <2>3 DEF ClearRestoreQuarantine
    <3>2. Kept
      BY <1>1, <3>1 DEF Kept, RestoreReconciled, ActiveRuns
    <3>3. execution' \in [epoch : Nat, quarantined : BOOLEAN]
      BY <1>1, <3>1 DEF TypeOK
    <3>4. Rest
      BY <1>1, <3>1, <3>3 DEF TypeOK, TargetTypeOK, targetVars
    <3>5. QED
      BY <3>2, <3>4
  <2>4. QED
    BY <1>10, <2>1, <2>2, <2>3 DEF RestoreStep
<1>11. CASE MaintenanceStep
  <2>1. PICK skipped \in SUBSET Runs :
          \/ ExpireRetainedContent(skipped)
          \/ ExpireRetainedResults(skipped)
          \/ DeleteExpiredRunMetadata(skipped)
    BY <1>11 DEF MaintenanceStep
  <2>2. Good
    BY <2>1, BatchStepOK DEF Good
  <2>3. UNCHANGED <<now, execution, leases, targetVars>>
    BY <2>1 DEF ExpireRetainedContent, ExpireRetainedResults, DeleteExpiredRunMetadata
  <2>4. QED
    BY <1>3, <1>5, <2>2, <2>3
<1>12. CASE TargetStep
  <2>1. UNCHANGED <<now, execution, ledger, leases>> /\ TargetNext
    BY <1>12 DEF TargetStep
  <2>2. TargetTypeOK'
    BY <1>1, <2>1, TargetNextOK DEF TypeOK
  <2>3. revoked' \subseteq Runs
    BY <1>1, <1>12 DEF TypeOK, TargetStep, ActiveRuns
  <2>4. QED
    BY <1>1, <1>4, <2>1, <2>2, <2>3 DEF TypeOK
<1>13. CASE Tick
  <2>1. UNCHANGED <<execution, ledger, leases, targetVars>> /\ now' = now + 1 /\ now < MaxClock
    BY <1>13 DEF Tick
  <2>2. now' \in 1 .. MaxClock
    BY <1>1, <2>1, BoundsAssumption DEF TypeOK
  <2>3. QED
    BY <1>1, <1>4, <2>1, <2>2 DEF TypeOK, TargetTypeOK, targetVars
<1>14. CASE UNCHANGED vars
  BY <1>4, <1>5, <1>14 DEF vars, targetVars
<1>15. QED
  BY <1>6, <1>7, <1>8, <1>9, <1>10, <1>11, <1>12, <1>13, <1>14 DEF Next

\* The invariant holds in every state of every behaviour.
THEOREM LedgerInvariant == Spec => []LedgerInv
<1>1. Init => LedgerInv
  BY InitOK
<1>2. LedgerInv /\ [Next]_vars => LedgerInv'
  BY NextOK
<1>3. QED
  BY <1>1, <1>2, PTL DEF Spec

\* Every value the operations store has its type, for any number of runs and workers.
THEOREM TypeCorrect == Spec => []TypeOK
<1>1. LedgerInv => TypeOK
  BY DEF LedgerInv
<1>2. QED
  BY <1>1, LedgerInvariant, PTL

\* Each run crosses the dispatch fence at most once (fence_dispatch, claim_job): the
\* ledger permits one tool call per run, over all attempts, workers and restores.
THEOREM OneDispatch == Spec => []AtMostOneDispatch
<1>1. LedgerInv => AtMostOneDispatch
  BY DEF LedgerInv, RowOK, AtMostOneDispatch
<1>2. QED
  BY <1>1, LedgerInvariant, PTL

\* The stored outcome of a run agrees with whether it crossed the dispatch fence,
\* whichever of _terminalize_run's callers settled it.
THEOREM Honest == Spec => []HonestOutcome
<1>1. LedgerInv => HonestOutcome
  BY DEF LedgerInv, RowOK, HonestOutcome
<1>2. QED
  BY <1>1, LedgerInvariant, PTL

\* A run, its job and its attempts always agree, and so do its leases and deadline, its
\* event history and status, and its retained content.
THEOREM RowsConsistent ==
    Spec => []ProjectionsAgree
<1>1. LedgerInv => ProjectionsAgree
  BY DEF LedgerInv, RowOK, ProjectionsAgree
<1>2. QED
  BY <1>1, LedgerInvariant, PTL

\* No active run of an earlier execution epoch survives a restore quarantine
\* (clear_restore_quarantine).
THEOREM Reconciliation == Spec => []RestoreReconciled
<1>1. LedgerInv => RestoreReconciled
  BY DEF LedgerInv
<1>2. QED
  BY <1>1, LedgerInvariant, PTL

\* No operation ever changes the outcome of a settled run or revives a deleted one
\* (_reject_terminal_status_update never has to object).
THEOREM Final == Spec => TerminalIsFinal
<1>1. LedgerInv /\ [Next]_vars => [\A r \in Runs : RowFinal(ledger[r], ledger'[r])]_vars
  BY NextOK
<1>2. QED
  BY <1>1, LedgerInvariant, PTL DEF Spec, TerminalIsFinal

-----------------------------------------------------------------------------
(* What each operation may do to a row, beyond keeping it consistent. *)

\* The run stays where it is: its lease, its epochs and its outcome are the same, but for
\* the code of a run that a poll finds timed out once more.
Quiet(x, y) ==
    /\ y.status = x.status
    /\ y.safeErrorCode = x.safeErrorCode \/ x.status = "timed_out"
    /\ y.jobStatus = x.jobStatus /\ y.leaseOwner = x.leaseOwner
    /\ y.leaseEpoch = x.leaseEpoch /\ y.leaseExpiresAt = x.leaseExpiresAt
    /\ y.executionEpoch = x.executionEpoch
    /\ y.controlEpoch = x.controlEpoch /\ y.statusEpoch = x.statusEpoch
    /\ y.createdAt = x.createdAt /\ y.deadline = x.deadline

\* The run is settled, by an outcome that agrees with whether it was dispatched.
Ended(x, y) ==
    /\ Active(x) /\ Terminal(y)
    /\ HonestEnd(x, y.status, y.safeErrorCode)
    /\ y.leaseEpoch = x.leaseEpoch /\ y.leaseExpiresAt = NoTime

\* An outcome that reports an answer of the upstream server.
Answered(y) == y.status = "succeeded" \/ (y.status = "failed" /\ y.safeErrorCode \in ToolFailureCodes)

\* What happens to a run that no worker acts upon: nothing, an end without an answer, or
\* its deletion once it was settled.
Settling(x, y) == Quiet(x, y) \/ (Ended(x, y) /\ ~Answered(y))
Removed(x, y) == Terminal(x) /\ y = NoRow("deleted")
Passive(x, y) == Settling(x, y) \/ Removed(x, y)

\* The run of an open row moves on under a lease: the lease is given or renewed, or a
\* fence is crossed.
Moved(x, y, s, e) ==
    /\ y.status = s /\ y.leaseEpoch = e /\ y.jobStatus = "leased"
    /\ y.executionEpoch = x.executionEpoch
    /\ y.controlEpoch = x.controlEpoch /\ y.statusEpoch = x.statusEpoch
    /\ y.createdAt = x.createdAt /\ y.deadline = x.deadline

\* _terminalize_run ends an active row.
LEMMA TerminalizeEnds ==
    ASSUME NEW x \in Rows, Active(x),
           NEW s \in TerminalStatuses, NEW at, NEW code, NEW type,
           HonestEnd(x, s, code)
    PROVE  LET y == TerminalizeRun(x, s, at, code, type) IN
           Ended(x, y) /\ y.status = s /\ y.safeErrorCode = code
BY DEF TerminalizeRun, Rows, Ended, Terminal

\* A deadline is not an answer.
LEMMA ExpireDeadlineEnds ==
    ASSUME NEW x \in Rows, Active(x), NEW at
    PROVE  Settling(x, ExpireDeadline(x, at))
<1>1. /\ TimeoutStatus(x) \in TerminalStatuses
      /\ HonestEnd(x, TimeoutStatus(x), "deadline_exceeded")
      /\ TimeoutStatus(x) \notin {"succeeded", "failed"}
  BY DEF TimeoutStatus, TerminalStatuses, HonestEnd
<1>2. QED
  BY <1>1, TerminalizeEnds DEF ExpireDeadline, Settling, Answered

\* A poll that settles a settled run again changes nothing of it but its code.
LEMMA ResettledQuiet ==
    ASSUME NEW x \in Rows, RowOK(x), x.status = "timed_out", NEW at
    PROVE  Settling(x, ExpireDeadline(x, at))
<1>1. TimeoutStatus(x) = "timed_out"
  BY DEF TimeoutStatus
<1>2. /\ x.jobStatus = "timed_out" /\ x.leaseOwner = NoWorker /\ x.leaseExpiresAt = NoTime
  BY DEF RowOK, RowProjections, RowLease, Terminal, TerminalStatuses
<1>3. QED
  BY <1>1, <1>2 DEF ExpireDeadline, TerminalizeRun, Settling, Quiet, Rows

\* cancel_run ends an undispatched run, and marks a dispatched one.
LEMMA CancelledSettling ==
    ASSUME NEW x \in Rows, Active(x)
    PROVE  Settling(x, CancelledRow(x))
<1> DEFINE y == [x EXCEPT !.cancellationRequested = TRUE]
<1>1. /\ y \in Rows /\ Quiet(x, y) /\ y.events = x.events
  BY DEF Rows, Quiet
<1>2. Active(y) /\ \A z : Ended(y, z) => Ended(x, z)
  BY <1>1 DEF Active, Quiet, Ended, HonestEnd
<1>3. CASE x.deadline <= now
  <2>1. CancelledRow(x) = ExpireDeadline(y, now)
    BY <1>3 DEF CancelledRow
  <2> HIDE DEF y
  <2>2. Settling(y, ExpireDeadline(y, now))
    BY <1>1, <1>2, ExpireDeadlineEnds
  <2>3. ~Terminal(y)
    BY <1>2 DEF Active, Terminal, ActiveStatuses, UndispatchedStatuses, TerminalStatuses
  <2>4. QED
    BY <1>1, <1>2, <2>1, <2>2, <2>3 DEF Settling, Quiet
<1>4. CASE ~(x.deadline <= now) /\ x.status \in UndispatchedStatuses
  <2>1. CancelledRow(x) =
          TerminalizeRun(y, "cancelled", now, "cancelled_before_dispatch", "cancel_requested")
    BY <1>4 DEF CancelledRow
  <2>2. HonestEnd(y, "cancelled", "cancelled_before_dispatch") /\ "cancelled" \in TerminalStatuses
    BY <1>1, <1>4 DEF HonestEnd, UndispatchedStatuses, Quiet, TerminalStatuses
  <2> HIDE DEF y
  <2>3. QED
    BY <1>1, <1>2, <2>1, <2>2, TerminalizeEnds DEF Settling, Answered
<1>5. CASE ~(x.deadline <= now) /\ x.status \notin UndispatchedStatuses
  BY <1>5 DEF CancelledRow, Settling, Quiet, Rows
<1>6. QED
  BY <1>3, <1>4, <1>5

\* A restore ends every active run without an answer.
LEMMA ReconcileSettling ==
    ASSUME NEW x \in Rows, Active(x)
    PROVE  Settling(x, ReconcileRow(x))
<1> DEFINE s == IF x.status = "dispatch_fenced" THEN "indeterminate" ELSE "cancelled"
<1>1. s \in TerminalStatuses /\ HonestEnd(x, s, "restore_reconciliation")
      /\ s \notin {"succeeded", "failed"}
  BY DEF TerminalStatuses, HonestEnd
<1>2. ReconcileRow(x) =
        TerminalizeRun(x, s, now, "restore_reconciliation", "restore_reconciled")
  BY DEF ReconcileRow
<1> HIDE DEF s
<1>3. QED
  BY <1>1, <1>2, TerminalizeEnds DEF Settling, Answered

\* So does the retention limit of the arguments.
LEMMA ExpireContentSettling ==
    ASSUME NEW x \in Rows, Active(x) \/ Terminal(x)
    PROVE  Settling(x, ExpireContentRow(x))
<1>1. CASE Terminal(x)
  BY <1>1 DEF ExpireContentRow, Settling, Quiet, Rows
<1>2. CASE ~Terminal(x)
  <2> DEFINE b == TerminalizeRun(x, TimeoutStatus(x), now, "content_retention_deadline",
                                 "content_expired")
  <2>1. /\ TimeoutStatus(x) \in TerminalStatuses
        /\ HonestEnd(x, TimeoutStatus(x), "content_retention_deadline")
        /\ TimeoutStatus(x) \notin {"succeeded", "failed"}
    BY DEF TimeoutStatus, TerminalStatuses, HonestEnd
  <2>2. Ended(x, b) /\ b.status = TimeoutStatus(x)
    BY <1>2, <2>1, TerminalizeEnds
  <2>3. LET y == [b EXCEPT !.arguments = FALSE] IN
        /\ y.status = b.status /\ y.safeErrorCode = b.safeErrorCode
        /\ y.leaseEpoch = b.leaseEpoch /\ y.leaseExpiresAt = b.leaseExpiresAt
    BY DEF TerminalizeRun, Rows
  <2>4. ExpireContentRow(x) = [b EXCEPT !.arguments = FALSE]
    BY <1>2 DEF ExpireContentRow
  <2> HIDE DEF b
  <2>5. QED
    BY <2>1, <2>2, <2>3, <2>4 DEF Settling, Ended, Answered, Terminal
<1>3. QED
  BY <1>1, <1>2

\* Users who cancel, restores, cleanups, the registry and the clock act on no run but to
\* end it unanswered, annotate it or delete it, and no transaction both ends and deletes.
LEMMA PassiveSteps ==
    ASSUME LedgerInv,
           \/ \E r \in Runs : CancelRun(r)
           \/ RestoreStep \/ MaintenanceStep \/ TargetStep \/ Tick \/ UNCHANGED vars
    PROVE  /\ \/ \A r \in Runs : Settling(ledger[r], ledger'[r])
              \/ \A r \in Runs : ledger'[r] = ledger[r] \/ Removed(ledger[r], ledger'[r])
           /\ \A r \in Runs : Passive(ledger[r], ledger'[r])
<1>1. /\ \A r \in Runs : ledger[r] \in Rows /\ RowOK(ledger[r])
      /\ ledger \in [Runs -> Rows]
  BY RowFacts
<1>2. \A r \in Runs : Settling(ledger[r], ledger[r])
  BY DEF Settling, Quiet
<1>3. ASSUME NEW r \in Runs, CancelRun(r)
      PROVE  \A q \in Runs : Settling(ledger[q], ledger'[q])
  <2>1. Active(ledger[r]) /\ ledger' = [ledger EXCEPT ![r] = CancelledRow(ledger[r])]
    BY <1>3 DEF CancelRun
  <2>2. Settling(ledger[r], CancelledRow(ledger[r]))
    BY <1>1, <2>1, CancelledSettling
  <2>3. QED
    BY <1>1, <1>2, <2>1, <2>2
<1>4. ASSUME NEW skipped \in SUBSET Runs, ReconcileRestoreQuarantine(skipped)
      PROVE  \A q \in Runs : Settling(ledger[q], ledger'[q])
  <2>1. PICK batch \in SUBSET ActiveRuns :
          ledger' = [r \in Runs |-> IF r \in batch THEN ReconcileRow(ledger[r]) ELSE ledger[r]]
    BY <1>4, Zenon DEF ReconcileRestoreQuarantine, Batches
  <2>2. \A r \in batch : Settling(ledger[r], ReconcileRow(ledger[r]))
    BY <1>1, ReconcileSettling DEF ActiveRuns
  <2>3. QED
    BY <1>2, <2>1, <2>2
<1>5. ASSUME NEW skipped \in SUBSET Runs, ExpireRetainedContent(skipped)
      PROVE  \A q \in Runs : Settling(ledger[q], ledger'[q])
  <2>1. PICK batch \in SUBSET {r \in Runs : ledger[r].arguments} :
          ledger' = [r \in Runs |->
                        IF r \in batch THEN ExpireContentRow(ledger[r]) ELSE ledger[r]]
    BY <1>5, Zenon DEF ExpireRetainedContent, Batches
  <2>2. ASSUME NEW r \in batch PROVE Settling(ledger[r], ExpireContentRow(ledger[r]))
    <3>1. Active(ledger[r]) \/ Terminal(ledger[r])
      BY <1>1, <2>2 DEF RowOK, RowContent
    <3>2. QED
      BY <1>1, <2>2, <3>1, ExpireContentSettling
  <2>3. QED
    BY <1>2, <2>1, <2>2
<1>6. ASSUME NEW skipped \in SUBSET Runs, ExpireRetainedResults(skipped)
      PROVE  \A q \in Runs : Settling(ledger[q], ledger'[q])
  <2>1. PICK batch \in SUBSET Runs :
          ledger' = [r \in Runs |->
                        IF r \in batch THEN [ledger[r] EXCEPT !.resultExpiresAt = NoTime]
                        ELSE ledger[r]]
    BY <1>6, Zenon DEF ExpireRetainedResults, Batches
  <2>2. ASSUME NEW x \in Rows PROVE Settling(x, [x EXCEPT !.resultExpiresAt = NoTime])
    BY DEF Settling, Quiet, Rows
  <2>3. QED
    BY <1>1, <1>2, <2>1, <2>2
<1>7. ASSUME NEW skipped \in SUBSET Runs, DeleteExpiredRunMetadata(skipped)
      PROVE  \A q \in Runs : ledger'[q] = ledger[q] \/ Removed(ledger[q], ledger'[q])
  <2>1. PICK batch \in SUBSET {r \in Runs : ledger[r].terminalAt # NoTime} :
          ledger' = [r \in Runs |-> IF r \in batch THEN NoRow("deleted") ELSE ledger[r]]
    BY <1>7, Zenon DEF DeleteExpiredRunMetadata, Batches
  <2>2. \A r \in batch : Terminal(ledger[r])
    BY <1>1, <2>1 DEF RowOK, RowContent
  <2>3. QED
    BY <2>1, <2>2 DEF Removed
<1>8. UNCHANGED ledger => \A r \in Runs : Settling(ledger[r], ledger'[r])
  BY <1>2
<1>9. CASE EnterRestoreQuarantine \/ ClearRestoreQuarantine \/ TargetStep \/ Tick \/ UNCHANGED vars
  BY <1>8, <1>9 DEF EnterRestoreQuarantine, ClearRestoreQuarantine, TargetStep, Tick, vars,
                    Passive
<1>10. \/ \A r \in Runs : Settling(ledger[r], ledger'[r])
       \/ \A r \in Runs : ledger'[r] = ledger[r] \/ Removed(ledger[r], ledger'[r])
  BY <1>3, <1>4, <1>5, <1>6, <1>7, <1>8, <1>9 DEF RestoreStep, MaintenanceStep
<1>11. QED
  BY <1>2, <1>10 DEF Passive

\* The row of a new lease.
LEMMA LeaseRowMoves ==
    ASSUME NEW x \in Rows, RowOK(x), x.status \in UndispatchedStatuses, NEW w \in Workers
    PROVE  LET y == LeaseRow(x, w) IN
           Moved(x, y, "preparing", x.leaseEpoch + 1) /\ y.leaseOwner = w
<1> DEFINE z == LoseLease(x)
<1>1. z \in Rows /\ z.leaseEpoch = x.leaseEpoch /\ z.executionEpoch = x.executionEpoch
  BY LoseLeaseOK
<1>2. /\ z.controlEpoch = x.controlEpoch /\ z.statusEpoch = x.statusEpoch
      /\ z.createdAt = x.createdAt /\ z.deadline = x.deadline
  BY DEF LoseLease, Rows
<1> HIDE DEF z
<1>3. QED
  BY <1>1, <1>2 DEF LeaseRow, Moved, z, Rows

\* What claim_job did when it gave lease l: one waiting run, whose target is the one it
\* was admitted for, is leased anew; every other run is left to its fate.
Leased(l) ==
    LET x == ledger[l.run] IN
    /\ l.run \in Runs /\ l.worker \in Workers
    /\ ~execution.quarantined /\ TargetIsCurrent(x)
    /\ x.status \in UndispatchedStatuses
    /\ l.leaseEpoch = x.leaseEpoch + 1 /\ l.executionEpoch = x.executionEpoch
    /\ Moved(x, ledger'[l.run], "preparing", l.leaseEpoch)
    /\ ledger'[l.run].leaseOwner = l.worker
    /\ \A q \in Runs \ {l.run} : Settling(ledger[q], ledger'[q])

\* A poll gives one lease or none.
LEMMA ClaimSteps ==
    ASSUME LedgerInv, NEW w \in Workers, NEW t \in ClockReads, NEW skipped \in SUBSET Runs,
           ClaimJob(w, t, skipped)
    PROVE  \/ leases' = leases /\ \A r \in Runs : Settling(ledger[r], ledger'[r])
           \/ \E l \in JobLease : l.worker = w /\ leases' = leases \cup {l} /\ Leased(l)
<1>1. \A r \in Runs : ledger[r] \in Rows /\ RowOK(ledger[r])
  BY RowFacts
<1>2. PICK expired \in Batches(Overdue(t) \ skipped, [r \in Runs |-> ledger[r].deadline]) :
      \E abandoned \in Batches((Abandoned(t) \ expired) \ skipped,
                               [r \in Runs |-> ledger[r].leaseExpiresAt]) :
        \/ /\ Claimable(t) \subseteq skipped
           /\ ledger' = [r \in Runs |-> Reconciled(r, t, expired, abandoned)]
           /\ UNCHANGED leases
        \/ \E c \in Oldest(Claimable(t) \ skipped) :
             /\ ledger' = [r \in Runs |-> IF r = c THEN ClaimRow(ledger[r], w)
                                          ELSE Reconciled(r, t, expired, abandoned)]
             /\ leases' = leases \cup LeaseOf(c, w)
  BY Zenon DEF ClaimJob
<1>3. PICK abandoned \in Batches((Abandoned(t) \ expired) \ skipped,
                                 [r \in Runs |-> ledger[r].leaseExpiresAt]) :
        \/ /\ Claimable(t) \subseteq skipped
           /\ ledger' = [r \in Runs |-> Reconciled(r, t, expired, abandoned)]
           /\ UNCHANGED leases
        \/ \E c \in Oldest(Claimable(t) \ skipped) :
             /\ ledger' = [r \in Runs |-> IF r = c THEN ClaimRow(ledger[r], w)
                                          ELSE Reconciled(r, t, expired, abandoned)]
             /\ leases' = leases \cup LeaseOf(c, w)
  BY <1>2, Zenon
<1>4. expired \in SUBSET Overdue(t) /\ abandoned \in SUBSET Abandoned(t)
  BY Zenon DEF Batches
<1>5. ASSUME NEW r \in Runs
      PROVE  Settling(ledger[r], Reconciled(r, t, expired, abandoned))
  <2>1. CASE r \in expired
    <3>1. Active(ledger[r]) \/ ledger[r].status = "timed_out"
      BY <1>1, <1>4, <2>1, OpenJobIsActive DEF Overdue, SettledUnseen
    <3>2. QED
      BY <1>1, <2>1, <3>1, ExpireDeadlineEnds, ResettledQuiet DEF Reconciled
  <2>2. CASE r \notin expired /\ r \in abandoned
    <3>1. ledger[r].status = "dispatch_fenced"
      BY <1>4, <2>2 DEF Abandoned
    <3>2. /\ "indeterminate" \in TerminalStatuses /\ Active(ledger[r])
          /\ HonestEnd(ledger[r], "indeterminate", "worker_lost_after_dispatch")
      BY <3>1 DEF TerminalStatuses, Active, ActiveStatuses, HonestEnd
    <3>3. QED
      BY <1>1, <2>2, <3>2, TerminalizeEnds DEF Reconciled, Settling, Answered
  <2>3. CASE r \notin expired /\ r \notin abandoned
    BY <2>3 DEF Reconciled, Settling, Quiet
  <2>4. QED
    BY <2>1, <2>2, <2>3
<1>6. CASE ledger' = [r \in Runs |-> Reconciled(r, t, expired, abandoned)] /\ UNCHANGED leases
  BY <1>5, <1>6
<1>7. ASSUME NEW c \in Oldest(Claimable(t) \ skipped),
             ledger' = [r \in Runs |-> IF r = c THEN ClaimRow(ledger[r], w)
                                       ELSE Reconciled(r, t, expired, abandoned)],
             leases' = leases \cup LeaseOf(c, w)
      PROVE  \/ leases' = leases /\ \A r \in Runs : Settling(ledger[r], ledger'[r])
             \/ \E l \in JobLease : l.worker = w /\ leases' = leases \cup {l} /\ Leased(l)
  <2> DEFINE x == ledger[c]
  <2>1. /\ c \in Runs /\ x.status \in UndispatchedStatuses /\ x \in Rows /\ RowOK(x)
        /\ Active(x) /\ x.deadline \in Nat /\ now \in Nat /\ ~execution.quarantined
    BY <1>1, RowFacts DEF Claimable, Oldest, Active, ActiveStatuses, Rows, ClaimJob
  <2>2. ledger'[c] = ClaimRow(x, w)
    BY <1>7, <2>1
  <2>3. \A q \in Runs \ {c} : Settling(ledger[q], ledger'[q])
    BY <1>5, <1>7
  <2>4. CASE Leasable(c)
    <3> DEFINE l == [run |-> c, worker |-> w, leaseEpoch |-> x.leaseEpoch + 1,
                     executionEpoch |-> x.executionEpoch]
    <3>1. l \in JobLease /\ l.run = c /\ l.worker = w /\ l.leaseEpoch = x.leaseEpoch + 1
          /\ l.executionEpoch = x.executionEpoch /\ LeaseOf(c, w) = {l}
      BY <2>1, <2>4, SMTT(20) DEF JobLease, Rows, LeaseOf
    <3>2. ClaimRow(x, w) = LeaseRow(x, w) /\ TargetIsCurrent(x)
      BY <2>1, <2>4 DEF ClaimRow, Leasable
    <3> HIDE DEF l
    <3>3. Leased(l)
      BY <2>1, <2>2, <2>3, <3>1, <3>2, LeaseRowMoves DEF Leased
    <3>4. QED
      BY <1>7, <3>1, <3>3
  <2>5. CASE ~Leasable(c)
    <3>1. leases' = leases
      BY <1>7, <2>5 DEF LeaseOf
    <3>2. Settling(x, ClaimRow(x, w))
      <4>1. CASE x.deadline <= now
        BY <2>1, <4>1, ExpireDeadlineEnds DEF ClaimRow
      <4>2. CASE ~(x.deadline <= now)
        <5>1. ClaimRow(x, w) = TerminalizeRun(x, "failed", now, "preparation_failed", "terminal")
          BY <2>1, <2>5, <4>2 DEF ClaimRow, Leasable
        <5>2. HonestEnd(x, "failed", "preparation_failed") /\ "failed" \in TerminalStatuses
              /\ "preparation_failed" \notin ToolFailureCodes
          BY <2>1 DEF HonestEnd, ToolFailureCodes, UndispatchedStatuses, TerminalStatuses
        <5>3. QED
          BY <2>1, <5>1, <5>2, TerminalizeEnds DEF Settling, Answered
      <4>3. QED
        BY <4>1, <4>2
    <3>3. QED
      BY <2>2, <2>3, <3>1, <3>2
  <2>6. QED
    BY <2>4, <2>5
<1>8. QED
  BY <1>3, <1>6, <1>7

\* What the holder of lease l may do to its run: renew, cross the next fence of a current
\* target, or end it; the run of every other lease stays as it is.
LEMMA HolderSteps ==
    ASSUME LedgerInv, NEW l \in leases
    PROVE  LET x == ledger[l.run]
               y == ledger'[l.run] IN
           /\ LeaseStep(l) =>
                /\ \A q \in Runs \ {l.run} : ledger'[q] = ledger[q]
                /\ l.run \in Runs /\ Active(x) /\ LeaseHeld(l)
                /\ UNCHANGED <<now, execution, leases, targetVars>>
           /\ Heartbeat(l) =>
                /\ LeaseUsable(l)
                /\ Moved(x, y, x.status, x.leaseEpoch) /\ y.leaseOwner = x.leaseOwner
                /\ y.safeErrorCode = x.safeErrorCode
           /\ \A renew \in BOOLEAN : FenceSession(l, renew) =>
                /\ LeaseUsable(l) /\ TargetIsCurrent(x) /\ x.status = "preparing"
                /\ Moved(x, y, "session_fenced", x.leaseEpoch) /\ y.leaseOwner = x.leaseOwner
           /\ FenceDispatch(l) =>
                /\ LeaseUsable(l) /\ TargetIsCurrent(x) /\ x.status = "session_fenced"
                /\ Moved(x, y, "dispatch_fenced", x.leaseEpoch) /\ y.leaseOwner = x.leaseOwner
           /\ \A s, code : CompleteLease(l, s, code) =>
                /\ ValidWorkerCompletion(x, s, code)
                /\ Ended(x, y) /\ y.status = s /\ y.safeErrorCode = code
           /\ CompleteLate(l) => Settling(x, y)
<1> DEFINE x == ledger[l.run]
           y == ledger'[l.run]
<1>1. /\ l.run \in Runs /\ x \in Rows /\ RowOK(x) /\ ledger \in [Runs -> Rows]
  BY RowFacts
<1>2. LeaseHeld(l) => x.jobStatus = "leased" /\ Active(x)
  BY <1>1, OpenJobIsActive DEF LeaseHeld
<1>3. LeaseUsable(l) => LeaseHeld(l)
  BY DEF LeaseUsable
<1>4. LeaseStep(l) =>
        /\ \A q \in Runs \ {l.run} : ledger'[q] = ledger[q]
        /\ l.run \in Runs /\ Active(x) /\ LeaseHeld(l)
        /\ UNCHANGED <<now, execution, leases, targetVars>>
  BY <1>1, <1>2, <1>3 DEF LeaseStep, Heartbeat, FenceSession, FenceDispatch, CompleteLease,
                          CompleteLate, FenceAccepted, CompletionAccepted
<1>5. Heartbeat(l) =>
        /\ LeaseUsable(l)
        /\ Moved(x, y, x.status, x.leaseEpoch) /\ y.leaseOwner = x.leaseOwner
        /\ y.safeErrorCode = x.safeErrorCode
  BY <1>1, <1>2, <1>3 DEF Heartbeat, RenewRow, Moved, Rows
<1>6. ASSUME NEW renew \in BOOLEAN, FenceSession(l, renew)
      PROVE  /\ LeaseUsable(l) /\ TargetIsCurrent(x) /\ x.status = "preparing"
             /\ Moved(x, y, "session_fenced", x.leaseEpoch) /\ y.leaseOwner = x.leaseOwner
  <2> DEFINE u == IF renew THEN RenewRow(x) ELSE x
  <2>1. /\ y = FenceRow(u, "session_fenced")
        /\ LeaseUsable(l) /\ TargetIsCurrent(x) /\ x.status = "preparing"
    BY <1>1, <1>6 DEF FenceSession, FenceAccepted
  <2>2. /\ u \in Rows /\ Moved(x, u, x.status, x.leaseEpoch) /\ u.leaseOwner = x.leaseOwner
    <3>1. RenewRow(x) \in Rows
      BY <1>1, <1>2, <1>3, <2>1, RowFacts, RenewRowOK
    <3>2. QED
      BY <1>1, <1>2, <1>3, <2>1, <3>1, ZenonT(30) DEF RenewRow, Moved, Rows
  <2> HIDE DEF u
  <2>3. QED
    BY <2>1, <2>2 DEF FenceRow, Moved, Rows
<1>7. FenceDispatch(l) =>
        /\ LeaseUsable(l) /\ TargetIsCurrent(x) /\ x.status = "session_fenced"
        /\ Moved(x, y, "dispatch_fenced", x.leaseEpoch) /\ y.leaseOwner = x.leaseOwner
  BY <1>1, <1>2, <1>3 DEF FenceDispatch, FenceAccepted, FenceRow, Moved, Rows
<1>8. ASSUME NEW s, NEW code, CompleteLease(l, s, code)
      PROVE  /\ ValidWorkerCompletion(x, s, code)
             /\ Ended(x, y) /\ y.status = s /\ y.safeErrorCode = code
  <2> DEFINE b == TerminalizeRun(x, s, now, code, "terminal")
  <2>1. /\ ValidWorkerCompletion(x, s, code) /\ Active(x)
        /\ y = CompleteRow(x, s, code)
    BY <1>1, <1>2, <1>8 DEF CompleteLease, CompletionAccepted
  <2>2. HonestEnd(x, s, code) /\ s \in TerminalStatuses
    BY <2>1 DEF ValidWorkerCompletion, HonestEnd, ToolFailureCodes, TerminalStatuses
  <2>3. Ended(x, b) /\ b.status = s /\ b.safeErrorCode = code
    BY <1>1, <2>1, <2>2, TerminalizeEnds
  <2>4. /\ y.status = b.status /\ y.safeErrorCode = b.safeErrorCode
        /\ y.leaseEpoch = b.leaseEpoch /\ y.leaseExpiresAt = b.leaseExpiresAt
    BY <2>1 DEF CompleteRow, TerminalizeRun, Rows
  <2> HIDE DEF b
  <2>5. QED
    BY <2>1, <2>3, <2>4 DEF Ended, Terminal
<1>9. CompleteLate(l) => Settling(x, y)
  BY <1>1, <1>2, ExpireDeadlineEnds DEF CompleteLate
<1>10. QED
  BY <1>4, <1>5, <1>6, <1>7, <1>8, <1>9

-----------------------------------------------------------------------------
(* Withdrawn work. *)

\* The epochs an active run pinned are not ahead of the target's, and those of a run that
\* was withdrawn are behind for good.
RevocationInv ==
    /\ \A r \in Runs : Active(ledger[r]) =>
         /\ ledger[r].statusEpoch <= capability.statusEpoch
         /\ ledger[r].controlEpoch <= connection.controlEpoch
    /\ \A r \in revoked :
         /\ ledger[r].status # "absent"
         /\ Active(ledger[r]) =>
              \/ ledger[r].statusEpoch < capability.statusEpoch
              \/ ledger[r].controlEpoch < connection.controlEpoch

\* The two epochs of a target only rise.
LEMMA EpochsRise ==
    ASSUME TargetTypeOK, TargetNext
    PROVE  /\ capability'.statusEpoch \in {capability.statusEpoch, capability.statusEpoch + 1}
           /\ connection'.controlEpoch \in {connection.controlEpoch, connection.controlEpoch + 1}
           /\ capability.statusEpoch \in Nat /\ connection.controlEpoch \in Nat
BY DEF TargetNext, SetMembershipRole, ChangeCapability, StatusChanges, ChangeConnection,
       PublishRefresh, AllocateRefresh, TargetTypeOK

\* A run that is passed over is active afterwards only if it was, with the same epochs.
LEMMA PassiveKeepsEpochs ==
    ASSUME NEW x, NEW y, Passive(x, y)
    PROVE  /\ x.status # "absent" => y.status # "absent"
           /\ Active(y) => Active(x) /\ y.statusEpoch = x.statusEpoch
                                     /\ y.controlEpoch = x.controlEpoch
                                     /\ y.status = x.status
<1>1. CASE Quiet(x, y)
  BY <1>1 DEF Quiet, Active
<1>2. CASE Ended(x, y)
  BY <1>2 DEF Ended, Active, Terminal, ActiveStatuses, UndispatchedStatuses, TerminalStatuses
<1>3. CASE Removed(x, y)
  BY <1>3 DEF Removed, NoRow, Active, ActiveStatuses, UndispatchedStatuses
<1>4. QED
  BY <1>1, <1>2, <1>3 DEF Passive, Settling

\* No step of the ledger leaves a withdrawn run with current epochs.
LEMMA RevocationStep ==
    ASSUME LedgerInv, RevocationInv, [Next]_vars
    PROVE  RevocationInv'
<1>1. /\ \A r \in Runs : ledger[r] \in Rows
      /\ TargetTypeOK /\ revoked \subseteq Runs /\ ledger \in [Runs -> Rows]
  BY RowFacts DEF LedgerInv, TypeOK
<1>2. ASSUME UNCHANGED targetVars,
             \A r \in Runs : /\ ledger[r].status # "absent" => ledger'[r].status # "absent"
                             /\ Active(ledger'[r]) =>
                                  /\ Active(ledger[r])
                                  /\ ledger'[r].statusEpoch = ledger[r].statusEpoch
                                  /\ ledger'[r].controlEpoch = ledger[r].controlEpoch
      PROVE  RevocationInv'
  BY <1>1, <1>2 DEF RevocationInv, targetVars
<1>3. UNCHANGED targetVars /\ (\A r \in Runs : Passive(ledger[r], ledger'[r])) => RevocationInv'
  BY <1>2, PassiveKeepsEpochs
<1>4. ASSUME NEW r \in Runs, NEW d \in 1 .. MaxClock + MaxRunTime, CreateRun(r, d)
      PROVE  RevocationInv'
  <2>1. /\ ledger' = [ledger EXCEPT ![r] = AdmittedRow(d)] /\ UNCHANGED targetVars
        /\ ledger[r].status = "absent"
    BY <1>4 DEF CreateRun
  <2>2. r \notin revoked
    BY <2>1 DEF RevocationInv
  <2>3. /\ AdmittedRow(d).statusEpoch = capability.statusEpoch
        /\ AdmittedRow(d).controlEpoch = connection.controlEpoch
    BY DEF AdmittedRow, NoRow
  <2>4. capability.statusEpoch \in Nat /\ connection.controlEpoch \in Nat
    BY <1>1 DEF TargetTypeOK
  <2>5. QED
    BY <1>1, <2>1, <2>2, <2>3, <2>4 DEF RevocationInv, targetVars
<1>5. ASSUME NEW r \in Runs, CancelRun(r)
      PROVE  RevocationInv'
  BY <1>3, <1>5, PassiveSteps DEF CancelRun
<1>6. ASSUME NEW w \in Workers, NEW t \in ClockReads, NEW skipped \in SUBSET Runs,
             ClaimJob(w, t, skipped)
      PROVE  RevocationInv'
  <2>1. UNCHANGED targetVars
    BY <1>6 DEF ClaimJob
  <2>2. CASE \A r \in Runs : Passive(ledger[r], ledger'[r])
    BY <1>3, <2>1, <2>2
  <2>3. ASSUME NEW l \in JobLease, Leased(l) PROVE RevocationInv'
    <3>1. /\ Active(ledger[l.run]) /\ ledger'[l.run].status # "absent"
          /\ ledger'[l.run].statusEpoch = ledger[l.run].statusEpoch
          /\ ledger'[l.run].controlEpoch = ledger[l.run].controlEpoch
      BY <2>3 DEF Leased, Moved, Active, ActiveStatuses
    <3>2. \A q \in Runs \ {l.run} : Passive(ledger[q], ledger'[q])
      BY <2>3 DEF Leased, Passive
    <3>3. QED
      BY <1>2, <2>1, <3>1, <3>2, PassiveKeepsEpochs
  <2>4. QED
    BY <1>6, <2>2, <2>3, ClaimSteps DEF Passive
<1>7. ASSUME NEW l \in leases, LeaseStep(l)
      PROVE  RevocationInv'
  <2> DEFINE x == ledger[l.run]
             y == ledger'[l.run]
  <2>1. /\ \A q \in Runs \ {l.run} : ledger'[q] = ledger[q]
        /\ Active(x) /\ UNCHANGED targetVars
    BY <1>7, HolderSteps
  <2>2. ASSUME NEW s, NEW e, Moved(x, y, s, e), s \in ActiveStatuses
        PROVE  y.status # "absent" /\ y.statusEpoch = x.statusEpoch /\ y.controlEpoch = x.controlEpoch
    BY <2>2 DEF Moved, ActiveStatuses, UndispatchedStatuses
  <2>3. /\ y.status # "absent"
        /\ Active(y) => y.statusEpoch = x.statusEpoch /\ y.controlEpoch = x.controlEpoch
    <3>1. CASE Heartbeat(l)
      BY <2>1, <2>2, <3>1, HolderSteps DEF Active
    <3>2. ASSUME NEW renew \in BOOLEAN, FenceSession(l, renew)
          PROVE  /\ y.status # "absent"
                 /\ Active(y) => y.statusEpoch = x.statusEpoch /\ y.controlEpoch = x.controlEpoch
      BY <2>2, <3>2, HolderSteps DEF ActiveStatuses, UndispatchedStatuses
    <3>3. CASE FenceDispatch(l)
      BY <2>2, <3>3, HolderSteps DEF ActiveStatuses
    <3>4. ASSUME NEW s, NEW code, CompleteLease(l, s, code)
          PROVE  y.status # "absent" /\ ~Active(y)
      BY <3>4, HolderSteps DEF Ended, Terminal, Active, TerminalStatuses, ActiveStatuses,
                               UndispatchedStatuses
    <3>5. CASE CompleteLate(l)
      <4>1. x.status # "absent" /\ Passive(x, y)
        BY <2>1, <3>5, HolderSteps DEF Passive, Active, ActiveStatuses, UndispatchedStatuses
      <4>2. QED
        BY <4>1, PassiveKeepsEpochs
    <3>6. QED
      BY <1>7, <3>1, <3>2, <3>3, <3>4, <3>5 DEF LeaseStep
  <2>4. QED
    BY <1>2, <2>1, <2>3
<1>8. CASE RestoreStep \/ MaintenanceStep \/ Tick \/ UNCHANGED vars
  <2>1. UNCHANGED targetVars
    BY <1>8 DEF RestoreStep, EnterRestoreQuarantine, ReconcileRestoreQuarantine,
                ClearRestoreQuarantine, MaintenanceStep, ExpireRetainedContent,
                ExpireRetainedResults, DeleteExpiredRunMetadata, Tick, vars, targetVars
  <2>2. QED
    BY <1>3, <1>8, <2>1, PassiveSteps
<1>9. CASE TargetStep
  <2>1. UNCHANGED ledger /\ TargetNext
    BY <1>9 DEF TargetStep
  <2>2. /\ capability'.statusEpoch \in {capability.statusEpoch, capability.statusEpoch + 1}
        /\ connection'.controlEpoch \in {connection.controlEpoch, connection.controlEpoch + 1}
        /\ capability.statusEpoch \in Nat /\ connection.controlEpoch \in Nat
    BY <1>1, <2>1, EpochsRise
  <2>3. \A r \in Runs : ledger[r].statusEpoch \in Nat /\ ledger[r].controlEpoch \in Nat
    BY <1>1 DEF Rows
  <2>4. \A r \in ActiveRuns : Active(ledger[r]) /\ r \in Runs /\ ledger[r].status # "absent"
    BY DEF ActiveRuns, Active, ActiveStatuses, UndispatchedStatuses
  <2>5. revoked' = IF /\ capability'.statusEpoch = capability.statusEpoch
                      /\ connection'.controlEpoch = connection.controlEpoch
                   THEN revoked ELSE revoked \cup ActiveRuns
    BY <1>9 DEF TargetStep
  <2>6. QED
    BY <1>1, <2>1, <2>2, <2>3, <2>4, <2>5 DEF RevocationInv
<1>10. QED
  BY <1>4, <1>5, <1>6, <1>7, <1>8, <1>9 DEF Next

\* The step of one run that withdrawn or restored work may take.
Withheld(r) ==
    LET x == ledger[r] y == ledger'[r] IN
    /\ r \in revoked =>
         (y.status \in {"session_fenced", "dispatch_fenced"} => y.status = x.status)
    /\ (execution.quarantined \/ x.executionEpoch < execution.epoch) /\ Active(x) =>
         /\ y.leaseEpoch = x.leaseEpoch
         /\ y.leaseExpiresAt \in {x.leaseExpiresAt, NoTime}
         /\ y.status \in {x.status} \cup TerminalStatuses \cup {"deleted"}

\* A run that is passed over is withheld.
LEMMA PassiveWithheld ==
    ASSUME NEW r \in Runs, Passive(ledger[r], ledger'[r])
    PROVE  Withheld(r)
<1>1. ledger'[r].status \in {"session_fenced", "dispatch_fenced"} => Active(ledger'[r])
  BY DEF Active, ActiveStatuses, UndispatchedStatuses
<1>2. ~(Active(ledger[r]) /\ Terminal(ledger[r]))
  BY DEF Active, Terminal, ActiveStatuses, UndispatchedStatuses, TerminalStatuses
<1>3. ledger'[r].status \in {"session_fenced", "dispatch_fenced"} =>
        ledger'[r].status = ledger[r].status
  BY <1>1, PassiveKeepsEpochs
<1>4. QED
  BY <1>2, <1>3 DEF Withheld, Passive, Settling, Removed, Quiet, Ended, Terminal

\* Outside quarantine no active run is of an earlier execution epoch, and a run whose
\* target is current was not withdrawn: a lease may be given and a fence crossed.
LEMMA CurrentNotWithheld ==
    ASSUME LedgerInv, RevocationInv, NEW r \in Runs, Active(ledger[r]),
           ~execution.quarantined
    PROVE  /\ ~(ledger[r].executionEpoch < execution.epoch)
           /\ TargetIsCurrent(ledger[r]) => r \notin revoked
<1>1. ledger[r].executionEpoch = execution.epoch /\ execution.epoch \in Nat
  BY RowFacts DEF LedgerInv, RestoreReconciled, ActiveRuns
<1>2. capability.statusEpoch \in Nat /\ connection.controlEpoch \in Nat
  BY DEF LedgerInv, TypeOK, TargetTypeOK
<1>3. TargetIsCurrent(ledger[r]) => r \notin revoked
  BY <1>2 DEF RevocationInv, TargetIsCurrent
<1>4. QED
  BY <1>1, <1>3

\* Every step withholds what it must.
LEMMA StepWithholds ==
    ASSUME LedgerInv, RevocationInv, [Next]_vars
    PROVE  \A r \in Runs : Withheld(r)
<1>1. ledger \in [Runs -> Rows] /\ \A r \in Runs : ledger[r] \in Rows
  BY RowFacts
<1>2. ASSUME NEW r \in Runs, ledger'[r] = ledger[r] PROVE Withheld(r)
  BY <1>2, PassiveWithheld DEF Passive, Settling, Quiet
<1>3. ASSUME NEW r \in Runs, NEW d \in 1 .. MaxClock + MaxRunTime, CreateRun(r, d)
      PROVE  \A q \in Runs : Withheld(q)
  <2>1. /\ ledger' = [ledger EXCEPT ![r] = AdmittedRow(d)]
        /\ ledger[r].status = "absent"
    BY <1>3 DEF CreateRun
  <2>2. AdmittedRow(d).status = "queued"
    BY DEF AdmittedRow, NoRow
  <2>3. Withheld(r)
    BY <1>1, <2>1, <2>2 DEF Withheld, Active, ActiveStatuses, UndispatchedStatuses
  <2>4. QED
    BY <1>1, <1>2, <2>1, <2>3
<1>4. ASSUME NEW w \in Workers, NEW t \in ClockReads, NEW skipped \in SUBSET Runs,
             ClaimJob(w, t, skipped)
      PROVE  \A q \in Runs : Withheld(q)
  <2>1. ASSUME NEW l \in JobLease, Leased(l) PROVE \A q \in Runs : Withheld(q)
    <3>1. /\ l.run \in Runs /\ Active(ledger[l.run]) /\ ~execution.quarantined
          /\ ledger'[l.run].status = "preparing"
          /\ \A q \in Runs \ {l.run} : Passive(ledger[q], ledger'[q])
      BY <2>1 DEF Leased, Passive, Moved, Active, ActiveStatuses
    <3>2. Withheld(l.run)
      BY <3>1, CurrentNotWithheld DEF Withheld
    <3>3. QED
      BY <3>1, <3>2, PassiveWithheld
  <2>2. QED
    BY <1>4, <2>1, ClaimSteps, PassiveWithheld DEF Passive
<1>5. ASSUME NEW l \in leases, LeaseStep(l)
      PROVE  \A q \in Runs : Withheld(q)
  <2> DEFINE x == ledger[l.run]
             y == ledger'[l.run]
  <2>1. /\ \A q \in Runs \ {l.run} : ledger'[q] = ledger[q]
        /\ l.run \in Runs /\ Active(x)
    BY <1>5, HolderSteps
  <2>2. ASSUME LeaseUsable(l), TargetIsCurrent(x) \/ y.status = x.status
        PROVE  Withheld(l.run)
    <3>1. ~execution.quarantined
      BY <2>2 DEF LeaseUsable
    <3>2. QED
      BY <2>1, <2>2, <3>1, CurrentNotWithheld DEF Withheld
  <2>3. ASSUME Heartbeat(l) PROVE Withheld(l.run)
    <3>1. LeaseUsable(l) /\ y.status = x.status
      BY <2>3, HolderSteps DEF Moved
    <3>2. QED
      BY <2>2, <3>1
  <2>4. ASSUME NEW renew \in BOOLEAN, FenceSession(l, renew) PROVE Withheld(l.run)
    <3>1. LeaseUsable(l) /\ TargetIsCurrent(x)
      BY <2>4, HolderSteps
    <3>2. QED
      BY <2>2, <3>1
  <2>5. ASSUME FenceDispatch(l) PROVE Withheld(l.run)
    <3>1. LeaseUsable(l) /\ TargetIsCurrent(x)
      BY <2>5, HolderSteps
    <3>2. QED
      BY <2>2, <3>1
  <2>6. ASSUME NEW s, NEW code, CompleteLease(l, s, code) PROVE Withheld(l.run)
    <3>1. Ended(x, y)
      BY <2>6, HolderSteps
    <3>2. Terminal(y) => y.status \notin {"session_fenced", "dispatch_fenced"}
      BY DEF Terminal, TerminalStatuses
    <3>3. QED
      BY <3>1, <3>2 DEF Withheld, Ended, Terminal
  <2>7. ASSUME CompleteLate(l) PROVE Withheld(l.run)
    <3>1. Passive(x, y)
      BY <2>7, HolderSteps DEF Passive
    <3>2. QED
      BY <2>1, <3>1, PassiveWithheld
  <2>8. Withheld(l.run)
    BY <1>5, <2>3, <2>4, <2>5, <2>6, <2>7 DEF LeaseStep
  <2>9. QED
    BY <1>2, <2>1, <2>8
<1>6. CASE \/ \E r \in Runs : CancelRun(r)
           \/ RestoreStep \/ MaintenanceStep \/ TargetStep \/ Tick \/ UNCHANGED vars
  BY <1>6, PassiveSteps, PassiveWithheld
<1>7. QED
  BY <1>3, <1>4, <1>5, <1>6 DEF Next

\* A run whose target was disabled, re-enabled or re-versioned while it was active never
\* crosses a fence again, and neither in quarantine nor for a run of an earlier execution
\* epoch is a lease given, a lease renewed or a fence crossed, in any behaviour of any
\* number of runs and workers (_claim_target_is_current, _fence_attempt, heartbeat).
THEOREM Withdrawn == Spec => NoFenceAfterRevocation
<1>1. Init => RevocationInv
  <2>1. NoRow("absent").status = "absent"
    BY DEF NoRow
  <2>2. QED
    BY <2>1 DEF Init, RevocationInv, Active, ActiveStatuses, UndispatchedStatuses
<1>2. LedgerInv /\ RevocationInv /\ [Next]_vars => RevocationInv'
  BY RevocationStep
<1>3. LedgerInv /\ RevocationInv /\ [Next]_vars =>
        [/\ \A r \in revoked :
              ledger'[r].status \in {"session_fenced", "dispatch_fenced"} =>
                  ledger'[r].status = ledger[r].status
         /\ \A r \in Runs : LET x == ledger[r] y == ledger'[r] IN
              (execution.quarantined \/ x.executionEpoch < execution.epoch) /\ Active(x) =>
                  /\ y.leaseEpoch = x.leaseEpoch
                  /\ y.leaseExpiresAt \in {x.leaseExpiresAt, NoTime}
                  /\ y.status \in {x.status} \cup TerminalStatuses \cup {"deleted"}]_vars
  <2> SUFFICES ASSUME LedgerInv, RevocationInv, [Next]_vars
               PROVE  /\ \A r \in revoked :
                           ledger'[r].status \in {"session_fenced", "dispatch_fenced"} =>
                               ledger'[r].status = ledger[r].status
                      /\ \A r \in Runs : LET x == ledger[r] y == ledger'[r] IN
                           (execution.quarantined \/ x.executionEpoch < execution.epoch) /\ Active(x) =>
                               /\ y.leaseEpoch = x.leaseEpoch
                               /\ y.leaseExpiresAt \in {x.leaseExpiresAt, NoTime}
                               /\ y.status \in {x.status} \cup TerminalStatuses \cup {"deleted"}
    OBVIOUS
  <2>1. \A r \in Runs : Withheld(r)
    BY StepWithholds
  <2>2. revoked \subseteq Runs
    BY DEF LedgerInv, TypeOK
  <2>3. QED
    BY <2>1, <2>2 DEF Withheld
<1>4. QED
  BY <1>1, <1>2, <1>3, LedgerInvariant, PTL DEF Spec, NoFenceAfterRevocation

-----------------------------------------------------------------------------
(* The refinement of RunLifecycle. *)

\* The mapping of a row, status by status.
LEMMA PhaseOf ==
    ASSUME NEW x \in Rows
    PROVE  /\ Phase(x) \in Lifecycle!Phases
           /\ x.status \in UndispatchedStatuses <=> Phase(x) = "waiting"
           /\ x.status = "dispatch_fenced" <=> Phase(x) = "dispatched"
           /\ x.status = "absent" => Phase(x) = "absent"
           /\ x.status = "deleted" => Phase(x) = "deleted"
           /\ Terminal(x) => Phase(x) \in Lifecycle!Settled
           /\ Phase(x) \in {"waiting", "dispatched"} <=> Active(x)
<1>1. x.status \in ActiveStatuses \cup TerminalStatuses \cup {"absent", "deleted"}
  BY DEF Rows
<1>2. CASE x.status = "failed"
  BY <1>2 DEF Phase, UndispatchedStatuses, Terminal, TerminalStatuses, Active, ActiveStatuses,
              Lifecycle!Phases, Lifecycle!Settled, Lifecycle!UndispatchedEnds, Lifecycle!DispatchedEnds
<1>3. CASE x.status # "failed"
  <2>1. /\ x.status \in UndispatchedStatuses => Phase(x) = "waiting"
        /\ x.status = "dispatch_fenced" => Phase(x) = "dispatched"
        /\ x.status \notin ActiveStatuses => Phase(x) = x.status
    BY <1>3 DEF Phase, UndispatchedStatuses, ActiveStatuses
  <2>2. QED
    BY <1>1, <1>3, <2>1
       DEF UndispatchedStatuses, Terminal, TerminalStatuses, Active, ActiveStatuses,
           Lifecycle!Phases, Lifecycle!Settled, Lifecycle!UndispatchedEnds, Lifecycle!DispatchedEnds
<1>4. QED
  BY <1>2, <1>3

\* A run that is passed over, or ended by its worker, is settled or left in its phase.
LEMMA SettlingPhase ==
    ASSUME NEW x \in Rows, NEW y \in Rows, Quiet(x, y) \/ Ended(x, y)
    PROVE  \/ Phase(y) = Phase(x)
           \/ Phase(x) = "waiting" /\ Phase(y) \in Lifecycle!UndispatchedEnds
           \/ Phase(x) = "dispatched" /\ Phase(y) \in Lifecycle!DispatchedEnds
<1>1. CASE Quiet(x, y)
  BY <1>1 DEF Quiet, Phase
<1>2. CASE Ended(x, y)
  <2>1. /\ y.status \in TerminalStatuses
        /\ HonestEnd(x, y.status, y.safeErrorCode)
        /\ \/ Phase(x) = "waiting" /\ x.status # "dispatch_fenced"
           \/ Phase(x) = "dispatched" /\ x.status = "dispatch_fenced"
    BY <1>2, PhaseOf DEF Ended, Active, Terminal, ActiveStatuses, UndispatchedStatuses
  <2>2. CASE y.status = "failed"
    <3>1. Phase(y) = IF y.safeErrorCode \in ToolFailureCodes
                     THEN "failed_after_dispatch" ELSE "failed_before_dispatch"
      BY <2>2 DEF Phase, UndispatchedStatuses
    <3>2. QED
      BY <2>1, <2>2, <3>1 DEF HonestEnd, Lifecycle!UndispatchedEnds, Lifecycle!DispatchedEnds
  <2>3. CASE y.status # "failed"
    <3>1. Phase(y) = y.status
      BY <2>1, <2>3 DEF Phase, UndispatchedStatuses, TerminalStatuses
    <3>2. QED
      BY <2>1, <2>3, <3>1 DEF HonestEnd, Lifecycle!UndispatchedEnds, Lifecycle!DispatchedEnds,
                              TerminalStatuses
  <2>4. QED
    BY <2>2, <2>3
<1>3. QED
  BY <1>1, <1>2

\* Every operation of the ledger is a step of the lifecycle, or shows nothing.
LEMMA LifecycleStep ==
    ASSUME LedgerInv, LedgerInv', [Next]_vars
    PROVE  [Lifecycle!Next]_([r \in Runs |-> Phase(ledger[r])])
<1> DEFINE p == [r \in Runs |-> Phase(ledger[r])]
           q == [r \in Runs |-> Phase(ledger'[r])]
<1>1. \A r \in Runs : ledger[r] \in Rows /\ ledger'[r] \in Rows
  BY DEF LedgerInv, TypeOK
<1>2. q \in [Runs -> Lifecycle!Phases]
  BY <1>1, PhaseOf
<1>3. ASSUME \A r \in Runs : Quiet(ledger[r], ledger'[r]) \/ Ended(ledger[r], ledger'[r])
                             \/ Phase(ledger'[r]) = Phase(ledger[r])
      PROVE  Lifecycle!Settle
  <2>1. \A r \in Runs : \/ q[r] = p[r]
                        \/ p[r] = "waiting" /\ q[r] \in Lifecycle!UndispatchedEnds
                        \/ p[r] = "dispatched" /\ q[r] \in Lifecycle!DispatchedEnds
    BY <1>1, <1>3, SettlingPhase
  <2>2. QED
    BY <1>2, <2>1 DEF Lifecycle!Settle
<1>4. ASSUME \A r \in Runs : ledger'[r] = ledger[r] \/ Removed(ledger[r], ledger'[r])
      PROVE  Lifecycle!Delete
  <2>1. ASSUME NEW r \in Runs, Removed(ledger[r], ledger'[r])
        PROVE  p[r] \in Lifecycle!Settled /\ q[r] = "deleted"
    <3>1. ledger'[r].status = "deleted"
      BY <2>1 DEF Removed, NoRow
    <3>2. QED
      BY <1>1, <2>1, <3>1, PhaseOf DEF Removed
  <2>2. \A r \in Runs : q[r] = p[r] \/ (p[r] \in Lifecycle!Settled /\ q[r] = "deleted")
    BY <1>4, <2>1
  <2>3. QED
    BY <1>2, <2>2 DEF Lifecycle!Delete
<1>5. ASSUME NEW r \in Runs, NEW d \in 1 .. MaxClock + MaxRunTime, CreateRun(r, d)
      PROVE  Lifecycle!Admit(r)
  <2>1. /\ ledger[r].status = "absent" /\ Cardinality(ActiveRuns) < MaxActiveRuns
        /\ ledger' = [ledger EXCEPT ![r] = AdmittedRow(d)] /\ ledger \in [Runs -> Rows]
    BY <1>5, RowFacts DEF CreateRun
  <2>2. ledger'[r].status = "queued" /\ \A s \in Runs \ {r} : ledger'[s] = ledger[s]
    BY <2>1 DEF AdmittedRow, NoRow
  <2>3. p[r] = "absent" /\ q[r] = "waiting"
    BY <1>1, <2>1, <2>2, PhaseOf DEF UndispatchedStatuses
  <2>4. q = [p EXCEPT ![r] = "waiting"]
    BY <2>2, <2>3
  <2>5. Lifecycle!InProgress = ActiveRuns
    BY <1>1, PhaseOf DEF ActiveRuns, Lifecycle!InProgress
  <2>6. Lifecycle!Cardinality(ActiveRuns) = Cardinality(ActiveRuns)
    BY DEF Lifecycle!Cardinality, Cardinality
  <2>7. QED
    BY <2>1, <2>3, <2>4, <2>5, <2>6 DEF Lifecycle!Admit
<1>6. ASSUME NEW w \in Workers, NEW t \in ClockReads, NEW skipped \in SUBSET Runs,
             ClaimJob(w, t, skipped)
      PROVE  Lifecycle!Settle
  <2>1. ASSUME NEW l \in JobLease, Leased(l) PROVE Lifecycle!Settle
    <3>1. /\ l.run \in Runs /\ ledger[l.run].status \in UndispatchedStatuses
          /\ ledger'[l.run].status \in UndispatchedStatuses
          /\ \A s \in Runs \ {l.run} : Settling(ledger[s], ledger'[s])
      BY <2>1 DEF Leased, Moved, UndispatchedStatuses
    <3>2. Phase(ledger'[l.run]) = Phase(ledger[l.run])
      BY <1>1, <3>1, PhaseOf
    <3>3. QED
      BY <1>3, <3>1, <3>2 DEF Settling
  <2>2. QED
    BY <1>3, <1>6, <2>1, ClaimSteps DEF Settling
<1>7. ASSUME NEW l \in leases, LeaseStep(l)
      PROVE  Lifecycle!Dispatch(l.run) \/ Lifecycle!Settle
  <2> DEFINE x == ledger[l.run]
             y == ledger'[l.run]
  <2>1. /\ \A s \in Runs \ {l.run} : ledger'[s] = ledger[s]
        /\ l.run \in Runs
    BY <1>7, HolderSteps
  <2>2. ASSUME Quiet(x, y) \/ Ended(x, y) \/ Phase(y) = Phase(x)
        PROVE  Lifecycle!Settle
    BY <1>3, <2>1, <2>2
  <2>3. CASE Heartbeat(l)
    <3>1. y.status = x.status /\ y.safeErrorCode = x.safeErrorCode
      BY <2>3, HolderSteps DEF Moved
    <3>2. QED
      BY <2>2, <3>1 DEF Phase
  <2>4. ASSUME NEW renew \in BOOLEAN, FenceSession(l, renew) PROVE Lifecycle!Settle
    <3>1. y.status \in UndispatchedStatuses /\ x.status \in UndispatchedStatuses
      BY <2>4, HolderSteps DEF Moved, UndispatchedStatuses
    <3>2. QED
      BY <1>1, <2>1, <2>2, <3>1, PhaseOf
  <2>5. CASE FenceDispatch(l)
    <3>1. y.status = "dispatch_fenced" /\ x.status \in UndispatchedStatuses
      BY <2>5, HolderSteps DEF Moved, UndispatchedStatuses
    <3>2. p[l.run] = "waiting" /\ q[l.run] = "dispatched"
      BY <1>1, <2>1, <3>1, PhaseOf
    <3>3. q = [p EXCEPT ![l.run] = "dispatched"]
      BY <2>1, <3>2
    <3>4. QED
      BY <3>2, <3>3 DEF Lifecycle!Dispatch
  <2>6. ASSUME NEW s, NEW code, CompleteLease(l, s, code) PROVE Lifecycle!Settle
    <3>1. Ended(x, y)
      BY <2>6, HolderSteps
    <3>2. QED
      BY <2>2, <3>1
  <2>7. CASE CompleteLate(l)
    <3>1. Settling(x, y)
      BY <2>7, HolderSteps
    <3>2. QED
      BY <2>2, <3>1 DEF Settling
  <2>8. QED
    BY <1>7, <2>3, <2>4, <2>5, <2>6, <2>7 DEF LeaseStep
<1>8. CASE \/ \E r \in Runs : CancelRun(r)
           \/ RestoreStep \/ MaintenanceStep \/ TargetStep \/ Tick \/ UNCHANGED vars
  <2>1. Lifecycle!Settle \/ Lifecycle!Delete
    BY <1>3, <1>4, <1>8, PassiveSteps DEF Settling
  <2>2. QED
    BY <2>1 DEF Lifecycle!Next
<1>9. \A l \in leases : l.run \in Runs
  BY RowFacts
<1>10. QED
  BY <1>5, <1>6, <1>7, <1>8, <1>9 DEF Next, Lifecycle!Next

\* The detailed ledger implements the abstract lifecycle for any number of runs and
\* workers: whatever polls, leases, restores and cleanups do, a run is admitted within
\* the limit, dispatched at most once, settled once by an outcome that agrees with the
\* dispatch, and deleted only after that.
THEOREM Refinement == Spec => ImplementsLifecycle
<1>1. Init => Lifecycle!Init
  <2>1. NoRow("absent").status = "absent" /\ NoRow("absent") \in Rows
    BY NoRowOK DEF NoRow
  <2>2. Phase(NoRow("absent")) = "absent"
    BY <2>1, PhaseOf
  <2>3. QED
    BY <2>2 DEF Init, Lifecycle!Init
<1>2. LedgerInv /\ LedgerInv' /\ [Next]_vars =>
        [Lifecycle!Next]_([r \in Runs |-> Phase(ledger[r])])
  BY LifecycleStep
<1>3. QED
  BY <1>1, <1>2, LedgerInvariant, PTL DEF Spec, ImplementsLifecycle, Lifecycle!Spec
=============================================================================
