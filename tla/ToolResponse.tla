---------------------------- MODULE ToolResponse ----------------------------
(***************************************************************************)
(* One tool call over MCP: the session of PinnedMcpClient.invoke           *)
(* (mcp_adapter/client.py) over the LimitedTransport and LimitedByteStream *)
(* of mcp_adapter/policy.py, which screen and weigh every byte the server  *)
(* sends.  What the ledger records of the run rests on how invoke ends: a  *)
(* result; an InvocationError, which says for certain whether the call was *)
(* dispatched; or an InvocationIndeterminate, after which nobody knows     *)
(* whether the tool ran.                                                   *)
(*                                                                         *)
(* The answer to tools/call comes in parts.  A JSON document is held back  *)
(* until it is complete; of an event stream every part is passed on, and   *)
(* the session may take the result before the stream has ended.  A value   *)
(* that must not come back (the credential) may be cut between two parts.  *)
(* Another stream of the session, the server's own messages, shares the    *)
(* byte budget and the flags.                                              *)
(***************************************************************************)
EXTENDS Integers

CONSTANT ResponseBytes     \* limits.response_bytes; every part weighs one

BytesAssumption == ResponseBytes \in Nat \ {0}

VARIABLES
    pc,           \* "session", "dispatch", "sent", "body", "teardown", "normalize", "done"
    dispatched,   \* invoke's flag: before_dispatch returned
    received,     \* invoke's flag: _invoke returned a result
    transport,    \* LimitedTransport: sensitive, completed, failure
    budget,       \* RawByteBudget.remaining
    answer,       \* the response being read: status (200 or 204; 4xx; other) and media type
    half,         \* the matcher has seen the first half of a forbidden value
    pending,      \* LimitedByteStream._pending_sensitive_response
    passed,       \* what the session has been given: "none", "result", "error"
    outcome,      \* how invoke ended
    sent,         \* the request left, so the tool may have run
    answered,     \* the server's answer to this call arrived whole
    tainted       \* a forbidden value arrived whole before or with what was passed on

vars == <<pc, dispatched, received, transport, budget, answer, half, pending, passed, outcome,
          sent, answered, tainted>>

Ends == {"none", "result", "error", "indeterminate"}
Answer == [status : {"ok", "client_error", "other"}, media : {"json", "sse"}]

\* A part of a body: what of a forbidden value it holds, and what it
\* completes: nothing, the response to this call, or a message for another.
Part == [secret : {"none", "first", "second", "whole"},
         completes : {"nothing", "result", "error", "other"}]

Init ==
    /\ pc = "session" /\ dispatched = FALSE /\ received = FALSE
    /\ transport = [sensitive |-> FALSE, completed |-> FALSE, failure |-> FALSE]
    /\ budget = ResponseBytes /\ answer = [status |-> "ok", media |-> "json"]
    /\ half = FALSE /\ pending = FALSE /\ passed = "none"
    /\ outcome = [end |-> "none", dispatched |-> FALSE]
    /\ sent = FALSE /\ answered = FALSE /\ tainted = FALSE
-----------------------------------------------------------------------------
(***************************************************************************)
(* How invoke classifies an exception, given the transport's flags.        *)
(***************************************************************************)

\* Mutant: a refused answer is taken for certain whether it was whole or not.
Raised_SensitiveIsFinal(t) ==
    [end |-> IF dispatched /\ ~t.sensitive /\ ~received /\ ~t.completed
             THEN "indeterminate" ELSE "error",
     dispatched |-> dispatched]

\* Mutant: only a result the session took counts, not an answer that arrived.
Raised_Unsure(t) ==
    [end |-> IF dispatched /\ ~received THEN "indeterminate" ELSE "error",
     dispatched |-> dispatched]

\* The except clauses of invoke: an exception after the dispatch is
\* indeterminate unless the answer to the call had arrived whole.  The clauses
\* differ in the failure code, which is left out.
Raised(t) ==
    [end |-> IF dispatched /\ ~received /\ ~t.completed THEN "indeterminate" ELSE "error",
     dispatched |-> dispatched]

\* An exception leaves _invoke before the session has its result.
Raise(t) == pc' = "done" /\ outcome' = Raised(t)

\* RawByteBudget.consume, when it does not raise.
Consume == budget > 0 /\ budget' = budget - 1
-----------------------------------------------------------------------------
(***************************************************************************)
(* Before the call.                                                        *)
(***************************************************************************)

\* before_session, endpoint validation, initialize and its response.
Initialize ==
    /\ pc = "session" /\ Consume
    /\ \E sensitive \in BOOLEAN : transport' = [transport EXCEPT !.sensitive = sensitive]
    /\ pc' = "dispatch"
    /\ UNCHANGED <<dispatched, received, answer, half, pending, passed, outcome, sent, answered, tainted>>

\* Mutant: the flag is set once the answer begins to arrive.
Dispatch_FlagLater ==
    /\ pc = "dispatch" /\ pc' = "sent" /\ sent' = TRUE
    /\ UNCHANGED <<dispatched, received, transport, budget, answer, half, pending, passed, outcome, answered, tainted>>

\* before_dispatch commits the fence, dispatched is set, the request is sent.
Dispatch ==
    /\ pc = "dispatch" /\ pc' = "sent" /\ sent' = TRUE /\ dispatched' = TRUE
    /\ UNCHANGED <<received, transport, budget, answer, half, pending, passed, outcome, answered, tainted>>

\* Anything fails on the way: the name does not resolve, the connection
\* breaks, a read or the whole call times out, before_dispatch refuses.
Break ==
    /\ pc \in {"session", "dispatch", "sent", "body"}
    /\ Raise(transport)
    /\ UNCHANGED <<dispatched, received, transport, budget, answer, half, pending, passed, sent, answered, tainted>>
-----------------------------------------------------------------------------
(***************************************************************************)
(* The answer: LimitedTransport.handle_async_request and LimitedByteStream *)
(***************************************************************************)

\* The flags once the headers are read: a 4xx answers the call by itself.
Headed(a) == IF a.status = "client_error"
             THEN [transport EXCEPT !.completed = TRUE, !.failure = TRUE]
             ELSE transport

\* The headers pass: identity encoding, nothing sensitive, a length within
\* the budget.
Headers(a) ==
    /\ pc = "sent" /\ pc' = "body" /\ answer' = a
    /\ transport' = Headed(a)
    /\ answered' = (a.status = "client_error")
    /\ UNCHANGED <<dispatched, received, budget, half, pending, passed, outcome, sent, tainted>>

\* The headers are refused: encoded, too long, or sensitive.
RefuseHeaders(a, sensitive) ==
    /\ pc = "sent"
    /\ transport' = [Headed(a) EXCEPT !.sensitive = @ \/ sensitive]
    /\ answered' = (a.status = "client_error")
    /\ Raise(transport')
    /\ UNCHANGED <<dispatched, received, budget, answer, half, pending, passed, sent, tainted>>

\* More arrives than the budget allows: ResponseLimitExceeded.
Overrun ==
    /\ pc = "body" /\ budget = 0
    /\ Raise(transport)
    /\ UNCHANGED <<dispatched, received, transport, budget, answer, half, pending, passed, sent, answered, tainted>>

\* LimitedByteStream passes parts on as they come.
Streams == answer.media = "sse" /\ answer.status = "ok"

\* Mutant: each part is searched by itself.
Matches_PartByPart(part) == part.secret = "whole"

\* _IncrementalByteMatcher.feed: the value is found wherever it is cut.
Matches(part) == part.secret = "whole" \/ (half /\ part.secret = "second")

Responds(part) == part.completes \in {"result", "error"}

\* The flags after the events a part completes: _screen_completed_sse_events.
Completed(part) ==
    [transport EXCEPT !.completed = @ \/ Responds(part), !.failure = @ \/ part.completes = "error"]

Flagged(t, part) == [t EXCEPT !.sensitive = @ \/ Matches(part)]

\* A part of an event stream.  Its completed events are screened first; if a
\* forbidden value had been found before, or an event is sensitive, reading
\* ends here.  Otherwise the part is searched, flagged and passed on.
StreamPart(part, eventSensitive) ==
    LET rejected == part.completes # "nothing" /\ (pending \/ eventSensitive)
        whole == part.secret = "whole" \/ (half /\ part.secret = "second")
    IN  /\ pc = "body" /\ Streams /\ Consume
        /\ half' = (part.secret = "first")
        /\ answered' = (answered \/ Responds(part))
        /\ tainted' = (tainted \/ whole)
        /\ pending' = (pending \/ Matches(part))
        /\ IF rejected
           THEN /\ transport' = [Completed(part) EXCEPT !.sensitive = TRUE]
                /\ Raise(transport') /\ UNCHANGED passed
           ELSE /\ transport' = Flagged(Completed(part), part)
                /\ passed' = IF passed = "none" /\ Responds(part) THEN part.completes ELSE passed
                /\ UNCHANGED <<pc, outcome>>
        /\ UNCHANGED <<dispatched, received, answer, sent>>

\* The stream ends, or is closed, without the response; its tail may still
\* turn out to be sensitive.
EndStream(sensitive) ==
    /\ pc = "body" /\ Streams
    /\ transport' = [transport EXCEPT !.sensitive = @ \/ sensitive]
    /\ Raise(transport')
    /\ UNCHANGED <<dispatched, received, budget, answer, half, pending, passed, sent, answered, tainted>>

\* A part of a JSON document, or of the body of a failure: it is kept back.
DocumentPart(part) ==
    /\ pc = "body" /\ ~Streams /\ passed = "none" /\ Consume
    /\ half' = (part.secret = "first")
    /\ pending' = (pending \/ Matches(part))
    /\ transport' = Flagged(transport, part)
    /\ tainted' = (tainted \/ part.secret = "whole" \/ (half /\ part.secret = "second"))
    /\ UNCHANGED <<pc, dispatched, received, answer, passed, outcome, sent, answered>>

\* The document is complete: the response to this call, a failure of it, a
\* message for another call, or not JSON-RPC at all, which with a status of
\* success also answers the call.  Only now is it screened and passed on.
EndDocument(holds, sensitive) ==
    LET malformed == holds = "malformed" /\ answer.status = "ok"
        closes == answer.status = "client_error" \/ malformed \/ holds \in {"result", "error"}
    IN  /\ pc = "body" /\ ~Streams /\ passed = "none"
        /\ answered' = (answered \/ closes)
        /\ transport' = [sensitive |-> transport.sensitive \/ sensitive \/ pending,
                         completed |-> transport.completed \/ closes,
                         failure |-> transport.failure \/ answer.status = "client_error"
                                     \/ holds = "error"]
        /\ IF transport'.sensitive \/ holds # "result" \/ answer.status # "ok"
           THEN Raise(transport') /\ UNCHANGED passed
           ELSE passed' = "result" /\ UNCHANGED <<pc, outcome>>
        /\ UNCHANGED <<dispatched, received, budget, answer, half, pending, sent, tainted>>

\* The server's own messages, on a stream beside the call.
OtherStream(sensitive) ==
    /\ pc \in {"sent", "body"} /\ Consume
    /\ transport' = [transport EXCEPT !.sensitive = @ \/ sensitive]
    /\ UNCHANGED <<pc, dispatched, received, answer, half, pending, passed, outcome, sent, answered, tainted>>
-----------------------------------------------------------------------------
(***************************************************************************)
(* The session takes what was passed on.                                   *)
(***************************************************************************)

\* The server's JSON-RPC error, or a result the SDK cannot parse.
TakeError ==
    /\ pc = "body" /\ passed = "error"
    /\ Raise(transport)
    /\ UNCHANGED <<dispatched, received, transport, budget, answer, half, pending, passed, sent, answered, tainted>>

\* call_tool returns.  Whatever closing the session raises is swallowed, but
\* the unread rest of the stream, screened by aclose, may still be flagged.
TakeResult(late) ==
    /\ pc = "body" /\ passed = "result" /\ pc' = "teardown"
    /\ transport' = [transport EXCEPT !.sensitive = @ \/ late]
    /\ UNCHANGED <<dispatched, received, budget, answer, half, pending, passed, outcome, sent, answered, tainted>>

Screened == ~transport.sensitive

\* Back in invoke: response_received, and the flag the transport kept.
Return ==
    /\ pc = "teardown" /\ received' = TRUE
    /\ IF Screened THEN pc' = "normalize" /\ UNCHANGED outcome
       ELSE pc' = "done" /\ outcome' = [end |-> "error", dispatched |-> dispatched]
    /\ UNCHANGED <<dispatched, transport, budget, answer, half, pending, passed, sent, answered, tainted>>

\* _normalize_invocation_result accepts the result.
Accept ==
    /\ pc = "normalize" /\ pc' = "done"
    /\ outcome' = [end |-> "result", dispatched |-> TRUE]
    /\ UNCHANGED <<dispatched, received, transport, budget, answer, half, pending, passed, sent, answered, tainted>>

\* It refuses it (isError, content, size, schema), fails, or time runs out.
Refuse ==
    /\ pc = "normalize" /\ pc' = "done"
    /\ outcome' = [end |-> "error", dispatched |-> TRUE]
    /\ UNCHANGED <<dispatched, received, transport, budget, answer, half, pending, passed, sent, answered, tainted>>

Next ==
    \/ Initialize \/ Dispatch \/ Break
    \/ \E a \in Answer : Headers(a) \/ \E s \in BOOLEAN : RefuseHeaders(a, s)
    \/ Overrun
    \/ \E part \in Part : DocumentPart(part) \/ \E s \in BOOLEAN : StreamPart(part, s)
    \/ \E holds \in {"result", "error", "other", "malformed"}, s \in BOOLEAN : EndDocument(holds, s)
    \/ \E s \in BOOLEAN : EndStream(s) \/ OtherStream(s) \/ TakeResult(s)
    \/ TakeError \/ Return \/ Accept \/ Refuse

Spec == Init /\ [][Next]_vars
-----------------------------------------------------------------------------
TypeOK ==
    /\ pc \in {"session", "dispatch", "sent", "body", "teardown", "normalize", "done"}
    /\ {dispatched, received, half, pending, sent, answered, tainted} \subseteq BOOLEAN
    /\ transport \in [sensitive : BOOLEAN, completed : BOOLEAN, failure : BOOLEAN]
    /\ budget \in 0..ResponseBytes
    /\ answer \in Answer
    /\ passed \in {"none", "result", "error"}
    /\ outcome \in [end : Ends, dispatched : BOOLEAN]
    /\ (pc = "done") = (outcome.end # "none")

\* A definite failure after the dispatch is reported only when the server's
\* answer to this call has arrived whole, or its 4xx rejection: a run whose
\* tool may have run unseen is never recorded as failed, whichever of
\* timeout, refusal, overrun and late answer comes first.
DefiniteIsAnswered == outcome.end = "error" /\ outcome.dispatched => answered

\* And conversely: once the answer has arrived whole, no later failure makes
\* the outcome indeterminate.
AnsweredIsDefinite == answered => outcome.end # "indeterminate"

\* A failure reported as not dispatched means that the request never left.
UndispatchedIsUnsent == outcome.end = "error" /\ ~outcome.dispatched => ~sent

\* No result is returned from an answer that held a forbidden value, cut
\* between parts or not, although an event stream's parts are passed on
\* before the stream has ended.
ResultIsClean == outcome.end = "result" => ~tainted /\ ~transport.sensitive
=============================================================================
