-------------------------- MODULE Upstream_proofs --------------------------
(***************************************************************************)
(* Proofs about what comes from servers this program does not trust, for   *)
(* every size of the cache, the listings, the responses, the strings and   *)
(* the key sets.  A behaviour of MCUpstream is about one component, so     *)
(* each has an inductive invariant of its own: ResponseInv, KeysInv,       *)
(* CatalogInv, PagingInv and MatcherInv.  The last two are about data of   *)
(* any length, and rest on induction over the naturals, which is proved    *)
(* first, from the least element of a set of them.                         *)
(***************************************************************************)
EXTENDS MCUpstream, FiniteSetTheorems, SequenceTheorems, WellFoundedInduction, TLAPS

(* Induction. *)

\* A set of naturals has a least element, when some relation orders them as they are.
LEMMA LeastIn ==
    ASSUME NEW R, IsWellFoundedOn(R, Nat), \A x, y \in Nat : y < x => <<y, x>> \in R,
           NEW T, T \subseteq Nat, T # {}
    PROVE  \E m \in T : \A n \in T : m <= n
<1>1. PICK x \in T : \A y \in T : ~ (<<y, x>> \in R)
  BY WFMin
<1>2. \A y \in T : ~ (y < x) /\ y \in Nat /\ x \in Nat
  BY <1>1
<1>3. QED
  BY <1>2

\* The library's relation is such a one.
LEMMA Orders == \A x, y \in Nat : y < x => <<y, x>> \in OpToRel(<, Nat)
BY DEF OpToRel

\* Every set of naturals that is not empty has a least element.
LEMMA Least ==
    ASSUME NEW T, T \subseteq Nat, T # {}
    PROVE  \E m \in T : \A n \in T : m <= n
BY LeastIn, Orders, NatLessThanWellFounded, Zenon

\* Induction: there is no least number that T leaves out.
LEMMA Induction ==
    ASSUME NEW T, 0 \in T, \A n \in Nat : n \in T => n + 1 \in T
    PROVE  \A n \in Nat : n \in T
<1> DEFINE D == {n \in Nat : n \notin T}
<1> SUFFICES ASSUME D # {} PROVE FALSE
  OBVIOUS
<1>1. PICK m \in D : \A n \in D : m <= n
  BY Least
<1>2. m # 0 /\ m - 1 \in Nat /\ ~(m <= m - 1) /\ m = (m - 1) + 1
  BY <1>1
<1>3. m - 1 \in T
  BY <1>1, <1>2
<1>4. QED
  BY <1>1, <1>2, <1>3

\* Induction from all that is smaller.
LEMMA StrongInduction ==
    ASSUME NEW T, \A n \in Nat : (\A m \in Nat : m < n => m \in T) => n \in T
    PROVE  \A n \in Nat : n \in T
<1> DEFINE D == {n \in Nat : n \notin T}
<1> SUFFICES ASSUME D # {} PROVE FALSE
  OBVIOUS
<1>1. PICK m \in D : \A n \in D : m <= n
  BY Least
<1>2. \A k \in Nat : k < m => k \in T
  BY <1>1
<1>3. QED
  BY <1>1, <1>2
-----------------------------------------------------------------------------
(* The answer to a tool call. *)

\* How far the call is, and what invoke's flags say of it.
CallProgress ==
    /\ dispatched = sent
    /\ transport.completed = answered
    /\ pc \in {"session", "dispatch"} => ~sent
    /\ pc \in {"session", "dispatch", "sent"} => ~answered /\ ~tainted
    /\ pc \in {"sent", "body", "teardown", "normalize"} => sent
    /\ pc \in {"session", "dispatch", "sent", "body"} => ~received
    /\ passed # "none" => answered
    /\ pc \in {"teardown", "normalize"} => answered

\* A forbidden value that arrived has flagged the transport.
TaintIsFlagged == tainted => transport.sensitive

OutcomeOK ==
    /\ pc = "normalize" => ~transport.sensitive
    /\ outcome.end # "none" => outcome.dispatched = sent
    /\ Response!DefiniteIsAnswered /\ Response!AnsweredIsDefinite /\ Response!ResultIsClean

ResponseInv == Response!TypeOK /\ CallProgress /\ TaintIsFlagged /\ OutcomeOK

\* The types of the flags, one by one.
LEMMA Flags ==
    ASSUME Response!TypeOK
    PROVE  /\ dispatched \in BOOLEAN /\ received \in BOOLEAN /\ half \in BOOLEAN
           /\ pending \in BOOLEAN /\ sent \in BOOLEAN /\ answered \in BOOLEAN
           /\ tainted \in BOOLEAN
           /\ transport.sensitive \in BOOLEAN /\ transport.completed \in BOOLEAN
           /\ transport.failure \in BOOLEAN
           /\ transport = [sensitive |-> transport.sensitive, completed |-> transport.completed,
                           failure |-> transport.failure]
BY DEF Response!TypeOK

\* How an exception is classified.
LEMMA Classified ==
    ASSUME ResponseInv, NEW t \in [sensitive : BOOLEAN, completed : BOOLEAN, failure : BOOLEAN]
    PROVE  /\ Response!Raised(t) \in [end : Response!Ends, dispatched : BOOLEAN]
           /\ Response!Raised(t).end \in {"error", "indeterminate"}
           /\ Response!Raised(t).end = "indeterminate" <=> sent /\ ~received /\ ~t.completed
           /\ Response!Raised(t).dispatched = sent
BY Flags DEF Response!Raised, ResponseInv, CallProgress, Response!Ends

\* An exception before the session has its result ends the call as the flags of the
\* transport then are.
LEMMA RaiseOK ==
    ASSUME ResponseInv, pc \in {"session", "dispatch", "sent", "body"},
           NEW t \in [sensitive : BOOLEAN, completed : BOOLEAN, failure : BOOLEAN],
           transport' = t, Response!Raise(t),
           UNCHANGED <<dispatched, received, sent>>,
           answered' = t.completed, budget' \in 0 .. ResponseBytes,
           answer' \in Response!Answer,
           half' \in BOOLEAN, pending' \in BOOLEAN, tainted' \in BOOLEAN,
           passed' = passed, answered => answered',
           pc \in {"session", "dispatch"} => answered' = answered,
           tainted' => t.sensitive
    PROVE  ResponseInv'
<1>1. pc' = "done" /\ outcome' = Response!Raised(t)
  BY DEF Response!Raise
<1>2. Response!TypeOK'
  BY <1>1, Classified, Flags DEF Response!TypeOK, ResponseInv
<1>3. CallProgress'
  BY <1>1, Flags DEF ResponseInv, CallProgress
<1>4. TaintIsFlagged'
  BY DEF TaintIsFlagged
<1>5. OutcomeOK'
  BY <1>1, Classified, Flags DEF ResponseInv, CallProgress, OutcomeOK, Response!DefiniteIsAnswered,
     Response!AnsweredIsDefinite, Response!ResultIsClean
<1>6. QED
  BY <1>2, <1>3, <1>4, <1>5 DEF ResponseInv

\* A step that leaves the call under way.
LEMMA GoesOnOK ==
    ASSUME ResponseInv, pc \in {"session", "dispatch", "sent", "body", "teardown"},
           pc' \in {"dispatch", "sent", "body", "teardown", "normalize"},
           UNCHANGED outcome,
           dispatched' \in BOOLEAN, received' \in BOOLEAN, half' \in BOOLEAN,
           pending' \in BOOLEAN, sent' \in BOOLEAN, answered' \in BOOLEAN, tainted' \in BOOLEAN,
           transport' \in [sensitive : BOOLEAN, completed : BOOLEAN, failure : BOOLEAN],
           budget' \in 0 .. ResponseBytes, answer' \in Response!Answer,
           passed' \in {"none", "result", "error"},
           CallProgress', TaintIsFlagged', pc' = "normalize" => ~transport'.sensitive
    PROVE  ResponseInv'
<1>1. outcome.end = "none"
  BY DEF ResponseInv, Response!TypeOK
<1>2. Response!TypeOK'
  BY <1>1 DEF Response!TypeOK, ResponseInv
<1>3. OutcomeOK'
  BY <1>1 DEF OutcomeOK, Response!DefiniteIsAnswered, Response!AnsweredIsDefinite,
     Response!ResultIsClean
<1>4. QED
  BY <1>2, <1>3 DEF ResponseInv

\* Nothing is sent at first.
LEMMA ResponseInit == Response!Init => ResponseInv
<1> SUFFICES ASSUME Response!Init PROVE ResponseInv
  OBVIOUS
<1>1. ResponseBytes \in Nat \ {0}
  BY UpstreamAssumption DEF Response!BytesAssumption
<1>2. Response!TypeOK
  <2>1. {dispatched, received, half, pending, sent, answered, tainted} \subseteq BOOLEAN
    BY DEF Response!Init
  <2>2. /\ transport \in [sensitive : BOOLEAN, completed : BOOLEAN, failure : BOOLEAN]
        /\ answer \in Response!Answer
        /\ outcome \in [end : Response!Ends, dispatched : BOOLEAN] /\ outcome.end = "none"
    BY DEF Response!Init, Response!Answer, Response!Ends
  <2>3. budget \in 0 .. ResponseBytes
    BY <1>1 DEF Response!Init
  <2>4. QED
    BY <2>1, <2>2, <2>3 DEF Response!Init, Response!TypeOK
<1>3. QED
  BY <1>2 DEF Response!Init, ResponseInv, CallProgress, TaintIsFlagged, OutcomeOK,
     Response!DefiniteIsAnswered, Response!AnsweredIsDefinite, Response!ResultIsClean

\* before_session, before_dispatch, and anything that fails on the way.
LEMMA ResponseOpens ==
    ASSUME ResponseInv,
           Response!Initialize \/ Response!Dispatch \/ Response!Break \/ Response!Overrun
             \/ Response!TakeError
    PROVE  ResponseInv'
<1>1. CASE Response!Initialize
  <2>1. /\ pc = "session" /\ pc' = "dispatch" /\ budget > 0 /\ budget' = budget - 1
        /\ UNCHANGED <<dispatched, received, answer, half, pending, passed, outcome, sent,
                       answered, tainted>>
        /\ \E sensitive \in BOOLEAN : transport' = [transport EXCEPT !.sensitive = sensitive]
    BY <1>1 DEF Response!Initialize, Response!Consume
  <2>2. /\ transport' \in [sensitive : BOOLEAN, completed : BOOLEAN, failure : BOOLEAN]
        /\ transport'.completed = transport.completed
    BY <2>1 DEF ResponseInv, Response!TypeOK
  <2>3. CallProgress' /\ TaintIsFlagged'
    BY <2>1, <2>2 DEF ResponseInv, CallProgress, TaintIsFlagged
  <2>4. budget' \in 0 .. ResponseBytes
    BY <2>1, UpstreamAssumption DEF ResponseInv, Response!TypeOK, Response!BytesAssumption
  <2>5. QED
    BY <2>1, <2>2, <2>3, <2>4, Flags, GoesOnOK DEF ResponseInv, Response!TypeOK
<1>2. CASE Response!Dispatch
  <2>1. /\ pc = "dispatch" /\ pc' = "sent" /\ sent' = TRUE /\ dispatched' = TRUE
        /\ UNCHANGED <<received, transport, budget, answer, half, pending, passed, outcome,
                       answered, tainted>>
    BY <1>2 DEF Response!Dispatch
  <2>2. CallProgress' /\ TaintIsFlagged'
    BY <2>1 DEF ResponseInv, CallProgress, TaintIsFlagged
  <2>3. QED
    BY <2>1, <2>2, Flags, GoesOnOK DEF ResponseInv, Response!TypeOK
<1>3. ASSUME pc \in {"session", "dispatch", "sent", "body"}, Response!Raise(transport),
             UNCHANGED <<dispatched, received, transport, budget, answer, half, pending,
                         passed, sent, answered, tainted>>
      PROVE  ResponseInv'
  <2>1. transport \in [sensitive : BOOLEAN, completed : BOOLEAN, failure : BOOLEAN]
        /\ transport.completed = answered /\ (tainted => transport.sensitive)
    BY DEF ResponseInv, Response!TypeOK, CallProgress, TaintIsFlagged
  <2>2. QED
    BY <1>3, <2>1, Flags, RaiseOK DEF ResponseInv, Response!TypeOK
<1>4. QED
  BY <1>1, <1>2, <1>3 DEF Response!Break, Response!Overrun, Response!TakeError

\* A part was consumed.
LEMMA Consumed ==
    ASSUME ResponseInv, Response!Consume
    PROVE  budget' \in 0 .. ResponseBytes
BY UpstreamAssumption DEF ResponseInv, Response!TypeOK, Response!BytesAssumption, Response!Consume

\* The headers, accepted or refused.
LEMMA HeadersOK ==
    ASSUME ResponseInv, NEW a \in Response!Answer,
           Response!Headers(a) \/ \E s \in BOOLEAN : Response!RefuseHeaders(a, s)
    PROVE  ResponseInv'
<1>1. /\ Response!Headed(a) \in [sensitive : BOOLEAN, completed : BOOLEAN, failure : BOOLEAN]
      /\ Response!Headed(a).sensitive = transport.sensitive
      /\ Response!Headed(a).completed = (transport.completed \/ a.status = "client_error")
  BY Flags DEF Response!Headed, ResponseInv
<1>2. CASE Response!Headers(a)
  <2>1. /\ pc = "sent" /\ pc' = "body" /\ answer' = a /\ transport' = Response!Headed(a)
        /\ answered' = (a.status = "client_error")
        /\ UNCHANGED <<dispatched, received, budget, half, pending, passed, outcome, sent, tainted>>
    BY <1>2 DEF Response!Headers
  <2>2. CallProgress' /\ TaintIsFlagged' /\ answered' \in BOOLEAN
    BY <1>1, <2>1 DEF ResponseInv, CallProgress, TaintIsFlagged
  <2>3. QED
    BY <1>1, <2>1, <2>2, Flags, GoesOnOK DEF ResponseInv, Response!TypeOK
<1>3. ASSUME NEW s \in BOOLEAN, Response!RefuseHeaders(a, s)
      PROVE  ResponseInv'
  <2> DEFINE t == [Response!Headed(a) EXCEPT !.sensitive = @ \/ s]
  <2>1. /\ pc = "sent" /\ transport' = t /\ answered' = (a.status = "client_error")
        /\ Response!Raise(t)
        /\ UNCHANGED <<dispatched, received, budget, answer, half, pending, passed, sent, tainted>>
    BY <1>3 DEF Response!RefuseHeaders
  <2>2. /\ t \in [sensitive : BOOLEAN, completed : BOOLEAN, failure : BOOLEAN]
        /\ t.sensitive = (transport.sensitive \/ s)
        /\ t.completed = (transport.completed \/ a.status = "client_error")
    BY <1>1
  <2> HIDE DEF t
  <2>3. /\ answered' = t.completed /\ (answered => answered') /\ (tainted' => t.sensitive)
    BY <2>1, <2>2, Flags DEF ResponseInv, CallProgress, TaintIsFlagged
  <2>4. QED
    BY <2>1, <2>2, <2>3, Flags, RaiseOK DEF ResponseInv, Response!TypeOK
<1>4. QED
  BY <1>2, <1>3

\* _screen_completed_sse_events and the search of a part: what they leave of the flags.
LEMMA PartFacts ==
    ASSUME ResponseInv, NEW part \in Response!Part
    PROVE  /\ Response!Matches(part) \in BOOLEAN /\ Response!Responds(part) \in BOOLEAN
           /\ Response!Completed(part) \in
                [sensitive : BOOLEAN, completed : BOOLEAN, failure : BOOLEAN]
           /\ Response!Completed(part).sensitive = transport.sensitive
           /\ Response!Completed(part).completed = (answered \/ Response!Responds(part))
           /\ \A t \in [sensitive : BOOLEAN, completed : BOOLEAN, failure : BOOLEAN] :
                /\ Response!Flagged(t, part) \in
                     [sensitive : BOOLEAN, completed : BOOLEAN, failure : BOOLEAN]
                /\ Response!Flagged(t, part).sensitive = (t.sensitive \/ Response!Matches(part))
                /\ Response!Flagged(t, part).completed = t.completed
<1>1. Response!Matches(part) \in BOOLEAN /\ Response!Responds(part) \in BOOLEAN
  BY Flags DEF Response!Matches, Response!Responds, ResponseInv
<1>2. transport.completed = answered
  BY DEF ResponseInv, CallProgress
<1>3. (part.completes = "error") \in BOOLEAN
  OBVIOUS
<1>4. QED
  BY <1>1, <1>2, <1>3, Flags DEF Response!Completed, Response!Flagged, ResponseInv

\* A part of an event stream.
LEMMA StreamPartOK ==
    ASSUME ResponseInv, NEW part \in Response!Part, NEW s \in BOOLEAN,
           Response!StreamPart(part, s)
    PROVE  ResponseInv'
<1> DEFINE rejected == part.completes # "nothing" /\ (pending \/ s)
           t == [Response!Completed(part) EXCEPT !.sensitive = TRUE]
           u == Response!Flagged(Response!Completed(part), part)
<1>1. /\ pc = "body" /\ Response!Consume
      /\ half' = (part.secret = "first")
      /\ answered' = (answered \/ Response!Responds(part))
      /\ tainted' = (tainted \/ Response!Matches(part))
      /\ pending' = (pending \/ Response!Matches(part))
      /\ UNCHANGED <<dispatched, received, answer, sent>>
  BY DEF Response!StreamPart, Response!Matches
<1>2. /\ half' \in BOOLEAN /\ answered' \in BOOLEAN /\ tainted' \in BOOLEAN /\ pending' \in BOOLEAN
      /\ dispatched' \in BOOLEAN /\ received' \in BOOLEAN /\ sent' \in BOOLEAN
      /\ budget' \in 0 .. ResponseBytes /\ answer' \in Response!Answer
  BY <1>1, PartFacts, Flags, Consumed DEF ResponseInv, Response!TypeOK
<1>3. CASE rejected
  <2>1. transport' = t /\ Response!Raise(t) /\ UNCHANGED passed
    BY <1>3 DEF Response!StreamPart
  <2>2. /\ t \in [sensitive : BOOLEAN, completed : BOOLEAN, failure : BOOLEAN]
        /\ t.sensitive = TRUE /\ t.completed = answered'
    <3> DEFINE c == Response!Completed(part)
    <3>1. /\ c \in [sensitive : BOOLEAN, completed : BOOLEAN, failure : BOOLEAN]
          /\ c.completed = answered'
      BY <1>1, PartFacts
    <3> HIDE DEF c
    <3>2. t = [c EXCEPT !.sensitive = TRUE]
      BY DEF c
    <3>3. QED
      BY <3>1, <3>2
  <2> HIDE DEF t
  <2>3. QED
    BY <1>1, <1>2, <2>1, <2>2, Flags, RaiseOK
<1>4. CASE ~rejected
  <2>1. /\ transport' = u /\ UNCHANGED <<pc, outcome>>
        /\ passed' = IF passed = "none" /\ Response!Responds(part) THEN part.completes ELSE passed
    BY <1>4 DEF Response!StreamPart
  <2>2. /\ u \in [sensitive : BOOLEAN, completed : BOOLEAN, failure : BOOLEAN]
        /\ u.sensitive = (transport.sensitive \/ Response!Matches(part))
        /\ u.completed = answered'
    BY <1>1, PartFacts
  <2> HIDE DEF u
  <2>3. passed' \in {"none", "result", "error"}
    BY <2>1 DEF Response!Responds, ResponseInv, Response!TypeOK
  <2>4. CallProgress'
    BY <1>1, <2>1, <2>2, PartFacts DEF ResponseInv, CallProgress
  <2>5. TaintIsFlagged'
    BY <1>1, <2>1, <2>2 DEF ResponseInv, TaintIsFlagged
  <2>6. QED
    BY <1>1, <1>2, <2>1, <2>2, <2>3, <2>4, <2>5, GoesOnOK
<1>5. QED
  BY <1>3, <1>4

\* A part of a document is kept back.
LEMMA DocumentPartOK ==
    ASSUME ResponseInv, NEW part \in Response!Part, Response!DocumentPart(part)
    PROVE  ResponseInv'
<1> DEFINE u == Response!Flagged(transport, part)
<1>1. /\ pc = "body" /\ Response!Consume
      /\ half' = (part.secret = "first")
      /\ tainted' = (tainted \/ Response!Matches(part))
      /\ pending' = (pending \/ Response!Matches(part))
      /\ transport' = u
      /\ UNCHANGED <<pc, dispatched, received, answer, passed, outcome, sent, answered>>
  BY DEF Response!DocumentPart, Response!Matches
<1>2. /\ half' \in BOOLEAN /\ tainted' \in BOOLEAN /\ pending' \in BOOLEAN
      /\ budget' \in 0 .. ResponseBytes
  BY <1>1, PartFacts, Flags, Consumed DEF ResponseInv
<1>3. /\ u \in [sensitive : BOOLEAN, completed : BOOLEAN, failure : BOOLEAN]
      /\ u.sensitive = (transport.sensitive \/ Response!Matches(part))
      /\ u.completed = transport.completed
  BY PartFacts DEF ResponseInv, Response!TypeOK
<1> HIDE DEF u
<1>4. CallProgress' /\ TaintIsFlagged'
  BY <1>1, <1>3 DEF ResponseInv, CallProgress, TaintIsFlagged
<1>5. QED
  BY <1>1, <1>2, <1>3, <1>4, Flags, GoesOnOK DEF ResponseInv, Response!TypeOK

\* The document is complete.
LEMMA EndDocumentOK ==
    ASSUME ResponseInv, NEW holds \in {"result", "error", "other", "malformed"}, NEW s \in BOOLEAN,
           Response!EndDocument(holds, s)
    PROVE  ResponseInv'
<1> DEFINE closes == \/ answer.status = "client_error" \/ (holds = "malformed" /\ answer.status = "ok")
                     \/ holds \in {"result", "error"}
           t == [sensitive |-> transport.sensitive \/ s \/ pending,
                 completed |-> transport.completed \/ closes,
                 failure |-> transport.failure \/ answer.status = "client_error"
                                     \/ holds = "error"]
<1>1. /\ pc = "body" /\ passed = "none" /\ answered' = (answered \/ closes)
      /\ transport' = t
      /\ UNCHANGED <<dispatched, received, budget, answer, half, pending, sent, tainted>>
  BY DEF Response!EndDocument
<1>2. /\ t \in [sensitive : BOOLEAN, completed : BOOLEAN, failure : BOOLEAN]
      /\ t.completed = answered' /\ answered' \in BOOLEAN /\ (answered => answered')
      /\ (tainted' => t.sensitive) /\ (closes => answered')
  BY <1>1, Flags DEF ResponseInv, CallProgress, TaintIsFlagged
<1>3. CASE t.sensitive \/ holds # "result" \/ answer.status # "ok"
  <2>1. Response!Raise(t) /\ UNCHANGED passed
    BY <1>1, <1>3 DEF Response!EndDocument
  <2> HIDE DEF t, closes
  <2>2. QED
    BY <1>1, <1>2, <2>1, Flags, RaiseOK DEF ResponseInv, Response!TypeOK
<1>4. CASE ~(t.sensitive \/ holds # "result" \/ answer.status # "ok")
  <2>1. passed' = "result" /\ UNCHANGED <<pc, outcome>>
    BY <1>1, <1>4 DEF Response!EndDocument
  <2>2. closes
    BY <1>4
  <2> HIDE DEF t, closes
  <2>3. CallProgress' /\ TaintIsFlagged'
    BY <1>1, <1>2, <2>1, <2>2 DEF ResponseInv, CallProgress, TaintIsFlagged
  <2>4. QED
    BY <1>1, <1>2, <2>1, <2>3, Flags, GoesOnOK DEF ResponseInv, Response!TypeOK
<1>5. QED
  BY <1>3, <1>4

\* The end of a stream, the stream beside it, and the result the session takes.
LEMMA StreamsOK ==
    ASSUME ResponseInv, NEW s \in BOOLEAN,
           Response!EndStream(s) \/ Response!OtherStream(s) \/ Response!TakeResult(s)
    PROVE  ResponseInv'
<1> DEFINE t == [transport EXCEPT !.sensitive = @ \/ s]
<1>1. /\ t \in [sensitive : BOOLEAN, completed : BOOLEAN, failure : BOOLEAN]
      /\ t.sensitive = (transport.sensitive \/ s) /\ t.completed = transport.completed
  BY DEF ResponseInv, Response!TypeOK
<1>2. transport' = t
  BY DEF Response!EndStream, Response!OtherStream, Response!TakeResult
<1> HIDE DEF t
<1>3. CASE Response!EndStream(s)
  <2>1. /\ pc = "body" /\ Response!Raise(transport')
        /\ UNCHANGED <<dispatched, received, budget, answer, half, pending, passed, sent, answered,
                       tainted>>
    BY <1>3 DEF Response!EndStream
  <2>2. answered' = t.completed /\ (tainted' => t.sensitive)
    BY <1>1, <2>1 DEF ResponseInv, CallProgress, TaintIsFlagged
  <2>3. Response!Raise(t)
    BY <1>2, <2>1
  <2>4. QED
    BY <1>1, <1>2, <2>1, <2>2, <2>3, Flags, RaiseOK DEF ResponseInv, Response!TypeOK
<1>4. CASE Response!OtherStream(s)
  <2>1. /\ pc \in {"sent", "body"} /\ Response!Consume
        /\ UNCHANGED <<pc, dispatched, received, answer, half, pending, passed, outcome, sent,
                       answered, tainted>>
    BY <1>4 DEF Response!OtherStream
  <2>2. CallProgress' /\ TaintIsFlagged'
    BY <1>1, <1>2, <2>1 DEF ResponseInv, CallProgress, TaintIsFlagged
  <2>3. QED
    BY <1>1, <1>2, <2>1, <2>2, Flags, Consumed, GoesOnOK DEF ResponseInv, Response!TypeOK
<1>5. CASE Response!TakeResult(s)
  <2>1. /\ pc = "body" /\ passed = "result" /\ pc' = "teardown"
        /\ UNCHANGED <<dispatched, received, budget, answer, half, pending, passed, outcome, sent,
                       answered, tainted>>
    BY <1>5 DEF Response!TakeResult
  <2>2. CallProgress' /\ TaintIsFlagged'
    BY <1>1, <1>2, <2>1 DEF ResponseInv, CallProgress, TaintIsFlagged
  <2>3. QED
    BY <1>1, <1>2, <2>1, <2>2, Flags, GoesOnOK DEF ResponseInv, Response!TypeOK
<1>6. QED
  BY <1>3, <1>4, <1>5

\* Back in invoke.
LEMMA ReturnOK ==
    ASSUME ResponseInv, Response!Return \/ Response!Accept \/ Response!Refuse
    PROVE  ResponseInv'
<1>1. CASE Response!Return /\ ~transport.sensitive
  <2>1. /\ pc = "teardown" /\ received' = TRUE /\ pc' = "normalize"
        /\ UNCHANGED <<outcome, dispatched, transport, budget, answer, half, pending, passed, sent,
                       answered, tainted>>
    BY <1>1 DEF Response!Return, Response!Screened
  <2>2. CallProgress' /\ TaintIsFlagged'
    BY <2>1 DEF ResponseInv, CallProgress, TaintIsFlagged
  <2>3. QED
    BY <1>1, <2>1, <2>2, Flags, GoesOnOK DEF ResponseInv, Response!TypeOK
<1>2. ASSUME pc \in {"teardown", "normalize"}, pc' = "done", received' \in BOOLEAN,
             NEW o \in [end : {"result", "error"}, dispatched : BOOLEAN], o.dispatched = TRUE,
             outcome' = o, o.end = "result" => pc = "normalize",
             UNCHANGED <<dispatched, transport, budget, answer, half, pending, passed, sent,
                         answered, tainted>>
      PROVE  ResponseInv'
  <2>1. answered /\ sent
    BY <1>2 DEF ResponseInv, CallProgress
  <2>2. Response!TypeOK'
    BY <1>2, Flags DEF ResponseInv, Response!TypeOK, Response!Ends
  <2>3. CallProgress' /\ TaintIsFlagged'
    BY <1>2 DEF ResponseInv, CallProgress, TaintIsFlagged
  <2>4. OutcomeOK'
    BY <1>2, <2>1, Flags DEF ResponseInv, OutcomeOK, TaintIsFlagged, Response!DefiniteIsAnswered,
       Response!AnsweredIsDefinite, Response!ResultIsClean
  <2>5. QED
    BY <2>2, <2>3, <2>4 DEF ResponseInv
<1>3. CASE Response!Return /\ transport.sensitive
  <2>1. /\ pc = "teardown" /\ received' = TRUE /\ pc' = "done"
        /\ outcome' = [end |-> "error", dispatched |-> dispatched]
        /\ UNCHANGED <<dispatched, transport, budget, answer, half, pending, passed, sent,
                       answered, tainted>>
    BY <1>3 DEF Response!Return, Response!Screened
  <2>2. dispatched = TRUE
    BY <2>1, Flags DEF ResponseInv, CallProgress
  <2> DEFINE o == [end |-> "error", dispatched |-> TRUE]
  <2>3. o \in [end : {"result", "error"}, dispatched : BOOLEAN] /\ o.dispatched = TRUE
        /\ o.end = "error" /\ outcome' = o
    BY <2>1, <2>2
  <2> HIDE DEF o
  <2>4. QED
    BY <1>2, <2>1, <2>3
<1>4. CASE Response!Accept \/ Response!Refuse
  <2>1. /\ pc = "normalize" /\ pc' = "done"
        /\ UNCHANGED <<dispatched, received, transport, budget, answer, half, pending, passed, sent,
                       answered, tainted>>
    BY <1>4 DEF Response!Accept, Response!Refuse
  <2>2. PICK e \in {"result", "error"} : outcome' = [end |-> e, dispatched |-> TRUE]
    BY <1>4 DEF Response!Accept, Response!Refuse
  <2> DEFINE o == [end |-> e, dispatched |-> TRUE]
  <2>3. o \in [end : {"result", "error"}, dispatched : BOOLEAN] /\ o.dispatched = TRUE
        /\ outcome' = o
    BY <2>2
  <2> HIDE DEF o
  <2>4. QED
    BY <1>2, <2>1, <2>3, Flags DEF ResponseInv
<1>5. QED
  BY <1>1, <1>3, <1>4, Flags DEF ResponseInv

\* Every step of a tool call.
LEMMA ResponseStep ==
    ASSUME ResponseInv, Response!Next
    PROVE  ResponseInv'
BY ResponseOpens, HeadersOK, StreamPartOK, DocumentPartOK, EndDocumentOK, StreamsOK, ReturnOK
   DEF Response!Next
-----------------------------------------------------------------------------
(* The issuer's keys. *)

\* A loaded key is published, or was until less than a refresh interval before the next
\* refresh is due; and the library's own cache holds no key that the resolver has not loaded.
LoadedIsRecent ==
    /\ \A k \in UNION signing_keys :
         k \in published \/ next_refresh_at <= revoked_at[k] + RefreshInterval
    /\ next_refresh_at <= now + RefreshInterval
    /\ signing_keys = {} => \A c \in cached : c.keys = {}

\* At most one set of keys is loaded, and at most one response cached.
OneKeySet ==
    /\ signing_keys = {} \/ \E keys \in SUBSET Kids : signing_keys = {keys}
    /\ cached = {} \/ \E c : cached = {c}

NegativesOK ==
    /\ negative_kids \in Seq(Keys!Negative) /\ Len(negative_kids) <= MaxNegativeKids
    /\ \A i, j \in DOMAIN negative_kids : negative_kids[i].kid = negative_kids[j].kid => i = j

KeysInv ==
    /\ now \in 0 .. LastRefresh /\ published \subseteq Kids
    /\ revoked_at \in [Kids -> 0 .. LastRefresh]
    /\ next_refresh_at \in 0 .. LastRefresh + RefreshInterval
    /\ resolved \in Kids \cup {"none", "unavailable", "refused"}
    /\ OneKeySet /\ NegativesOK /\ LoadedIsRecent

\* The limits.
LEMMA KeyConstants ==
    /\ RefreshInterval \in Nat \ {0} /\ NegativeTtl \in Nat \ {0} /\ MaxNegativeKids \in Nat \ {0}
    /\ Lifespan \in Nat \ {0} /\ LastRefresh \in Nat
    /\ \A k \in Kids : k # NoKid /\ k # "none" /\ k # "unavailable" /\ k # "refused"
BY UpstreamAssumption DEF Keys!KeysAssumption

\* A set of at most one element, counted.
LEMMA AtMostOne ==
    ASSUME NEW S, S = {} \/ \E x : S = {x}
    PROVE  Keys!Cardinality(S) <= 1
<1>1. Cardinality(S) \in {0, 1}
  BY FS_EmptySet, FS_Singleton
<1>2. Keys!Cardinality(S) = Cardinality(S)
  BY DEF Keys!Cardinality, Cardinality
<1>3. QED
  BY <1>1, <1>2

\* The invariant types the resolver.
LEMMA KeysTyped ==
    ASSUME KeysInv
    PROVE  Keys!TypeOK
<1>1. Keys!Cardinality(signing_keys) <= 1 /\ Keys!Cardinality(cached) <= 1
  BY AtMostOne DEF KeysInv, OneKeySet
<1>2. signing_keys \subseteq SUBSET Kids
  BY DEF KeysInv, OneKeySet
<1>3. QED
  BY <1>1, <1>2 DEF KeysInv, NegativesOK, Keys!TypeOK

\* Entry p of a sequence is taken out of it.
LEMMA RemovedAt ==
    ASSUME NEW S, NEW s \in Seq(S), NEW p \in 1 .. Len(s)
    PROVE  LET w == SubSeq(s, 1, p - 1) \o SubSeq(s, p + 1, Len(s)) IN
           /\ w \in Seq(S) /\ Len(w) = Len(s) - 1 /\ DOMAIN w = 1 .. Len(s) - 1
           /\ \A k \in 1 .. Len(s) - 1 : w[k] = s[IF k < p THEN k ELSE k + 1]
<1> DEFINE n == Len(s)
           front == SubSeq(s, 1, p - 1)
           back == SubSeq(s, p + 1, n)
           w == front \o back
<1>1. /\ n \in Nat /\ p \in Nat /\ p >= 1 /\ p <= n /\ p - 1 \in Int /\ p + 1 \in Int /\ 1 \in Int
      /\ \A i \in 1 .. p - 1 : s[i] \in S
      /\ \A i \in p + 1 .. n : s[i] \in S
  OBVIOUS
<1> HIDE DEF n
<1>2. /\ front \in Seq(S) /\ Len(front) = p - 1
      /\ \A i \in 1 .. p - 1 : front[i] = s[i]
  <2>1. /\ front \in Seq(S) /\ Len(front) = IF 1 <= p - 1 THEN (p - 1) - 1 + 1 ELSE 0
        /\ \A i \in 1 .. (p - 1) - 1 + 1 : front[i] = s[1 + i - 1]
    BY <1>1, SubSeqProperties
  <2>2. \A i \in 1 .. p - 1 : i \in 1 .. (p - 1) - 1 + 1 /\ 1 + i - 1 = i
    BY <1>1
  <2>3. Len(front) = p - 1
    BY <1>1, <2>1
  <2>4. QED
    BY <2>1, <2>2, <2>3
<1>3. /\ back \in Seq(S) /\ Len(back) = n - p
      /\ \A i \in 1 .. n - p : back[i] = s[p + i]
  <2>1. /\ back \in Seq(S) /\ Len(back) = IF p + 1 <= n THEN n - (p + 1) + 1 ELSE 0
        /\ \A i \in 1 .. n - (p + 1) + 1 : back[i] = s[p + 1 + i - 1]
    BY <1>1, SubSeqProperties
  <2>2. \A i \in 1 .. n - p : i \in 1 .. n - (p + 1) + 1 /\ p + 1 + i - 1 = p + i
    BY <1>1
  <2>3. Len(back) = n - p
    BY <1>1, <2>1
  <2>4. QED
    BY <2>1, <2>2, <2>3
<1> HIDE DEF front, back
<1>4. /\ w \in Seq(S) /\ Len(w) = Len(front) + Len(back)
      /\ \A i \in 1 .. Len(front) + Len(back) :
           w[i] = IF i <= Len(front) THEN front[i] ELSE back[i - Len(front)]
  BY <1>2, <1>3, ConcatProperties
<1> HIDE DEF w
<1>5. Len(w) = n - 1
  BY <1>1, <1>2, <1>3, <1>4
<1>6. ASSUME NEW k \in 1 .. n - 1 PROVE w[k] = s[IF k < p THEN k ELSE k + 1]
  <2>1. CASE k < p
    <3>1. k \in 1 .. p - 1 /\ k <= Len(front) /\ k \in 1 .. Len(front) + Len(back)
      BY <1>1, <1>2, <1>3, <2>1
    <3>2. QED
      BY <1>2, <1>4, <2>1, <3>1
  <2>2. CASE ~(k < p)
    <3>1. k - (p - 1) \in 1 .. n - p /\ p + (k - (p - 1)) = k + 1
      BY <1>1, <2>2
    <3>2. ~(k <= Len(front)) /\ k \in 1 .. Len(front) + Len(back)
      BY <1>1, <1>2, <1>3, <2>2
    <3>3. w[k] = back[k - (p - 1)]
      BY <1>2, <1>4, <3>2
    <3>4. QED
      BY <1>3, <2>2, <3>1, <3>3
  <2>3. QED
    BY <2>1, <2>2
<1>7. DOMAIN w = 1 .. n - 1
  BY <1>4, <1>5
<1>8. QED
  BY <1>4, <1>5, <1>6, <1>7 DEF n, w, front, back

\* _negative_kids.pop(kid, None)
LEMMA WithoutOK ==
    ASSUME NegativesOK, NEW kid
    PROVE  /\ Keys!Without(kid) \in Seq(Keys!Negative)
           /\ Len(Keys!Without(kid)) <= MaxNegativeKids
           /\ \A i, j \in DOMAIN Keys!Without(kid) :
                Keys!Without(kid)[i].kid = Keys!Without(kid)[j].kid => i = j
           /\ \A i \in DOMAIN Keys!Without(kid) : Keys!Without(kid)[i].kid # kid
<1> DEFINE n == negative_kids
<1>0. n \in Seq(Keys!Negative) /\ Len(n) \in Nat /\ DOMAIN n = 1 .. Len(n)
  BY DEF NegativesOK
<1>1. CASE Keys!PlacesOf(kid) = {}
  BY <1>1, <1>0 DEF NegativesOK, Keys!Without, Keys!PlacesOf
<1>2. CASE Keys!PlacesOf(kid) # {}
  <2> DEFINE p == CHOOSE i \in Keys!PlacesOf(kid) : TRUE
             w == SubSeq(n, 1, p - 1) \o SubSeq(n, p + 1, Len(n))
  <2>1. p \in 1 .. Len(n) /\ n[p].kid = kid
    BY <1>0, <1>2 DEF Keys!PlacesOf
  <2>2. Keys!Without(kid) = w
    BY <1>2 DEF Keys!Without, Keys!RemoveAt
  <2> HIDE DEF p
  <2>3. /\ w \in Seq(Keys!Negative) /\ Len(w) = Len(n) - 1 /\ DOMAIN w = 1 .. Len(n) - 1
        /\ \A k \in 1 .. Len(n) - 1 : w[k] = n[IF k < p THEN k ELSE k + 1]
    BY <1>0, <2>1, RemovedAt
  <2> HIDE DEF w
  <2>4. Len(w) <= MaxNegativeKids
    BY <2>3, <1>0, KeyConstants DEF NegativesOK
  <2> DEFINE at(k) == IF k < p THEN k ELSE k + 1
  <2>5. \A k \in DOMAIN w : at(k) \in DOMAIN n /\ at(k) # p /\ w[k] = n[at(k)]
    BY <2>1, <2>3, <1>0
  <2>6. \A i, j \in DOMAIN w : at(i) = at(j) => i = j
    BY <2>1, <2>3, <1>0
  <2> HIDE DEF at
  <2>7. \A i, j \in DOMAIN n : n[i].kid = n[j].kid => i = j
    BY DEF NegativesOK
  <2> HIDE DEF n
  <2>8. /\ \A i, j \in DOMAIN w : w[i].kid = w[j].kid => i = j
        /\ \A i \in DOMAIN w : w[i].kid # kid
    BY <2>1, <2>5, <2>6, <2>7, <1>0
  <2>9. QED
    BY <2>2, <2>3, <2>4, <2>8
<1>3. QED
  BY <1>1, <1>2

\* A refused kid is remembered.
LEMMA RememberOK ==
    ASSUME KeysInv, NEW kid \in Kids
    PROVE  /\ Keys!Remember(kid) \in Seq(Keys!Negative)
           /\ Len(Keys!Remember(kid)) <= MaxNegativeKids
           /\ \A i, j \in DOMAIN Keys!Remember(kid) :
                Keys!Remember(kid)[i].kid = Keys!Remember(kid)[j].kid => i = j
<1> DEFINE w == Keys!Without(kid)
           e == [kid |-> kid, until |-> now + NegativeTtl]
           all == Append(w, e)
<1>1. e \in Keys!Negative
  BY KeyConstants DEF Keys!Negative, KeysInv
<1>2. /\ w \in Seq(Keys!Negative) /\ Len(w) <= MaxNegativeKids
      /\ \A i, j \in DOMAIN w : w[i].kid = w[j].kid => i = j
      /\ \A i \in DOMAIN w : w[i].kid # kid
  BY WithoutOK DEF KeysInv
<1>3. e.kid = kid
  OBVIOUS
<1> HIDE DEF w, e
<1>4. /\ all \in Seq(Keys!Negative) /\ Len(all) = Len(w) + 1
      /\ \A i \in 1 .. Len(all) : all[i] = IF i <= Len(w) THEN w[i] ELSE e
      /\ Len(w) \in Nat /\ DOMAIN w = 1 .. Len(w) /\ DOMAIN all = 1 .. Len(all)
  BY <1>1, <1>2, AppendProperties
<1>5. \A i, j \in DOMAIN all : all[i].kid = all[j].kid => i = j
  BY <1>2, <1>3, <1>4
<1>6. Keys!Remember(kid) = IF Len(all) > MaxNegativeKids THEN Tail(all) ELSE all
  BY DEF Keys!Remember, w, e
<1> HIDE DEF all
<1>7. CASE Len(all) > MaxNegativeKids
  <2>1. /\ Tail(all) \in Seq(Keys!Negative) /\ Len(Tail(all)) = Len(all) - 1
        /\ \A i \in 1 .. Len(Tail(all)) : Tail(all)[i] = all[i + 1]
        /\ DOMAIN Tail(all) = 1 .. Len(all) - 1
    BY <1>4, HeadTailProperties
  <2>2. QED
    BY <1>2, <1>4, <1>5, <1>6, <1>7, <2>1, KeyConstants
<1>8. CASE ~(Len(all) > MaxNegativeKids)
  BY <1>4, <1>5, <1>6, <1>8, KeyConstants
<1>9. QED
  BY <1>7, <1>8

\* No key is loaded at first.
LEMMA KeysInit == Keys!Init => KeysInv
<1> SUFFICES ASSUME Keys!Init PROVE KeysInv
  OBVIOUS
<1>1. /\ 0 \in 0 .. LastRefresh /\ 0 \in 0 .. LastRefresh + RefreshInterval
      /\ 0 <= 0 + RefreshInterval
  BY KeyConstants
<1>2. NegativesOK
  BY KeyConstants DEF Keys!Init, NegativesOK
<1>3. QED
  BY <1>1, <1>2 DEF Keys!Init, KeysInv, OneKeySet, LoadedIsRecent

\* The keys after a reload: the ones published now, or none.
LEMMA ReloadOK ==
    ASSUME KeysInv, Keys!Reload
    PROVE  /\ signing_keys' = {} \/ signing_keys' = {published}
           /\ next_refresh_at' = now + RefreshInterval
           /\ cached' = {} \/ \E c : cached' = {c}
           /\ signing_keys' = {} => \A c \in cached' : c.keys = {}
<1>1. PICK got \in Keys!GetSigningKeys(signing_keys # {}) :
        signing_keys' = got.keys /\ cached' = got.cached
  BY DEF Keys!Reload
<1> DEFINE live == {c \in cached : ~(signing_keys # {}) /\ now < c.at + Lifespan}
<1>2. CASE live = {}
  <2>1. got \in Keys!Fetches
    BY <1>1, <1>2 DEF Keys!GetSigningKeys
  <2>2. CASE got = [keys |-> IF published = {} THEN {} ELSE {published},
                    cached |-> {[keys |-> published, at |-> now]}]
    <3>1. /\ signing_keys' = IF published = {} THEN {} ELSE {published}
          /\ cached' = {[keys |-> published, at |-> now]}
      BY <1>1, <2>2
    <3>2. next_refresh_at' = now + RefreshInterval
      BY DEF Keys!Reload
    <3>3. signing_keys' = {} => published = {}
      BY <3>1
    <3>4. QED
      BY <3>1, <3>2, <3>3
  <2>3. CASE got = [keys |-> {}, cached |-> {}]
    BY <1>1, <2>3 DEF Keys!Reload
  <2>4. QED
    BY <2>1, <2>2, <2>3 DEF Keys!Fetches
<1>3. CASE live # {}
  <2>1. PICK c \in live : got = [keys |-> IF c.keys = {} THEN {} ELSE {c.keys}, cached |-> cached]
    BY <1>1, <1>3 DEF Keys!GetSigningKeys
  <2>2. signing_keys = {} /\ c \in cached /\ c.keys = {}
    BY <2>1 DEF KeysInv, LoadedIsRecent
  <2>3. signing_keys' = {} /\ cached' = cached
    BY <1>1, <2>1, <2>2
  <2>4. QED
    BY <2>2, <2>3 DEF KeysInv, LoadedIsRecent, OneKeySet, Keys!Reload
<1>4. QED
  BY <1>2, <1>3

\* The keys with which a token is looked up.
LEMMA KeysInUse ==
    ASSUME KeysInv, UNCHANGED <<now, published, revoked_at>>,
           IF now >= next_refresh_at THEN Keys!Reload
           ELSE UNCHANGED <<signing_keys, next_refresh_at, cached>>
    PROVE  /\ OneKeySet' /\ LoadedIsRecent'
           /\ next_refresh_at' \in 0 .. LastRefresh + RefreshInterval
           /\ \A k \in UNION signing_keys' :
                k \in Kids /\ (k \in published \/ now < revoked_at[k] + RefreshInterval)
<1>1. /\ now \in 0 .. LastRefresh /\ LastRefresh \in Nat /\ RefreshInterval \in Nat
      /\ next_refresh_at \in Nat /\ published \subseteq Kids
      /\ \A k \in Kids : revoked_at[k] \in Nat
  BY KeyConstants DEF KeysInv
<1>2. CASE now >= next_refresh_at
  <2>1. Keys!Reload
    BY <1>2
  <2>2. /\ signing_keys' = {} \/ signing_keys' = {published}
        /\ next_refresh_at' = now + RefreshInterval
        /\ cached' = {} \/ \E c : cached' = {c}
        /\ signing_keys' = {} => \A c \in cached' : c.keys = {}
    BY <2>1, ReloadOK
  <2>3. OneKeySet'
    BY <1>1, <2>2 DEF OneKeySet
  <2>4. \A k \in UNION signing_keys' : k \in published
    BY <2>2
  <2>5. LoadedIsRecent'
    BY <1>1, <2>2, <2>4 DEF LoadedIsRecent
  <2>6. QED
    BY <1>1, <2>2, <2>3, <2>4, <2>5
<1>3. CASE ~(now >= next_refresh_at)
  <2>1. UNCHANGED <<signing_keys, next_refresh_at, cached>>
    BY <1>3
  <2>2. OneKeySet' /\ LoadedIsRecent'
    BY <2>1 DEF KeysInv, OneKeySet, LoadedIsRecent
  <2>3. \A k \in UNION signing_keys : k \in Kids
    BY DEF KeysInv, OneKeySet
  <2>4. \A k \in UNION signing_keys : k \in published \/ next_refresh_at <= revoked_at[k] + RefreshInterval
    BY DEF KeysInv, LoadedIsRecent
  <2>5. QED
    BY <1>1, <1>3, <2>1, <2>2, <2>3, <2>4 DEF KeysInv
<1>4. QED
  BY <1>2, <1>3

\* A lookup among keys that are in use.
LEMMA LookupOK ==
    ASSUME KeysInv, NEW kid \in Kids \cup {NoKid}, NEW keys, \A k \in UNION keys : k \in Kids,
           Keys!Lookup(kid, keys)
    PROVE  /\ NegativesOK'
           /\ resolved' \in Kids \cup {"unavailable", "refused"}
           /\ resolved' \in Kids => resolved' \in UNION keys
           /\ kid \in UNION keys => resolved' = kid
<1>1. CASE keys = {}
  BY <1>1, KeyConstants DEF Keys!Lookup, KeysInv, NegativesOK
<1>2. CASE keys # {} /\ kid = NoKid
  <2>1. /\ UNCHANGED negative_kids
        /\ resolved' = IF Keys!Cardinality(UNION keys) = 1 THEN CHOOSE k \in UNION keys : TRUE
                       ELSE "refused"
    BY <1>2 DEF Keys!Lookup
  <2>2. Keys!Cardinality(UNION keys) = 1 => UNION keys # {}
    <3>1. Keys!Cardinality({}) = 0
      <4>1. Keys!Cardinality({}) = Cardinality({})
        BY DEF Keys!Cardinality, Cardinality
      <4>2. QED
        BY <4>1, FS_EmptySet
    <3>2. QED
      BY <3>1
  <2>3. kid \notin UNION keys
    BY <1>2, KeyConstants
  <2>4. QED
    BY <2>1, <2>2, <2>3, KeyConstants DEF KeysInv, NegativesOK
<1>3. CASE keys # {} /\ kid # NoKid /\ kid \in UNION keys
  <2>1. resolved' = kid /\ negative_kids' = Keys!Without(kid)
    BY <1>3 DEF Keys!Lookup
  <2>2. NegativesOK'
    BY <2>1, WithoutOK DEF KeysInv, NegativesOK
  <2>3. QED
    BY <1>3, <2>1, <2>2
<1>4. CASE keys # {} /\ kid # NoKid /\ kid \notin UNION keys
  <2>1. /\ resolved' = "refused"
        /\ negative_kids' = negative_kids \/ negative_kids' = Keys!Remember(kid)
    BY <1>4 DEF Keys!Lookup
  <2>2. NegativesOK'
    BY <1>4, <2>1, RememberOK DEF KeysInv, NegativesOK
  <2>3. QED
    BY <1>4, <2>1, <2>2, KeyConstants
<1>5. QED
  BY <1>1, <1>2, <1>3, <1>4

\* resolve
LEMMA ResolveOK ==
    ASSUME KeysInv, NEW kid \in Kids \cup {NoKid}, Keys!Resolve(kid)
    PROVE  KeysInv' /\ Keys!RevokedKeysStop /\ (kid \in UNION signing_keys' => resolved' = kid)
<1>1. /\ IF now >= next_refresh_at THEN Keys!Reload
         ELSE UNCHANGED <<signing_keys, next_refresh_at, cached>>
      /\ Keys!Lookup(kid, signing_keys')
      /\ UNCHANGED <<now, published, revoked_at>>
  BY DEF Keys!Resolve
<1>2. /\ OneKeySet' /\ LoadedIsRecent'
      /\ next_refresh_at' \in 0 .. LastRefresh + RefreshInterval
      /\ \A k \in UNION signing_keys' :
           k \in Kids /\ (k \in published \/ now < revoked_at[k] + RefreshInterval)
  BY <1>1, KeysInUse
<1>3. /\ NegativesOK' /\ resolved' \in Kids \cup {"unavailable", "refused"}
      /\ resolved' \in Kids => resolved' \in UNION signing_keys'
      /\ kid \in UNION signing_keys' => resolved' = kid
  BY <1>1, <1>2, LookupOK
<1>4. KeysInv'
  BY <1>1, <1>2, <1>3 DEF KeysInv
<1>5. Keys!RevokedKeysStop
  BY <1>2, <1>3 DEF Keys!RevokedKeysStop
<1>6. QED
  BY <1>3, <1>4, <1>5

\* Every step of the issuer and of the resolver.
LEMMA KeysStep ==
    ASSUME KeysInv, Keys!Next
    PROVE  KeysInv' /\ Keys!RevokedKeysStop
<1>1. CASE Keys!Tick
  <2>1. /\ now < LastRefresh /\ now' = now + 1 /\ resolved' = "none"
        /\ UNCHANGED <<published, revoked_at, signing_keys, next_refresh_at, negative_kids, cached>>
    BY <1>1 DEF Keys!Tick
  <2>2. OneKeySet' /\ NegativesOK'
    BY <2>1 DEF KeysInv, OneKeySet, NegativesOK
  <2>3. now' \in 0 .. LastRefresh /\ next_refresh_at' <= now' + RefreshInterval
    BY <2>1, KeyConstants DEF KeysInv, LoadedIsRecent
  <2>4. LoadedIsRecent'
    BY <2>1, <2>3 DEF KeysInv, LoadedIsRecent
  <2>5. QED
    BY <2>1, <2>2, <2>3, <2>4, KeyConstants DEF KeysInv, Keys!RevokedKeysStop
<1>2. CASE Keys!Rotate
  <2>1. /\ resolved' = "none"
        /\ UNCHANGED <<now, signing_keys, next_refresh_at, negative_kids, cached>>
    BY <1>2 DEF Keys!Rotate
  <2>2. /\ published' \subseteq Kids
        /\ revoked_at' = [k \in Kids |-> IF k \in published \ published' THEN now ELSE revoked_at[k]]
    BY <1>2 DEF Keys!Rotate
  <2>3. revoked_at' \in [Kids -> 0 .. LastRefresh]
    BY <2>2 DEF KeysInv
  <2>4. \A k \in UNION signing_keys : k \in Kids
    BY DEF KeysInv, OneKeySet
  <2>5. LoadedIsRecent'
    BY <2>1, <2>2, <2>4 DEF KeysInv, LoadedIsRecent
  <2>6. OneKeySet' /\ NegativesOK'
    BY <2>1 DEF KeysInv, OneKeySet, NegativesOK
  <2>7. QED
    BY <2>1, <2>2, <2>3, <2>5, <2>6, KeyConstants DEF KeysInv, Keys!RevokedKeysStop
<1>3. QED
  BY <1>1, <1>2, ResolveOK DEF Keys!Next
-----------------------------------------------------------------------------
(* The Registry cache and the catalogue. *)

\* The row that search r stores, or stored.
RowOf(r) ==
    [id |-> r, query |-> request[r].search, digest |-> fetched[r].digest,
     fetched_at |-> fetched[r].at]

\* A row, also one a request is looking at, is what a search stored, under its name.
IsStored(row) == pc[row.id] = "stored" /\ row = RowOf(row.id)

CatalogTypes ==
    /\ now \in 0 .. LastSearch
    /\ rows \subseteq Catalog!Row
    /\ lock \in Requests \cup {NoRequest}
    /\ pc \in [Requests -> Catalog!Running \cup Catalog!Over \cup {"cleanup"}]
    /\ request \in [Requests -> Catalog!Request]
    /\ found \in [Requests -> SUBSET Catalog!Row]
    /\ fetched \in [Requests -> [digest : Digests, at : 0 .. LastSearch]]
    /\ deleted \in [Requests -> SUBSET Requests]
    /\ callbacks \in [Requests -> SUBSET Requests]

RowsOK ==
    /\ \A row \in rows : IsStored(row)
    /\ Catalog!OneRowPerQuery
    /\ IsFiniteSet(rows) /\ Cardinality(rows) <= MaxRows

\* What r looks at and deletes was stored, and the row it looks at is one.
LooksAtRows(r) ==
    /\ \A row \in found[r] : IsStored(row)
    /\ \A a, b \in found[r] : a = b
    /\ \A id \in deleted[r] \cup callbacks[r] : pc[id] = "stored"

\* The steps of a search, up to its answer.
Searching == {"unlocked", "relock", "locked", "fetch", "lock", "last", "store", "hit", "stored"}

\* Who adds to a table holds the workspace row, and nothing is left in its view that
\* answers the query it is about to answer, but what it is screening.
LockProtects(r) ==
    /\ pc[r] \in Searching => request[r] \in [search : Queries]
    /\ pc[r] \in {"last", "store", "importing", "import"} => lock = r
    /\ pc[r] = "last" => \A row \in Catalog!View(r) : row.query = request[r].search => row \in found[r]
    /\ pc[r] = "store" => \A row \in Catalog!View(r) : row.query # request[r].search

\* A running request deletes what it rejected, and otherwise only what has expired; one
\* that is over has deleted what it rejected, unless its cleanup failed.
DeletesRejected(r) ==
    /\ pc[r] \in Catalog!Running =>
          /\ callbacks[r] \subseteq deleted[r]
          /\ \A row \in rows : row.id \in deleted[r] => ~Catalog!Fresh(row) \/ row.id \in callbacks[r]
    /\ pc[r] \in Catalog!Over \ {"uncleaned"} => \A row \in rows : row.id \notin callbacks[r]

RequestOK(r) == LooksAtRows(r) /\ LockProtects(r) /\ DeletesRejected(r)

\* The imports that are over.
Imported == {r \in Requests : pc[r] = "imported"}

\* The entry's versions are numbered by imports, without gaps.
VersionsOK ==
    /\ versions \subseteq [sequence : Nat, digest : Digests] /\ IsFiniteSet(versions)
    /\ Cardinality(versions) <= Cardinality(Imported) + 1
    /\ \A v \in versions : v.sequence \in 1 .. Cardinality(versions)
    /\ \A n \in 1 .. Cardinality(versions) : \E v \in versions : v.sequence = n
    /\ \A v, w \in versions : v.digest = w.digest => v = w
    /\ current = Cardinality(versions)

CatalogInv ==
    /\ CatalogTypes /\ RowsOK /\ VersionsOK
    /\ \A r \in Requests : RequestOK(r)

\* The limits, and that counting means the same here and there.
LEMMA CatalogConstants ==
    /\ TTL \in Nat \ {0} /\ LastSearch \in Nat /\ MaxRows \in Nat \ {0}
    /\ NoRequest \notin Requests /\ IsFiniteSet(Requests) /\ Digests # {}
    /\ \A S : Catalog!Cardinality(S) = Cardinality(S)
<1>1. \A S : Catalog!Cardinality(S) = Cardinality(S)
  BY DEF Catalog!Cardinality, Cardinality
<1>2. Catalog!IsFiniteSet(Requests) => IsFiniteSet(Requests)
  BY DEF Catalog!IsFiniteSet, IsFiniteSet
<1>3. QED
  BY <1>1, <1>2, UpstreamAssumption DEF Catalog!CatalogAssumption

\* The invariant is one.
LEMMA CatalogTyped ==
    ASSUME CatalogInv
    PROVE  /\ Catalog!TypeOK /\ Catalog!OneRowPerQuery /\ Catalog!CacheIsBounded
           /\ Catalog!RejectedRowsAreGone /\ Catalog!VersionHistory
<1> USE CatalogConstants
<1>1. Cardinality(Imported) <= Cardinality(Requests) /\ Cardinality(Requests) \in Nat
      /\ Cardinality(Imported) \in Nat /\ Cardinality(versions) \in Nat
  BY FS_Subset, FS_CardinalityType DEF Imported, CatalogInv, VersionsOK
<1>2. versions \subseteq Catalog!Version /\ current \in 0 .. Cardinality(Requests) + 1
  BY <1>1 DEF CatalogInv, VersionsOK, Catalog!Version
<1>3. \A r \in Requests : Cardinality(found[r]) <= 1
  <2> SUFFICES ASSUME NEW r \in Requests PROVE Cardinality(found[r]) <= 1
    OBVIOUS
  <2>1. \A a, b \in found[r] : a = b
    BY DEF CatalogInv, RequestOK, LooksAtRows
  <2>2. found[r] = {} \/ \E x \in found[r] : found[r] = {x}
    BY <2>1
  <2>3. Cardinality(found[r]) = 0 \/ Cardinality(found[r]) = 1
    BY <2>2, FS_EmptySet, FS_Singleton, Zenon
  <2>4. QED
    BY <2>3
<1>4. Catalog!TypeOK
  <2>1. \A r \in Requests : found[r] \subseteq Catalog!Row /\ Catalog!Cardinality(found[r]) <= 1
    BY <1>3 DEF CatalogInv, CatalogTypes
  <2>2. current \in 0 .. Catalog!Cardinality(Requests) + 1
    BY <1>2
  <2>3. QED
    BY <1>2, <2>1, <2>2, Zenon DEF CatalogInv, CatalogTypes, Catalog!TypeOK
<1>5. Catalog!VersionHistory
  <2>1. {v.sequence : v \in versions} = 1 .. Cardinality(versions)
    BY DEF CatalogInv, VersionsOK
  <2>2. QED
    BY <2>1 DEF CatalogInv, VersionsOK, Catalog!VersionHistory
<1>6. QED
  BY <1>4, <1>5 DEF CatalogInv, RowsOK, RequestOK, DeletesRejected, Catalog!CacheIsBounded,
     Catalog!RejectedRowsAreGone

\* No answer is cached at first.
LEMMA CatalogInit == Catalog!Init => CatalogInv
<1> SUFFICES ASSUME Catalog!Init PROVE CatalogInv
  OBVIOUS
<1> USE CatalogConstants
<1>1. (CHOOSE d \in Digests : TRUE) \in Digests
  OBVIOUS
<1>2. CatalogTypes
  BY <1>1 DEF Catalog!Init, CatalogTypes, Catalog!Running, Catalog!Over
<1>3. RowsOK
  BY FS_EmptySet DEF Catalog!Init, RowsOK, Catalog!OneRowPerQuery
<1>4. \A r \in Requests : RequestOK(r)
  BY DEF Catalog!Init, RequestOK, LooksAtRows, LockProtects, DeletesRejected, Searching, Catalog!Over
<1>5. VersionsOK
  <2>1. Imported = {}
    BY DEF Imported, Catalog!Init
  <2>2. Cardinality(Imported) = 0
    BY <2>1, FS_EmptySet
  <2>3. CASE versions = {}
    BY <2>2, <2>3, FS_EmptySet DEF VersionsOK, Catalog!Init
  <2>4. CASE \E d \in Digests : versions = {[sequence |-> 1, digest |-> d]}
    <3>1. PICK d \in Digests : versions = {[sequence |-> 1, digest |-> d]}
      BY <2>4
    <3>2. IsFiniteSet(versions) /\ Cardinality(versions) = 1
      BY <3>1, FS_Singleton
    <3>3. current = 1
      BY <3>2 DEF Catalog!Init
    <3>4. 1 .. 1 = {1}
      OBVIOUS
    <3>5. QED
      BY <3>1, <3>2, <3>3, <3>4, <2>2 DEF VersionsOK
  <2>5. QED
    BY <2>3, <2>4 DEF Catalog!Init
<1>6. QED
  BY <1>2, <1>3, <1>4, <1>5 DEF CatalogInv

\* What a step leaves in place: rows only go, what is stored stays as it was stored, and
\* the requests of Q, which do nothing, are as well off as before.
LEMMA Kept ==
    ASSUME CatalogInv, CatalogTypes', NEW Q \in SUBSET Requests,
           request' = request, rows' \subseteq rows, now' >= now,
           \A id \in Requests : pc[id] = "stored" => pc'[id] = "stored" /\ fetched'[id] = fetched[id],
           \A o \in Q : /\ pc'[o] = pc[o] /\ found'[o] = found[o] /\ deleted'[o] = deleted[o]
                        /\ callbacks'[o] = callbacks[o] /\ (lock = o => lock' = o)
    PROVE  /\ RowsOK'
           /\ \A row \in Catalog!Row : IsStored(row) => IsStored(row)'
           /\ \A o \in Q : RequestOK(o)'
<1> USE CatalogConstants
<1>1. \A row \in Catalog!Row : row.id \in Requests /\ row.fetched_at \in Nat
  BY DEF Catalog!Row
<1>2. \A row \in Catalog!Row : IsStored(row) => IsStored(row)'
  BY <1>1 DEF IsStored, RowOf
<1>3. RowsOK'
  <2>1. IsFiniteSet(rows') /\ Cardinality(rows') <= Cardinality(rows)
        /\ Cardinality(rows) \in Nat /\ Cardinality(rows') \in Nat
    BY FS_Subset, FS_CardinalityType DEF CatalogInv, RowsOK
  <2>2. \A row \in rows' : IsStored(row)'
    BY <1>2 DEF CatalogInv, RowsOK, CatalogTypes
  <2>3. QED
    BY <2>1, <2>2 DEF CatalogInv, RowsOK, Catalog!OneRowPerQuery
<1>4. ASSUME NEW o \in Q PROVE RequestOK(o)'
  <2> USE <1>4
  <2>1. RequestOK(o) /\ found[o] \subseteq Catalog!Row /\ deleted[o] \subseteq Requests
        /\ callbacks[o] \subseteq Requests /\ rows \subseteq Catalog!Row
    BY DEF CatalogInv, CatalogTypes
  <2>2. LooksAtRows(o)'
    BY <2>1, <1>2 DEF RequestOK, LooksAtRows
  <2>3. \A row \in Catalog!View(o)' : row \in Catalog!View(o)
    BY DEF Catalog!View
  <2>4. LockProtects(o)'
    BY <2>1, <2>3 DEF RequestOK, LockProtects
  <2>5. \A row \in Catalog!Row : Catalog!Fresh(row)' => Catalog!Fresh(row)
    BY <1>1 DEF Catalog!Fresh, CatalogInv, CatalogTypes
  <2>6. DeletesRejected(o)'
    <3>1. ASSUME pc[o] \in Catalog!Running
          PROVE  /\ callbacks'[o] \subseteq deleted'[o]
                 /\ \A row \in rows' : row.id \in deleted'[o] =>
                       ~Catalog!Fresh(row)' \/ row.id \in callbacks'[o]
      BY <2>1, <2>5, <3>1 DEF RequestOK, DeletesRejected
    <3>2. ASSUME pc[o] \in Catalog!Over \ {"uncleaned"}
          PROVE  \A row \in rows' : row.id \notin callbacks'[o]
      BY <2>1, <3>2 DEF RequestOK, DeletesRejected
    <3>3. QED
      BY <3>1, <3>2 DEF DeletesRejected, Catalog!Running, Catalog!Over
  <2>7. QED
    BY <2>2, <2>4, <2>6 DEF RequestOK
<1>5. QED
  BY <1>2, <1>3, <1>4

\* As long as nothing is imported, the versions are as they were.
LEMMA VersionsKept ==
    ASSUME CatalogInv, versions' = versions, current' = current,
           \A r \in Requests : pc[r] = "imported" => pc'[r] = "imported"
    PROVE  VersionsOK'
<1>1. Imported \subseteq Imported' /\ IsFiniteSet(Requests) /\ Imported' \subseteq Requests
  BY CatalogConstants DEF Imported
<1>2. IsFiniteSet(Imported')
  BY <1>1, FS_Subset
<1>3. Cardinality(Imported) <= Cardinality(Imported') /\ Cardinality(Imported) \in Nat
      /\ Cardinality(Imported') \in Nat /\ Cardinality(versions) \in Nat
  BY <1>1, <1>2, FS_Subset, FS_CardinalityType DEF CatalogInv, VersionsOK
<1>4. QED
  BY <1>3 DEF CatalogInv, VersionsOK

\* A step of r, when rows only go and nothing is imported: what is left to see.
LEMMA OwnStep ==
    ASSUME CatalogInv, CatalogTypes', NEW r \in Requests, NEW l,
           pc[r] \notin {"stored", "imported"}, pc' = [pc EXCEPT ![r] = l],
           request' = request, rows' \subseteq rows, now' = now,
           versions' = versions, current' = current,
           \A o \in Requests : o # r =>
               /\ found'[o] = found[o] /\ fetched'[o] = fetched[o] /\ deleted'[o] = deleted[o]
               /\ callbacks'[o] = callbacks[o] /\ (lock = o => lock' = o),
           \A row \in found'[r] : IsStored(row),
           \A a, b \in found'[r] : a = b,
           \A id \in deleted'[r] \cup callbacks'[r] : pc[id] = "stored",
           LockProtects(r)', DeletesRejected(r)'
    PROVE  CatalogInv'
<1> DEFINE Q == Requests \ {r}
<1>1. pc \in [Requests -> Catalog!Running \cup Catalog!Over \cup {"cleanup"}] /\ now \in Nat
  BY DEF CatalogInv, CatalogTypes
<1>2. \A o \in Q : /\ pc'[o] = pc[o] /\ found'[o] = found[o] /\ deleted'[o] = deleted[o]
                   /\ callbacks'[o] = callbacks[o] /\ (lock = o => lock' = o)
  BY <1>1
<1>3. \A id \in Requests : pc[id] = "stored" => pc'[id] = "stored" /\ fetched'[id] = fetched[id]
  BY <1>1
<1>4. /\ RowsOK' /\ \A o \in Q : RequestOK(o)'
      /\ \A row \in Catalog!Row : IsStored(row) => IsStored(row)'
  <2>1. now' >= now /\ Q \in SUBSET Requests
    BY <1>1
  <2>2. QED
    BY <1>2, <1>3, <2>1, Kept
<1>5. VersionsOK'
  BY <1>1, VersionsKept
<1>6. LooksAtRows(r)'
  BY <1>3, <1>4 DEF LooksAtRows, CatalogTypes
<1>7. QED
  BY <1>4, <1>5, <1>6 DEF CatalogInv, RequestOK

\* A step that leaves the rows and answers nothing concerns neither action property.
LEMMA Quiet ==
    ASSUME NEW r \in Requests, NEW l, l \notin {"hit", "imported"}, rows' = rows,
           pc \in [Requests -> Catalog!Running \cup Catalog!Over \cup {"cleanup"}],
           pc' = [pc EXCEPT ![r] = l]
    PROVE  Catalog!LiveRowsAreKept /\ Catalog!AnswersAreFresh
BY DEF Catalog!LiveRowsAreKept, Catalog!AnswersAreFresh

\* What a request finds in the cache: at most one live row, and none only if there is none.
LEMMA CachedOK ==
    ASSUME CatalogInv, NEW r \in Requests, NEW seen \in SUBSET rows
    PROVE  /\ Catalog!Cached(r, seen) \subseteq seen
           /\ \A a, b \in Catalog!Cached(r, seen) : a = b
           /\ \A row \in Catalog!Cached(r, seen) : Catalog!Fresh(row)
           /\ \A row \in seen : row.query = request[r].search /\ Catalog!Fresh(row) =>
                 row \in Catalog!Cached(r, seen)
<1>1. \A a, b \in seen : a.query = b.query => a = b
  BY DEF CatalogInv, RowsOK, Catalog!OneRowPerQuery
<1>2. \A row \in seen : row.fetched_at \in Nat
  BY DEF CatalogInv, CatalogTypes, Catalog!Row
<1>3. QED
  BY <1>1, <1>2 DEF Catalog!Cached

\* A request that is not over, as the invariant has it.
LEMMA AtStep ==
    ASSUME CatalogInv, NEW r \in Requests, pc[r] \in Catalog!Running
    PROVE  /\ CatalogTypes /\ LooksAtRows(r) /\ LockProtects(r)
           /\ callbacks[r] \subseteq deleted[r]
           /\ \A row \in rows : row.id \in deleted[r] => ~Catalog!Fresh(row) \/ row.id \in callbacks[r]
           /\ pc[r] \notin {"stored", "imported"}
           /\ \A row \in rows : IsStored(row)
BY DEF CatalogInv, RequestOK, DeletesRejected, RowsOK, Catalog!Running

\* A step of a running request that leaves the tables alone and answers nothing.
LEMMA QuietStep ==
    ASSUME CatalogInv, CatalogTypes', NEW r \in Requests, NEW l,
           pc[r] \in Catalog!Running, l \notin {"hit", "imported"}, pc' = [pc EXCEPT ![r] = l],
           UNCHANGED <<now, rows, versions, current, request>>,
           \A o \in Requests : o # r =>
               /\ found'[o] = found[o] /\ fetched'[o] = fetched[o] /\ deleted'[o] = deleted[o]
               /\ callbacks'[o] = callbacks[o] /\ (lock = o => lock' = o),
           \A row \in found'[r] : IsStored(row),
           \A a, b \in found'[r] : a = b,
           \A id \in deleted'[r] \cup callbacks'[r] : pc[id] = "stored",
           LockProtects(r)', DeletesRejected(r)'
    PROVE  CatalogInv' /\ Catalog!LiveRowsAreKept /\ Catalog!AnswersAreFresh
<1>1. CatalogInv'
  BY AtStep, OwnStep
<1>2. QED
  BY <1>1, AtStep, Quiet DEF CatalogTypes

\* A search reads the cache before it has the lock.
LEMMA ReadUnlockedOK ==
    ASSUME CatalogInv, NEW r \in Requests, Catalog!ReadUnlocked(r)
    PROVE  CatalogInv' /\ Catalog!LiveRowsAreKept /\ Catalog!AnswersAreFresh
<1>1. pc[r] = "begin" /\ pc[r] \in Catalog!Running
  BY DEF Catalog!ReadUnlocked, Catalog!Running
<1>2. PICK hit \in SUBSET rows :
         /\ IF Catalog!Cached(r, rows) = {} THEN hit = {}
            ELSE hit \subseteq Catalog!Cached(r, rows) /\ Catalog!Cardinality(hit) = 1
         /\ found' = [found EXCEPT ![r] = hit]
         /\ Catalog!Goto(r, IF hit = {} THEN "fetch" ELSE "unlocked")
  BY DEF Catalog!ReadUnlocked
<1>3. hit \subseteq Catalog!Cached(r, rows)
  BY <1>2
<1> DEFINE l == IF hit = {} THEN "fetch" ELSE "unlocked"
<1>4. /\ pc' = [pc EXCEPT ![r] = l] /\ l \in {"fetch", "unlocked"}
      /\ UNCHANGED <<now, rows, versions, current, lock, request, fetched, deleted, callbacks>>
  BY <1>2 DEF Catalog!ReadUnlocked, Catalog!Goto
<1> HIDE DEF l
<1>5. CatalogTypes'
  BY <1>1, <1>2, <1>4, AtStep DEF CatalogTypes, Catalog!Running
<1>6. request[r] \in [search : Queries]
  BY <1>1, AtStep DEF Catalog!ReadUnlocked, Catalog!Searches, CatalogTypes, Catalog!Request
<1>7. LockProtects(r)' /\ DeletesRejected(r)'
  BY <1>1, <1>4, <1>6, AtStep DEF LockProtects, DeletesRejected, CatalogTypes, Catalog!Over, Catalog!Fresh
<1>8. /\ \A row \in found'[r] : IsStored(row)
      /\ \A a, b \in found'[r] : a = b
      /\ \A id \in deleted'[r] \cup callbacks'[r] : pc[id] = "stored"
      /\ \A o \in Requests : o # r => found'[o] = found[o]
  BY <1>1, <1>2, <1>3, <1>4, AtStep, CachedOK DEF CatalogTypes, LooksAtRows
<1>9. QED
  BY <1>1, <1>4, <1>5, <1>7, <1>8, QuietStep

\* It rejects what it read there.
LEMMA RejectUnlockedOK ==
    ASSUME CatalogInv, NEW r \in Requests, Catalog!RejectUnlocked(r)
    PROVE  CatalogInv' /\ Catalog!LiveRowsAreKept /\ Catalog!AnswersAreFresh
<1>1. pc[r] = "unlocked" /\ pc[r] \in Catalog!Running /\ "relock" \in Catalog!Running
  BY DEF Catalog!RejectUnlocked, Catalog!Running
<1>2. /\ pc' = [pc EXCEPT ![r] = "relock"]
      /\ UNCHANGED <<now, rows, versions, current, lock, request, found, fetched, deleted, callbacks>>
  BY DEF Catalog!RejectUnlocked, Catalog!Goto
<1>3. CatalogTypes'
  BY <1>1, <1>2, AtStep DEF CatalogTypes
<1>4. LockProtects(r)' /\ DeletesRejected(r)'
  BY <1>1, <1>2, AtStep DEF LockProtects, DeletesRejected, CatalogTypes, Catalog!Over, Catalog!Fresh,
     Searching
<1>5. QED
  BY <1>1, <1>2, <1>3, <1>4, AtStep, QuietStep DEF LooksAtRows

\* It has the lock and reads the cache again.
LEMMA RereadOK ==
    ASSUME CatalogInv, NEW r \in Requests, Catalog!Reread(r)
    PROVE  CatalogInv' /\ Catalog!LiveRowsAreKept /\ Catalog!AnswersAreFresh
<1>1. pc[r] = "relock" /\ pc[r] \in Catalog!Running
  BY DEF Catalog!Reread, Catalog!Running
<1> DEFINE hit == Catalog!Cached(r, rows)
           l == IF found'[r] = {} THEN "fetch" ELSE "locked"
<1>2. /\ pc' = [pc EXCEPT ![r] = l] /\ l \in {"fetch", "locked"} /\ l \in Catalog!Running
      /\ lock \in {NoRequest, r} /\ lock' = r /\ found' = [found EXCEPT ![r] = hit]
      /\ UNCHANGED <<now, rows, versions, current, request, fetched, deleted, callbacks>>
  BY DEF Catalog!Reread, Catalog!Goto, Catalog!TakeLock, Catalog!Running
<1>3. hit \subseteq rows /\ \A a, b \in hit : a = b
  BY CachedOK
<1> HIDE DEF l, hit
<1>4. CatalogTypes'
  BY <1>1, <1>2, <1>3, AtStep DEF CatalogTypes
<1>5. LockProtects(r)' /\ DeletesRejected(r)'
  BY <1>1, <1>2, AtStep DEF LockProtects, DeletesRejected, CatalogTypes, Catalog!Over, Catalog!Fresh,
     Searching
<1>6. /\ \A row \in found'[r] : IsStored(row)
      /\ \A a, b \in found'[r] : a = b
      /\ \A id \in deleted'[r] \cup callbacks'[r] : pc[id] = "stored"
      /\ \A o \in Requests : o # r => found'[o] = found[o] /\ lock # o
  BY <1>1, <1>2, <1>3, AtStep, CatalogConstants DEF CatalogTypes, LooksAtRows
<1>7. QED
  BY <1>1, <1>2, <1>4, <1>5, <1>6, QuietStep

\* It rejects what it read under the lock.
LEMMA RejectLockedOK ==
    ASSUME CatalogInv, NEW r \in Requests, Catalog!RejectLocked(r)
    PROVE  CatalogInv' /\ Catalog!LiveRowsAreKept /\ Catalog!AnswersAreFresh
<1> DEFINE ids == {row.id : row \in found[r]}
           l == IF pc[r] = "locked" THEN "fetch" ELSE "store"
<1>1. pc[r] \in {"locked", "last"} /\ pc[r] \in Catalog!Running
  BY DEF Catalog!RejectLocked, Catalog!Running
<1>2. /\ pc' = [pc EXCEPT ![r] = l] /\ l \in Catalog!Running /\ l \in {"fetch", "store"}
      /\ (l = "store" => pc[r] = "last")
      /\ deleted' = [deleted EXCEPT ![r] = @ \cup ids]
      /\ callbacks' = [callbacks EXCEPT ![r] = @ \cup ids]
      /\ UNCHANGED <<now, rows, versions, current, lock, request, found, fetched>>
  BY <1>1 DEF Catalog!RejectLocked, Catalog!Goto, Catalog!PurgeRejected, Catalog!Running
<1>3. ids \subseteq Requests /\ \A id \in ids : pc[id] = "stored"
  BY <1>1, AtStep DEF CatalogTypes, Catalog!Row, LooksAtRows, IsStored
<1>4. \A row \in found[r] : row.id \in ids
  OBVIOUS
<1> HIDE DEF l, ids
<1>5. CatalogTypes' /\ deleted'[r] = deleted[r] \cup ids /\ callbacks'[r] = callbacks[r] \cup ids
      /\ pc'[r] = l
  BY <1>1, <1>2, <1>3, AtStep DEF CatalogTypes
<1>6. LockProtects(r)'
  <2>1. l = "store" => \A row \in rows : row.id \notin deleted'[r] => row.query # request[r].search
    BY <1>1, <1>2, <1>4, <1>5, AtStep DEF LockProtects, Catalog!View
  <2>2. QED
    BY <1>1, <1>2, <1>5, <2>1, AtStep DEF LockProtects, Catalog!View, Searching
<1>7. DeletesRejected(r)'
  BY <1>1, <1>2, <1>5, AtStep DEF DeletesRejected, Catalog!Over, Catalog!Fresh
<1>8. /\ \A id \in deleted'[r] \cup callbacks'[r] : pc[id] = "stored"
      /\ \A row \in found'[r] : IsStored(row)
      /\ \A a, b \in found'[r] : a = b
      /\ \A o \in Requests : o # r => deleted'[o] = deleted[o] /\ callbacks'[o] = callbacks[o]
  BY <1>1, <1>2, <1>3, <1>5, AtStep DEF CatalogTypes, LooksAtRows
<1>9. l \notin {"hit", "imported"}
  BY <1>2
<1>10. QED
  BY <1>1, <1>2, <1>5, <1>6, <1>7, <1>8, <1>9, QuietStep

\* It asks the Registry.
LEMMA FetchOK ==
    ASSUME CatalogInv, NEW r \in Requests, Catalog!Fetch(r)
    PROVE  CatalogInv' /\ Catalog!LiveRowsAreKept /\ Catalog!AnswersAreFresh
<1>1. pc[r] = "fetch" /\ pc[r] \in Catalog!Running /\ "lock" \in Catalog!Running
  BY DEF Catalog!Fetch, Catalog!Running
<1>2. /\ pc' = [pc EXCEPT ![r] = "lock"]
      /\ UNCHANGED <<now, rows, versions, current, lock, request, found, deleted, callbacks>>
      /\ \E d \in Digests : fetched' = [fetched EXCEPT ![r].digest = d]
  BY DEF Catalog!Fetch, Catalog!Goto
<1>3. CatalogTypes'
  <2>1. fetched' \in [Requests -> [digest : Digests, at : 0 .. LastSearch]]
    BY <1>1, <1>2, AtStep DEF CatalogTypes
  <2>2. pc' \in [Requests -> Catalog!Running \cup Catalog!Over \cup {"cleanup"}]
    BY <1>1, <1>2, AtStep DEF CatalogTypes
  <2>3. QED
    BY <1>1, <1>2, <2>1, <2>2, AtStep, Zenon DEF CatalogTypes
<1>4. LockProtects(r)' /\ DeletesRejected(r)'
  BY <1>1, <1>2, AtStep DEF LockProtects, DeletesRejected, CatalogTypes, Catalog!Over, Catalog!Fresh,
     Searching
<1>5. \A o \in Requests : o # r => fetched'[o] = fetched[o]
  BY <1>1, <1>2, AtStep DEF CatalogTypes
<1>6. QED
  BY <1>1, <1>2, <1>3, <1>4, <1>5, AtStep, QuietStep DEF LooksAtRows

\* _purge_expired_workspace_cache: rows bear different names, so what has expired goes and
\* nothing else does.
LEMMA PurgeExpiredOK ==
    ASSUME CatalogInv, NEW r \in Requests, pc[r] \in Catalog!Running, Catalog!PurgeExpired(r)
    PROVE  /\ deleted' \in [Requests -> SUBSET Requests]
           /\ \A o \in Requests : o # r => deleted'[o] = deleted[o]
           /\ callbacks[r] \subseteq deleted'[r]
           /\ \A id \in deleted'[r] : pc[id] = "stored"
           /\ \A row \in rows : row.id \in deleted'[r] => ~Catalog!Fresh(row) \/ row.id \in callbacks[r]
           /\ \A row \in rows : ~Catalog!Fresh(row) => row.id \in deleted'[r]
           /\ \A row \in rows : row.id \in deleted[r] => row.id \in deleted'[r]
<1> DEFINE old == {x \in rows : ~Catalog!Fresh(x)}
           ids == {row.id : row \in old}
<1>1. deleted' = [deleted EXCEPT ![r] = @ \cup ids]
  BY DEF Catalog!PurgeExpired
<1>2. \A row \in rows : row.id \in Requests /\ pc[row.id] = "stored"
  BY AtStep DEF CatalogTypes, Catalog!Row, IsStored
<1>3. \A a, b \in rows : a.id = b.id => a = b
  BY AtStep DEF IsStored, RowOf
<1>4. /\ ids \subseteq Requests /\ \A id \in ids : pc[id] = "stored"
      /\ \A row \in rows : row.id \in ids <=> ~Catalog!Fresh(row)
  BY <1>2, <1>3
<1> HIDE DEF ids
<1>5. deleted'[r] = deleted[r] \cup ids /\ deleted' \in [Requests -> SUBSET Requests]
      /\ \A o \in Requests : o # r => deleted'[o] = deleted[o]
  BY <1>1, <1>4, AtStep DEF CatalogTypes
<1>6. QED
  BY <1>4, <1>5, AtStep DEF LooksAtRows

\* It reads the cache a last time, before it stores an answer.
LEMMA ReadLastOK ==
    ASSUME CatalogInv, NEW r \in Requests, Catalog!ReadLast(r)
    PROVE  CatalogInv' /\ Catalog!LiveRowsAreKept /\ Catalog!AnswersAreFresh
<1>1. pc[r] = "lock" /\ pc[r] \in Catalog!Running /\ Catalog!PurgeExpired(r)
  BY DEF Catalog!ReadLast, Catalog!Running
<1> DEFINE hit == Catalog!Cached(r, Catalog!View(r))
           l == IF found'[r] = {} THEN "store" ELSE "last"
<1>2. /\ pc' = [pc EXCEPT ![r] = l] /\ l \in {"store", "last"} /\ l \in Catalog!Running
      /\ lock \in {NoRequest, r} /\ lock' = r /\ found' = [found EXCEPT ![r] = hit]
      /\ fetched' = [fetched EXCEPT ![r].at = now]
      /\ UNCHANGED <<now, rows, versions, current, request, callbacks>>
  BY DEF Catalog!ReadLast, Catalog!Goto, Catalog!TakeLock, Catalog!Running
<1>3. Catalog!View(r) \in SUBSET rows
  BY DEF Catalog!View
<1>4. /\ hit \subseteq rows /\ \A a, b \in hit : a = b
      /\ \A row \in Catalog!View(r) : row.query = request[r].search /\ Catalog!Fresh(row) => row \in hit
  BY <1>3, CachedOK
<1>5. found'[r] = hit /\ \A o \in Requests : o # r => found'[o] = found[o]
  BY <1>1, <1>2, AtStep DEF CatalogTypes
<1>6. hit = {} \/ l = "last"
  BY <1>5
<1> HIDE DEF l, hit
<1>7. CatalogTypes'
  <2>1. fetched' \in [Requests -> [digest : Digests, at : 0 .. LastSearch]]
    BY <1>1, <1>2, AtStep DEF CatalogTypes
  <2>2. pc' \in [Requests -> Catalog!Running \cup Catalog!Over \cup {"cleanup"}]
    BY <1>1, <1>2, AtStep DEF CatalogTypes
  <2>3. found' \in [Requests -> SUBSET Catalog!Row] /\ lock' \in Requests \cup {NoRequest}
    BY <1>1, <1>2, <1>4, AtStep DEF CatalogTypes
  <2>4. QED
    BY <1>1, <1>2, <2>1, <2>2, <2>3, AtStep, PurgeExpiredOK, Zenon DEF CatalogTypes
<1>8. \A row \in rows : row.id \notin deleted'[r] /\ row.query = request[r].search => row \in hit
  BY <1>1, <1>4, PurgeExpiredOK DEF Catalog!View
<1>9. pc'[r] = l /\ request[r] \in [search : Queries]
  BY <1>1, <1>2, AtStep DEF CatalogTypes, LockProtects, Searching
<1>10. LockProtects(r)'
  BY <1>2, <1>5, <1>6, <1>8, <1>9 DEF LockProtects, Catalog!View
<1>11. DeletesRejected(r)'
  BY <1>1, <1>2, <1>9, PurgeExpiredOK DEF DeletesRejected, Catalog!Over, Catalog!Fresh
<1>12. /\ \A row \in found'[r] : IsStored(row)
       /\ \A a, b \in found'[r] : a = b
       /\ \A id \in deleted'[r] \cup callbacks'[r] : pc[id] = "stored"
       /\ \A o \in Requests : o # r => found'[o] = found[o] /\ lock # o
  BY <1>1, <1>2, <1>4, <1>5, AtStep, PurgeExpiredOK, CatalogConstants DEF LooksAtRows
<1>13. \A o \in Requests : o # r => fetched'[o] = fetched[o] /\ deleted'[o] = deleted[o]
  BY <1>1, <1>2, AtStep, PurgeExpiredOK DEF CatalogTypes
<1>14. l \notin {"hit", "imported"}
  BY <1>2
<1>15. QED
  BY <1>1, <1>2, <1>7, <1>10, <1>11, <1>12, <1>13, <1>14, QuietStep

\* An import begins.
LEMMA BeginImportOK ==
    ASSUME CatalogInv, NEW r \in Requests, Catalog!BeginImport(r)
    PROVE  CatalogInv' /\ Catalog!LiveRowsAreKept /\ Catalog!AnswersAreFresh
<1>1. /\ pc[r] = "begin" /\ pc[r] \in Catalog!Running /\ "importing" \in Catalog!Running
      /\ Catalog!PurgeExpired(r)
  BY DEF Catalog!BeginImport, Catalog!Running
<1>2. PICK row \in rows : found' = [found EXCEPT ![r] = {row}]
  BY DEF Catalog!BeginImport
<1>3. /\ pc' = [pc EXCEPT ![r] = "importing"] /\ lock \in {NoRequest, r} /\ lock' = r
      /\ UNCHANGED <<now, rows, versions, current, request, fetched, callbacks>>
  BY DEF Catalog!BeginImport, Catalog!Goto, Catalog!TakeLock
<1>4. found'[r] = {row} /\ (\A o \in Requests : o # r => found'[o] = found[o]) /\ pc'[r] = "importing"
  BY <1>1, <1>2, <1>3, AtStep DEF CatalogTypes
<1>5. CatalogTypes'
  BY <1>1, <1>2, <1>3, AtStep, PurgeExpiredOK DEF CatalogTypes
<1>6. LockProtects(r)' /\ DeletesRejected(r)'
  BY <1>1, <1>3, <1>4, PurgeExpiredOK DEF LockProtects, DeletesRejected, Catalog!Over, Catalog!Fresh,
     Searching
<1>7. /\ \A x \in found'[r] : IsStored(x)
      /\ \A a, b \in found'[r] : a = b
      /\ \A id \in deleted'[r] \cup callbacks'[r] : pc[id] = "stored"
      /\ \A o \in Requests : o # r => deleted'[o] = deleted[o] /\ lock # o
  BY <1>1, <1>3, <1>4, AtStep, PurgeExpiredOK, CatalogConstants DEF LooksAtRows
<1>8. QED
  BY <1>1, <1>3, <1>4, <1>5, <1>6, <1>7, QuietStep

\* An import passes the answer it read.
LEMMA AcceptImportOK ==
    ASSUME CatalogInv, NEW r \in Requests, Catalog!AcceptImport(r)
    PROVE  CatalogInv' /\ Catalog!LiveRowsAreKept /\ Catalog!AnswersAreFresh
<1>1. pc[r] = "importing" /\ pc[r] \in Catalog!Running /\ "import" \in Catalog!Running
  BY DEF Catalog!AcceptImport, Catalog!Running
<1>2. /\ pc' = [pc EXCEPT ![r] = "import"]
      /\ UNCHANGED <<now, rows, versions, current, lock, request, found, fetched, deleted, callbacks>>
  BY DEF Catalog!AcceptImport, Catalog!Goto
<1>3. CatalogTypes'
  BY <1>1, <1>2, AtStep DEF CatalogTypes
<1>4. LockProtects(r)' /\ DeletesRejected(r)'
  BY <1>1, <1>2, AtStep DEF LockProtects, DeletesRejected, CatalogTypes, Catalog!Over, Catalog!Fresh,
     Searching
<1>5. QED
  BY <1>1, <1>2, <1>3, <1>4, AtStep, QuietStep DEF LooksAtRows

\* The workspace row, given up by its holder only.
LEMMA UnlockOK ==
    ASSUME NEW r \in Requests, lock \in Requests \cup {NoRequest}, Catalog!Unlock(r)
    PROVE  /\ lock' \in Requests \cup {NoRequest}
           /\ \A o \in Requests : o # r /\ lock = o => lock' = o
BY DEF Catalog!Unlock

\* A request fails and its transaction rolls back.
LEMMA FailOK ==
    ASSUME CatalogInv, NEW r \in Requests, Catalog!Fail(r)
    PROVE  CatalogInv' /\ Catalog!LiveRowsAreKept /\ Catalog!AnswersAreFresh
<1> DEFINE l == IF callbacks[r] = {} THEN "failed" ELSE "cleanup"
<1>1. pc[r] \in Catalog!Running
  BY DEF Catalog!Fail
<1>2. /\ pc' = [pc EXCEPT ![r] = l] /\ l \in {"failed", "cleanup"} /\ (l = "failed" => callbacks[r] = {})
      /\ deleted' = [deleted EXCEPT ![r] = {}] /\ Catalog!Unlock(r)
      /\ UNCHANGED <<now, rows, versions, current, request, found, fetched, callbacks>>
  BY DEF Catalog!Fail, Catalog!Goto
<1> HIDE DEF l
<1>3. /\ CatalogTypes' /\ pc'[r] = l /\ deleted'[r] = {}
      /\ \A o \in Requests : o # r => deleted'[o] = deleted[o] /\ (lock = o => lock' = o)
  BY <1>1, <1>2, AtStep, UnlockOK DEF CatalogTypes, Catalog!Over
<1>4. LockProtects(r)' /\ DeletesRejected(r)'
  BY <1>2, <1>3 DEF LockProtects, DeletesRejected, Catalog!Over, Catalog!Running, Searching
<1>5. /\ \A row \in found'[r] : IsStored(row)
      /\ \A a, b \in found'[r] : a = b
      /\ \A id \in deleted'[r] \cup callbacks'[r] : pc[id] = "stored"
  BY <1>1, <1>2, <1>3, AtStep DEF LooksAtRows
<1>6. l \notin {"hit", "imported"}
  BY <1>2
<1>7. QED
  BY <1>1, <1>2, <1>3, <1>4, <1>5, <1>6, QuietStep

\* An import rejects the answer it read.
LEMMA RejectImportOK ==
    ASSUME CatalogInv, NEW r \in Requests, Catalog!RejectImport(r)
    PROVE  CatalogInv' /\ Catalog!LiveRowsAreKept /\ Catalog!AnswersAreFresh
<1> DEFINE ids == {row.id : row \in found[r]}
<1>1. pc[r] = "importing" /\ pc[r] \in Catalog!Running
  BY DEF Catalog!RejectImport, Catalog!Running
<1>2. /\ pc' = [pc EXCEPT ![r] = "cleanup"] /\ Catalog!Unlock(r)
      /\ deleted' = [deleted EXCEPT ![r] = {}]
      /\ callbacks' = [callbacks EXCEPT ![r] = @ \cup ids]
      /\ UNCHANGED <<now, rows, versions, current, request, found, fetched>>
  BY DEF Catalog!RejectImport, Catalog!Goto
<1>3. ids \subseteq Requests /\ \A id \in ids : pc[id] = "stored"
  BY <1>1, AtStep DEF CatalogTypes, Catalog!Row, LooksAtRows, IsStored
<1> HIDE DEF ids
<1>4. /\ CatalogTypes' /\ pc'[r] = "cleanup" /\ deleted'[r] = {} /\ callbacks'[r] = callbacks[r] \cup ids
      /\ \A o \in Requests : o # r =>
            deleted'[o] = deleted[o] /\ callbacks'[o] = callbacks[o] /\ (lock = o => lock' = o)
  BY <1>1, <1>2, <1>3, AtStep, UnlockOK DEF CatalogTypes
<1>5. LockProtects(r)' /\ DeletesRejected(r)'
  BY <1>2, <1>4 DEF LockProtects, DeletesRejected, Catalog!Over, Catalog!Running, Searching
<1>6. /\ \A row \in found'[r] : IsStored(row)
      /\ \A a, b \in found'[r] : a = b
      /\ \A id \in deleted'[r] \cup callbacks'[r] : pc[id] = "stored"
  BY <1>1, <1>2, <1>3, <1>4, AtStep DEF LooksAtRows
<1>7. QED
  BY <1>1, <1>2, <1>4, <1>5, <1>6, QuietStep

\* Committing takes away only what the request deleted, which had expired or been rejected.
LEMMA CommitOK ==
    ASSUME CatalogInv, NEW r \in Requests, pc[r] \in Catalog!Running
    PROVE  /\ Catalog!View(r) \subseteq rows
           /\ \A row \in rows \ Catalog!View(r) : ~Catalog!Fresh(row) \/ row.id \in callbacks[r]
           /\ \A row \in Catalog!View(r) : row.id \notin callbacks[r]
BY AtStep DEF Catalog!View

\* A search serves the answer it read.
LEMMA AcceptOK ==
    ASSUME CatalogInv, NEW r \in Requests, Catalog!Accept(r)
    PROVE  CatalogInv' /\ Catalog!LiveRowsAreKept /\ Catalog!AnswersAreFresh
<1>1. pc[r] \in {"unlocked", "locked", "last"} /\ pc[r] \in Catalog!Running
  BY DEF Catalog!Accept, Catalog!Running
<1>2. /\ pc' = [pc EXCEPT ![r] = "hit"] /\ rows' = Catalog!View(r) /\ Catalog!Unlock(r)
      /\ \A row \in found[r] : Catalog!Fresh(row)
      /\ UNCHANGED <<now, versions, current, request, found, fetched, deleted, callbacks>>
  BY DEF Catalog!Accept, Catalog!Goto, Catalog!Commit
<1>3. /\ CatalogTypes' /\ pc'[r] = "hit" /\ rows' \subseteq rows
      /\ \A o \in Requests : o # r => (lock = o => lock' = o) /\ pc'[o] = pc[o]
  BY <1>1, <1>2, AtStep, UnlockOK, CommitOK DEF CatalogTypes, Catalog!Over
<1>4. LockProtects(r)'
  BY <1>1, <1>2, <1>3, AtStep DEF LockProtects, Searching
<1>5. DeletesRejected(r)'
  BY <1>1, <1>2, <1>3, CommitOK DEF DeletesRejected, Catalog!Running
<1>6. CatalogInv'
  <2>1. /\ \A row \in found'[r] : IsStored(row)
        /\ \A a, b \in found'[r] : a = b
        /\ \A id \in deleted'[r] \cup callbacks'[r] : pc[id] = "stored"
        /\ pc[r] \notin {"stored", "imported"}
    BY <1>1, <1>2, AtStep DEF LooksAtRows
  <2>2. QED
    BY <1>2, <1>3, <1>4, <1>5, <2>1, OwnStep
<1>7. Catalog!LiveRowsAreKept
  BY <1>1, <1>2, CommitOK DEF Catalog!LiveRowsAreKept
<1>8. Catalog!AnswersAreFresh
  BY <1>2, <1>3 DEF Catalog!AnswersAreFresh
<1>9. QED
  BY <1>6, <1>7, <1>8

\* The cleanup of a rolled back request.
LEMMA CleanupOK ==
    ASSUME CatalogInv, NEW r \in Requests, Catalog!Cleanup(r) \/ Catalog!CleanupFails(r)
    PROVE  CatalogInv' /\ Catalog!LiveRowsAreKept /\ Catalog!AnswersAreFresh
<1> DEFINE l == IF Catalog!Cleanup(r) THEN "failed" ELSE "uncleaned"
<1>1. /\ pc[r] = "cleanup" /\ pc' = [pc EXCEPT ![r] = l] /\ l \in {"failed", "uncleaned"}
      /\ rows' \subseteq rows
      /\ l = "failed" => \A row \in rows' : row.id \notin callbacks[r]
      /\ \A row \in rows \ rows' : row.id \in callbacks[r]
      /\ UNCHANGED <<now, versions, current, lock, request, found, fetched, deleted, callbacks>>
  BY DEF Catalog!Cleanup, Catalog!CleanupFails, Catalog!Goto, Catalog!Cleaned
<1> HIDE DEF l
<1>2. CatalogTypes /\ RequestOK(r)
  BY DEF CatalogInv
<1>3. CatalogTypes' /\ pc'[r] = l /\ \A o \in Requests : o # r => pc'[o] = pc[o]
  BY <1>1, <1>2 DEF CatalogTypes, Catalog!Over
<1>4. LockProtects(r)' /\ DeletesRejected(r)'
  BY <1>1, <1>3 DEF LockProtects, DeletesRejected, Catalog!Over, Catalog!Running, Searching
<1>5. CatalogInv'
  BY <1>1, <1>2, <1>3, <1>4, OwnStep DEF RequestOK, LooksAtRows
<1>6. QED
  BY <1>1, <1>3, <1>5 DEF Catalog!LiveRowsAreKept, Catalog!AnswersAreFresh

\* A search stores what it fetched.
LEMMA StoreOK ==
    ASSUME CatalogInv, NEW r \in Requests, Catalog!Store(r)
    PROVE  CatalogInv' /\ Catalog!LiveRowsAreKept /\ Catalog!AnswersAreFresh
<1> USE CatalogConstants
<1> DEFINE new == RowOf(r)
           kept == Catalog!View(r)
<1>1. pc[r] = "store" /\ pc[r] \in Catalog!Running
  BY DEF Catalog!Store, Catalog!Running
<1>2. /\ pc' = [pc EXCEPT ![r] = "stored"] /\ rows' = kept \cup {new}
      /\ Catalog!Unlock(r) /\ Cardinality(kept) < MaxRows
      /\ UNCHANGED <<now, versions, current, request, found, fetched, deleted, callbacks>>
  BY DEF Catalog!Store, Catalog!Goto, Catalog!Commit, Catalog!HasRoom, RowOf
<1>3. /\ lock = r /\ request[r] \in [search : Queries]
      /\ \A row \in kept : row.query # request[r].search
  BY <1>1, AtStep DEF LockProtects, Searching
<1>4. kept \subseteq rows /\ rows \subseteq Catalog!Row
  BY <1>1, AtStep, CommitOK DEF CatalogTypes
<1>5. new \in Catalog!Row /\ new.id = r /\ new.query = request[r].search
  BY <1>1, <1>3, AtStep DEF CatalogTypes, RowOf, Catalog!Row
<1>6. pc'[r] = "stored" /\ \A o \in Requests : o # r => pc'[o] = pc[o]
  BY <1>1, <1>2, AtStep DEF CatalogTypes
<1>7. \A row \in Catalog!Row : IsStored(row) => IsStored(row)' /\ row.id # r
  BY <1>1, <1>2, <1>6 DEF IsStored, RowOf, Catalog!Row
<1>8. new' = new /\ IsStored(new)'
  BY <1>2, <1>5, <1>6 DEF IsStored, RowOf
<1> HIDE DEF new, kept
<1>9. CatalogTypes'
  BY <1>1, <1>2, <1>4, <1>5, AtStep, UnlockOK DEF CatalogTypes, Catalog!Over
<1>10. RowsOK'
  <2>1. IsFiniteSet(kept)
    BY <1>4, FS_Subset DEF CatalogInv, RowsOK
  <2>2. Cardinality(kept) \in Nat
    BY <2>1, FS_CardinalityType
  <2>3. new \notin kept
    BY <1>3, <1>5
  <2>4. IsFiniteSet(kept \cup {new}) /\ Cardinality(kept \cup {new}) = Cardinality(kept) + 1
    BY <2>1, <2>3, FS_AddElement
  <2>5. IsFiniteSet(rows') /\ Cardinality(rows') <= MaxRows
    BY <1>2, <2>2, <2>4
  <2>6. \A row \in rows' : IsStored(row)'
    BY <1>1, <1>2, <1>4, <1>7, <1>8, AtStep
  <2>7. \A a, b \in rows' : a.query = b.query => a = b
    BY <1>2, <1>3, <1>4, <1>5 DEF CatalogInv, RowsOK, Catalog!OneRowPerQuery
  <2>8. QED
    BY <2>5, <2>6, <2>7 DEF RowsOK, Catalog!OneRowPerQuery
<1>11. ASSUME NEW o \in Requests PROVE RequestOK(o)'
  <2>1. RequestOK(o) /\ found[o] \subseteq Catalog!Row /\ deleted[o] \subseteq Requests
        /\ callbacks[o] \subseteq Requests /\ CatalogTypes
    BY DEF CatalogInv, CatalogTypes
  <2>2. \A id \in deleted[o] \cup callbacks[o] : id # r
    BY <1>1, <2>1 DEF RequestOK, LooksAtRows
  <2>3. LooksAtRows(o)'
    BY <1>2, <1>6, <1>7, <2>1 DEF RequestOK, LooksAtRows
  <2>4. LockProtects(o)'
    <3>1. CASE o = r
      BY <1>2, <1>3, <1>6, <3>1 DEF LockProtects
    <3>2. CASE o # r
      BY <1>2, <1>3, <1>6, <2>1, <3>2 DEF RequestOK, LockProtects
    <3>3. QED
      BY <3>1, <3>2
  <2>5. DeletesRejected(o)'
    <3>1. CASE o = r
      <4>1. \A row \in rows' : row.id \notin callbacks[r]
        BY <1>1, <1>2, <1>5, <2>2, <3>1, CommitOK DEF kept
      <4>2. QED
        BY <1>2, <1>6, <3>1, <4>1 DEF DeletesRejected, Catalog!Running
    <3>2. CASE o # r
      <4>1. \A row \in rows' : row \in rows \/ row.id \notin deleted[o] \cup callbacks[o]
        BY <1>2, <1>4, <1>5, <2>2
      <4>2. QED
        BY <1>2, <1>6, <2>1, <3>2, <4>1 DEF RequestOK, DeletesRejected, Catalog!Fresh
    <3>3. QED
      BY <3>1, <3>2
  <2>6. QED
    BY <2>3, <2>4, <2>5 DEF RequestOK
<1>12. VersionsOK'
  BY <1>1, <1>2, <1>6, VersionsKept
<1>13. CatalogInv'
  BY <1>9, <1>10, <1>11, <1>12 DEF CatalogInv
<1>14. Catalog!LiveRowsAreKept
  BY <1>1, <1>2, CommitOK DEF Catalog!LiveRowsAreKept, kept
<1>15. Catalog!AnswersAreFresh
  BY <1>6 DEF Catalog!AnswersAreFresh
<1>16. QED
  BY <1>13, <1>14, <1>15

\* A version that import_cached appends.
LEMMA Appended ==
    ASSUME VersionsOK, NEW d \in Digests, Catalog!Existing(d) = {}, IsFiniteSet(Imported'),
           Cardinality(Imported') = Cardinality(Imported) + 1, Cardinality(Imported) \in Nat,
           current' = Cardinality(versions) + 1,
           versions' = versions \cup {[sequence |-> current', digest |-> d]}
    PROVE  VersionsOK'
<1> DEFINE n == Cardinality(versions)
           new == [sequence |-> n + 1, digest |-> d]
<1>1. n \in Nat /\ IsFiniteSet(versions)
  BY FS_CardinalityType DEF VersionsOK
<1>2. \A v \in versions : v.digest # d
  BY DEF Catalog!Existing
<1>3. new \notin versions /\ versions' = versions \cup {new}
  BY <1>2
<1>4. IsFiniteSet(versions') /\ Cardinality(versions') = n + 1
  <2>1. IsFiniteSet(versions \cup {new})
        /\ Cardinality(versions \cup {new}) = Cardinality(versions) + 1
    <3> HIDE DEF new, n
    <3>1. QED
      BY <1>1, <1>3, FS_AddElement
  <2>2. QED
    BY <1>3, <2>1, Zenon
<1>5. /\ \A v \in versions : v.sequence \in 1 .. n
      /\ \A k \in 1 .. n : \E v \in versions : v.sequence = k
      /\ \A v, w \in versions : v.digest = w.digest => v = w
      /\ n <= Cardinality(Imported) + 1 /\ versions \subseteq [sequence : Nat, digest : Digests]
  BY DEF VersionsOK
<1>6. new \in [sequence : Nat, digest : Digests] /\ new.sequence = n + 1 /\ new.digest = d
  BY <1>1
<1>7. current' = Cardinality(versions') /\ Cardinality(versions') <= Cardinality(Imported') + 1
  BY <1>1, <1>4, <1>5
<1> HIDE DEF n, new
<1>8. \A v \in versions' : v.sequence \in 1 .. n + 1
  BY <1>1, <1>3, <1>5, <1>6
<1>9. \A k \in 1 .. n + 1 : \E v \in versions' : v.sequence = k
  <2> SUFFICES ASSUME NEW k \in 1 .. n + 1 PROVE \E v \in versions' : v.sequence = k
    OBVIOUS
  <2>1. CASE k = n + 1
    BY <1>3, <1>6, <2>1
  <2>2. CASE k # n + 1
    <3>1. k \in 1 .. n
      BY <1>1, <2>2
    <3>2. QED
      BY <1>3, <1>5, <3>1
  <2>3. QED
    BY <2>1, <2>2
<1>10. \A v, w \in versions' : v.digest = w.digest => v = w
  BY <1>2, <1>3, <1>5, <1>6
<1>11. QED
  BY <1>3, <1>4, <1>5, <1>6, <1>7, <1>8, <1>9, <1>10 DEF VersionsOK

\* An import writes a version.
LEMMA ImportOK ==
    ASSUME CatalogInv, NEW r \in Requests, Catalog!Import(r)
    PROVE  CatalogInv' /\ Catalog!LiveRowsAreKept /\ Catalog!AnswersAreFresh
<1> USE CatalogConstants
<1>1. pc[r] = "import" /\ pc[r] \in Catalog!Running
  BY DEF Catalog!Import, Catalog!Running
<1>2. PICK row \in found[r] :
         /\ Catalog!Fresh(row)
         /\ \/ UNCHANGED <<versions, current>>
            \/ /\ Catalog!Existing(row.digest) = {}
               /\ current' = Cardinality(versions) + 1
               /\ versions' = versions \cup {[sequence |-> current', digest |-> row.digest]}
  BY DEF Catalog!Import
<1>3. /\ pc' = [pc EXCEPT ![r] = "imported"] /\ rows' = Catalog!View(r) /\ Catalog!Unlock(r)
      /\ UNCHANGED <<now, request, found, fetched, deleted, callbacks>>
  BY DEF Catalog!Import, Catalog!Goto, Catalog!Commit
<1>4. /\ CatalogTypes' /\ pc'[r] = "imported" /\ rows' \subseteq rows /\ row.digest \in Digests
      /\ \A o \in Requests : o # r => (lock = o => lock' = o) /\ pc'[o] = pc[o]
  <2>1. found[r] \subseteq Catalog!Row /\ rows \subseteq Catalog!Row /\ rows' \subseteq rows
    BY <1>1, <1>3, AtStep, CommitOK DEF CatalogTypes
  <2>2. QED
    BY <1>1, <1>3, <2>1, AtStep, UnlockOK DEF CatalogTypes, Catalog!Over, Catalog!Row
<1>5. LockProtects(r)' /\ DeletesRejected(r)'
  BY <1>1, <1>3, <1>4, CommitOK DEF LockProtects, DeletesRejected, Catalog!Running, Searching
<1>6. /\ RowsOK' /\ \A o \in Requests \ {r} : RequestOK(o)'
      /\ \A x \in Catalog!Row : IsStored(x) => IsStored(x)'
  <2>1. now' >= now /\ Requests \ {r} \in SUBSET Requests
    BY <1>1, <1>3, AtStep DEF CatalogTypes
  <2>2. \A id \in Requests : pc[id] = "stored" => pc'[id] = "stored" /\ fetched'[id] = fetched[id]
    BY <1>1, <1>3, <1>4
  <2>3. \A o \in Requests \ {r} : /\ pc'[o] = pc[o] /\ found'[o] = found[o] /\ deleted'[o] = deleted[o]
                                  /\ callbacks'[o] = callbacks[o] /\ (lock = o => lock' = o)
    BY <1>3, <1>4
  <2>4. QED
    BY <1>3, <1>4, <2>1, <2>2, <2>3, Kept
<1>7. LooksAtRows(r)'
  BY <1>1, <1>3, <1>4, <1>6, AtStep DEF LooksAtRows, CatalogTypes
<1>8. VersionsOK'
  <2>1. CASE UNCHANGED <<versions, current>>
    BY <1>1, <1>4, <2>1, VersionsKept
  <2>2. CASE /\ Catalog!Existing(row.digest) = {}
             /\ current' = Cardinality(versions) + 1
             /\ versions' = versions \cup {[sequence |-> current', digest |-> row.digest]}
    <3>1. Imported' = Imported \cup {r} /\ r \notin Imported /\ Imported \subseteq Requests
      BY <1>1, <1>4 DEF Imported
    <3>2. IsFiniteSet(Imported)
      BY <3>1, FS_Subset
    <3>3. /\ IsFiniteSet(Imported') /\ Cardinality(Imported') = Cardinality(Imported) + 1
          /\ Cardinality(Imported) \in Nat
      BY <3>1, <3>2, FS_AddElement, FS_CardinalityType
    <3>4. QED
      BY <1>4, <2>2, <3>3, Appended DEF CatalogInv
  <2>3. QED
    BY <1>2, <2>1, <2>2
<1>9. CatalogInv'
  BY <1>4, <1>5, <1>6, <1>7, <1>8 DEF CatalogInv, RequestOK
<1>10. Catalog!LiveRowsAreKept
  BY <1>1, <1>3, CommitOK DEF Catalog!LiveRowsAreKept
<1>11. Catalog!AnswersAreFresh
  <2>1. \A x \in found[r] : Catalog!Fresh(x)
    BY <1>1, <1>2, AtStep DEF LooksAtRows
  <2>2. QED
    BY <1>4, <2>1 DEF Catalog!AnswersAreFresh
<1>12. QED
  BY <1>9, <1>10, <1>11

\* Time and the worker's purge.
LEMMA WorldOK ==
    ASSUME CatalogInv, Catalog!Tick \/ Catalog!WorkerPurge
    PROVE  CatalogInv' /\ Catalog!LiveRowsAreKept /\ Catalog!AnswersAreFresh
<1>1. /\ rows' \subseteq rows /\ \A row \in rows \ rows' : ~Catalog!Fresh(row)
      /\ UNCHANGED <<versions, current, lock, pc, request, found, fetched, deleted, callbacks>>
  BY DEF Catalog!Tick, Catalog!WorkerPurge
<1>2. now' \in 0 .. LastSearch /\ now' >= now
  BY CatalogConstants DEF Catalog!Tick, Catalog!WorkerPurge, CatalogInv, CatalogTypes
<1>3. CatalogTypes'
  BY <1>1, <1>2 DEF CatalogInv, CatalogTypes
<1>4. RowsOK' /\ \A o \in Requests : RequestOK(o)'
  <2>1. /\ \A id \in Requests : pc[id] = "stored" => pc'[id] = "stored" /\ fetched'[id] = fetched[id]
        /\ \A o \in Requests : /\ pc'[o] = pc[o] /\ found'[o] = found[o] /\ deleted'[o] = deleted[o]
                               /\ callbacks'[o] = callbacks[o] /\ (lock = o => lock' = o)
        /\ Requests \in SUBSET Requests
    BY <1>1
  <2>2. QED
    BY <1>1, <1>2, <1>3, <2>1, Kept
<1>5. VersionsOK'
  BY <1>1, VersionsKept
<1>6. QED
  BY <1>1, <1>3, <1>4, <1>5 DEF CatalogInv, Catalog!LiveRowsAreKept, Catalog!AnswersAreFresh

\* Every step of the requests, of time and of the worker.
LEMMA CatalogStep ==
    ASSUME CatalogInv, Catalog!Next
    PROVE  CatalogInv' /\ Catalog!LiveRowsAreKept /\ Catalog!AnswersAreFresh
<1>1. ASSUME NEW r \in Requests, Catalog!Step(r)
      PROVE  CatalogInv' /\ Catalog!LiveRowsAreKept /\ Catalog!AnswersAreFresh
  BY <1>1, ReadUnlockedOK, AcceptOK, RejectUnlockedOK, RereadOK, RejectLockedOK, FetchOK, ReadLastOK,
     StoreOK, BeginImportOK, RejectImportOK, AcceptImportOK, ImportOK, FailOK, CleanupOK
     DEF Catalog!Step
<1>2. QED
  BY <1>1, WorldOK DEF Catalog!Next
-----------------------------------------------------------------------------
(* The paging loops. *)

\* All items of the pages t, in order.
Flat(t) == Paging!FlattenSeq(t)

\* What the definition of FlattenSeq recurs on, for the first k pages of t.
Sums(t, f, k) == f = [i \in 1 .. k |-> IF i = 1 THEN t[i] ELSE f[i - 1] \o t[i]]

\* The sums exist, for any number of pages.
LEMMA SumsExist ==
    ASSUME NEW S, NEW n \in Nat, NEW t \in [1 .. n -> Seq(S)]
    PROVE  \E f \in [1 .. n -> Seq(S)] : Sums(t, f, n)
<1> DEFINE T == {k \in Nat : k <= n => \E f \in [1 .. k -> Seq(S)] : Sums(t, f, k)}
<1>1. 0 \in T
  <2> DEFINE f == [i \in 1 .. 0 |-> << >>]
  <2>1. f \in [1 .. 0 -> Seq(S)] /\ Sums(t, f, 0)
    BY DEF Sums
  <2>2. QED
    BY <2>1
<1>2. ASSUME NEW k \in Nat, k \in T PROVE k + 1 \in T
  <2> SUFFICES ASSUME k + 1 <= n PROVE \E f \in [1 .. k + 1 -> Seq(S)] : Sums(t, f, k + 1)
    OBVIOUS
  <2>1. PICK f \in [1 .. k -> Seq(S)] : Sums(t, f, k)
    BY <1>2
  <2> DEFINE g == [i \in 1 .. k + 1 |-> IF i <= k THEN f[i]
                                         ELSE IF k = 0 THEN t[1] ELSE f[k] \o t[k + 1]]
  <2>2. g \in [1 .. k + 1 -> Seq(S)]
    <3>1. t[1] \in Seq(S) /\ t[k + 1] \in Seq(S)
      OBVIOUS
    <3>2. k # 0 => f[k] \o t[k + 1] \in Seq(S)
      BY <3>1
    <3>3. QED
      BY <3>1, <3>2
  <2>3. ASSUME NEW i \in 1 .. k + 1 PROVE g[i] = IF i = 1 THEN t[i] ELSE g[i - 1] \o t[i]
    <3>1. CASE i <= k
      <4>1. i \in 1 .. k /\ (i # 1 => i - 1 \in 1 .. k /\ i - 1 \in 1 .. k + 1)
        BY <3>1
      <4>2. g[i] = f[i] /\ (i # 1 => g[i - 1] = f[i - 1])
        BY <4>1
      <4>3. f[i] = IF i = 1 THEN t[i] ELSE f[i - 1] \o t[i]
        BY <2>1, <4>1 DEF Sums
      <4>4. QED
        BY <4>1, <4>2, <4>3
    <3>2. CASE i = k + 1 /\ k = 0
      BY <3>2
    <3>3. CASE i = k + 1 /\ k # 0
      <4>1. i - 1 = k /\ k \in 1 .. k + 1 /\ ~(i <= k) /\ i # 1
        BY <3>3
      <4>2. g[i] = f[k] \o t[i] /\ g[k] = f[k]
        BY <3>3, <4>1
      <4>3. QED
        BY <4>1, <4>2
    <3>4. QED
      BY <3>1, <3>2, <3>3
  <2>4. Sums(t, g, k + 1)
    <3> HIDE DEF g
    <3>1. g = [i \in 1 .. k + 1 |-> g[i]]
      BY <2>2
    <3>2. QED
      BY <2>3, <3>1, Zenon DEF Sums
  <2>5. QED
    BY <2>2, <2>4
<1> HIDE DEF T
<1>3. n \in T
  BY <1>1, <1>2, Induction
<1>4. QED
  BY <1>3 DEF T

\* The first m pages are the same.
Same(t, u, m) == \A i \in 1 .. m : t[i] = u[i]

\* They are the same however far they are carried on.
LEMMA SumsAgree ==
    ASSUME NEW n \in Nat, NEW m \in Nat, m <= n, NEW t, NEW u, NEW f, NEW g,
           Same(t, u, m), Sums(t, f, n), Sums(u, g, m)
    PROVE  Same(f, g, m)
<1> DEFINE T == {k \in Nat : \A i \in 1 .. m : i <= k => f[i] = g[i]}
<1>1. 0 \in T
  OBVIOUS
<1>2. ASSUME NEW k \in Nat, k \in T PROVE k + 1 \in T
  <2> SUFFICES ASSUME k + 1 \in 1 .. m PROVE f[k + 1] = g[k + 1]
    BY <1>2
  <2>1. k + 1 \in 1 .. n /\ (k + 1) - 1 = k
    OBVIOUS
  <2>2. f[k + 1] = IF k + 1 = 1 THEN t[k + 1] ELSE f[(k + 1) - 1] \o t[k + 1]
    BY <2>1 DEF Sums
  <2>3. g[k + 1] = IF k + 1 = 1 THEN u[k + 1] ELSE g[(k + 1) - 1] \o u[k + 1]
    BY DEF Sums
  <2>4. k + 1 # 1 => f[k] = g[k]
    BY <1>2
  <2>5. QED
    BY <2>1, <2>2, <2>3, <2>4 DEF Same
<1> HIDE DEF T
<1>3. \A k \in Nat : k \in T
  BY <1>1, <1>2, Induction
<1>4. m \in T
  BY <1>3
<1>5. QED
  BY <1>4 DEF T, Same

\* FlattenSeq is the last of the sums.
LEMMA FlatIs ==
    ASSUME NEW S, NEW n \in Nat \ {0}, NEW t \in [1 .. n -> Seq(S)]
    PROVE  \E f \in [1 .. n -> Seq(S)] : Sums(t, f, n) /\ Flat(t) = f[n]
<1> DEFINE g == CHOOSE h : h = [i \in 1 .. n |-> IF i = 1 THEN t[i] ELSE h[i - 1] \o t[i]]
<1>1. PICK f \in [1 .. n -> Seq(S)] : Sums(t, f, n)
  BY SumsExist
<1>2. Len(t) = n /\ n # 0
  OBVIOUS
<1>3. Flat(t) = g[n]
  BY <1>2 DEF Flat, Paging!FlattenSeq
<1>4. \E h : h = [i \in 1 .. n |-> IF i = 1 THEN t[i] ELSE h[i - 1] \o t[i]]
  BY <1>1, Zenon DEF Sums
<1>5. Sums(t, g, n)
  BY <1>4, Zenon DEF Sums
<1> HIDE DEF g
<1>6. Same(f, g, n)
  BY <1>1, <1>5, SumsAgree DEF Same
<1>7. f[n] = g[n]
  BY <1>6 DEF Same
<1>8. QED
  BY <1>1, <1>3, <1>7, Zenon

\* No pages, no items.
LEMMA FlatNone == ASSUME NEW t, t = [i \in 1 .. 0 |-> t[i]] PROVE Flat(t) = << >>
<1>1. t = << >>
  OBVIOUS
<1>2. QED
  BY <1>1 DEF Flat, Paging!FlattenSeq

\* One more page adds its items at the end.
LEMMA FlatNext ==
    ASSUME NEW S, NEW n \in Nat, NEW t \in [1 .. n + 1 -> Seq(S)], NEW u \in [1 .. n -> Seq(S)],
           \A i \in 1 .. n : u[i] = t[i]
    PROVE  Flat(u) \in Seq(S) /\ t[n + 1] \in Seq(S) /\ Flat(t) = Flat(u) \o t[n + 1]
<1> DEFINE k == n + 1
<1>1. k \in Nat \ {0} /\ k \in Nat /\ t[k] \in Seq(S) /\ k \in 1 .. k /\ k - 1 = n /\ n <= k
      /\ t \in [1 .. k -> Seq(S)] /\ (k = 1 <=> n = 0)
  OBVIOUS
<1>2. SUFFICES Flat(u) \in Seq(S) /\ t[k] \in Seq(S) /\ Flat(t) = Flat(u) \o t[k]
  OBVIOUS
<1> HIDE DEF k
<1>3. PICK f \in [1 .. k -> Seq(S)] : Sums(t, f, k) /\ Flat(t) = f[k]
  BY <1>1, FlatIs
<1>4. f[k] = IF k = 1 THEN t[k] ELSE f[k - 1] \o t[k]
  BY <1>1, <1>3 DEF Sums
<1>5. CASE n = 0
  <2>1. u = << >>
    BY <1>5
  <2>2. Flat(u) = << >>
    BY <2>1 DEF Flat, Paging!FlattenSeq
  <2>3. QED
    BY <1>1, <1>3, <1>4, <1>5, <2>2
<1>6. CASE n # 0
  <2>1. n \in Nat \ {0}
    BY <1>6
  <2>2. PICK g \in [1 .. n -> Seq(S)] : Sums(u, g, n) /\ Flat(u) = g[n]
    BY <2>1, FlatIs
  <2>3. Same(t, u, n)
    BY DEF Same
  <2>4. Same(f, g, n)
    BY <1>1, <1>3, <2>2, <2>3, SumsAgree
  <2>5. f[n] = g[n] /\ g[n] \in Seq(S)
    BY <1>6, <2>2, <2>4 DEF Same
  <2>6. f[k] = f[n] \o t[k]
    BY <1>1, <1>4, <1>6
  <2>7. QED
    BY <1>1, <1>3, <2>2, <2>5, <2>6, Zenon
<1>7. QED
  BY <1>5, <1>6

\* l begins with k.
Continues(l, k, S) == k \in Seq(S) /\ l \in Seq(S) /\ \E r \in Seq(S) : l = k \o r

\* The items of the first pages are the first items.
LEMMA FlatPrefix ==
    ASSUME NEW S, NEW n \in Nat, NEW m \in Nat, n <= m,
           NEW t \in [1 .. m -> Seq(S)], NEW u \in [1 .. n -> Seq(S)],
           Same(u, t, n)
    PROVE  Continues(Flat(t), Flat(u), S)
<1> DEFINE first(k) == [i \in 1 .. k |-> t[i]]
           Grows(k) == n + k <= m =>
                          /\ Flat(first(n + k)) \in Seq(S)
                          /\ \E r \in Seq(S) : Flat(first(n + k)) = Flat(u) \o r
           T == {k \in Nat : Grows(k)}
<1>1. Flat(u) \in Seq(S)
  <2>1. CASE n = 0
    <3>1. u = << >>
      BY <2>1
    <3>2. QED
      BY <3>1 DEF Flat, Paging!FlattenSeq
  <2>2. CASE n # 0
    <3>1. n \in Nat \ {0}
      BY <2>2
    <3>2. PICK f \in [1 .. n -> Seq(S)] : Sums(u, f, n) /\ Flat(u) = f[n]
      BY <3>1, FlatIs
    <3>3. QED
      BY <2>2, <3>2
  <2>3. QED
    BY <2>1, <2>2
<1>2. first(n) = u /\ first(m) = t
  BY DEF Same
<1>3. Grows(0)
  <2>1. first(n + 0) = u
    BY <1>2
  <2>2. << >> \in Seq(S) /\ Flat(u) = Flat(u) \o << >>
    BY <1>1
  <2> HIDE DEF first
  <2>3. QED
    BY <1>1, <2>1, <2>2
<1>4. ASSUME NEW k \in Nat, Grows(k) PROVE Grows(k + 1)
  <2> DEFINE p == n + k
  <2> SUFFICES ASSUME p + 1 <= m
               PROVE  /\ Flat(first(p + 1)) \in Seq(S)
                      /\ \E r \in Seq(S) : Flat(first(p + 1)) = Flat(u) \o r
    <3>1. n + (k + 1) = p + 1
      OBVIOUS
    <3> HIDE DEF first, p
    <3>2. QED
      BY <3>1
  <2>1. p \in Nat /\ p <= m /\ p + 1 \in 1 .. m
    OBVIOUS
  <2>2. Flat(first(p)) \in Seq(S) /\ \E r \in Seq(S) : Flat(first(p)) = Flat(u) \o r
    BY <1>4, <2>1
  <2> HIDE DEF p, Grows
  <2>3. /\ first(p) \in [1 .. p -> Seq(S)] /\ first(p + 1) \in [1 .. p + 1 -> Seq(S)]
        /\ \A i \in 1 .. p : first(p)[i] = first(p + 1)[i]
        /\ first(p + 1)[p + 1] = t[p + 1]
    BY <2>1
  <2> HIDE DEF first
  <2>4. Flat(first(p + 1)) = Flat(first(p)) \o t[p + 1] /\ t[p + 1] \in Seq(S)
    <3> DEFINE x == first(p + 1)
               y == first(p)
    <3>1. x \in [1 .. p + 1 -> Seq(S)] /\ y \in [1 .. p -> Seq(S)] /\ \A i \in 1 .. p : y[i] = x[i]
      BY <2>3
    <3> HIDE DEF x, y
    <3>2. Flat(x) = Flat(y) \o x[p + 1] /\ x[p + 1] \in Seq(S)
      BY <2>1, <3>1, FlatNext
    <3>3. QED
      BY <2>3, <3>2 DEF x, y
  <2>5. PICK r \in Seq(S) : Flat(first(p)) = Flat(u) \o r
    BY <2>2
  <2>6. Flat(first(p + 1)) = Flat(u) \o (r \o t[p + 1])
    <3>1. r \in Seq(S) /\ t[p + 1] \in Seq(S) /\ Flat(u) \in Seq(S)
      BY <1>1, <2>4, <2>5
    <3>2. (Flat(u) \o r) \o t[p + 1] = Flat(u) \o (r \o t[p + 1])
      <4> DEFINE a == Flat(u)
                 c == t[p + 1]
      <4>1. a \in Seq(S) /\ r \in Seq(S) /\ c \in Seq(S)
        BY <3>1
      <4> HIDE DEF a, c
      <4>2. (a \o r) \o c = a \o (r \o c)
        BY <4>1
      <4>3. QED
        BY <4>2 DEF a, c
    <3>3. QED
      BY <2>4, <2>5, <3>2
  <2>7. r \o t[p + 1] \in Seq(S) /\ Flat(first(p)) \o t[p + 1] \in Seq(S)
    BY <2>2, <2>4
  <2>8. QED
    BY <2>4, <2>6, <2>7
<1>5. PICK q \in Nat : n + q = m
  <2>1. m - n \in Nat /\ n + (m - n) = m
    OBVIOUS
  <2>2. QED
    BY <2>1
<1>6. Grows(q)
  <2> HIDE DEF Grows
  <2>1. 0 \in T /\ \A k \in Nat : k \in T => k + 1 \in T
    BY <1>3, <1>4
  <2> HIDE DEF T
  <2>2. \A k \in Nat : k \in T
    BY <2>1, Induction
  <2>3. QED
    BY <1>5, <2>2 DEF T
<1>7. first(n + q) = t /\ n + q <= m
  BY <1>2, <1>5
<1> HIDE DEF first
<1>8. Flat(t) \in Seq(S) /\ \E r \in Seq(S) : Flat(t) = Flat(u) \o r
  BY <1>6, <1>7
<1>9. QED
  BY <1>1, <1>8 DEF Continues

\* What a server may publish.
PublishesPages == upstream \in [Cursors \cup {NoCursor} -> Paging!Page]

\* The cursors a loop follows from the first page: the next one as long as there is one.
Followed(c, n) ==
    /\ c \in [1 .. n -> Cursors \cup {NoCursor}]
    /\ c[1] = NoCursor
    /\ \A i \in 1 .. n - 1 : upstream[c[i]].next = c[i + 1] /\ c[i + 1] # NoCursor

\* The items of the first n pages of c.
Pages(c, n) == [i \in 1 .. n |-> upstream[c[i]].items]

Joined(c, n) == Flat(Pages(c, n))

\* The limits, and what a page is.
LEMMA PagingConstants ==
    /\ NoCursor \notin Cursors /\ PageItems \subseteq Seq(Items)
    /\ MaxPages \in Nat \ {0} /\ MaxItems \in Nat \ {0} /\ MaxBytes \in Nat \ {0}
BY UpstreamAssumption DEF Paging!PagingAssumption

\* A page of the server.
LEMMA PageOK ==
    ASSUME PublishesPages, NEW x \in Cursors \cup {NoCursor}
    PROVE  upstream[x].items \in Seq(Items) /\ upstream[x].next \in Cursors \cup {NoCursor}
BY PagingConstants DEF PublishesPages, Paging!Page

\* Every page that is followed is one the upstream serves.
LEMMA PagesOK ==
    ASSUME PublishesPages, NEW n \in Nat, NEW m \in Nat, m <= n,
           NEW c \in [1 .. n -> Cursors \cup {NoCursor}]
    PROVE  Pages(c, m) \in [1 .. m -> Seq(Items)]
<1>1. \A i \in 1 .. m : c[i] \in Cursors \cup {NoCursor}
  OBVIOUS
<1>2. \A i \in 1 .. m : upstream[c[i]].items \in Seq(Items)
  BY <1>1, PageOK
<1>3. QED
  BY <1>2 DEF Pages

\* One page more.
LEMMA JoinedNext ==
    ASSUME PublishesPages, NEW n \in Nat, NEW c \in [1 .. n + 1 -> Cursors \cup {NoCursor}]
    PROVE  /\ Joined(c, n) \in Seq(Items) /\ upstream[c[n + 1]].items \in Seq(Items)
           /\ Joined(c, n + 1) = Joined(c, n) \o upstream[c[n + 1]].items
<1> DEFINE t == Pages(c, n + 1)
           u == Pages(c, n)
<1>1. n + 1 \in Nat /\ n <= n + 1 /\ n + 1 <= n + 1
  OBVIOUS
<1>2. t \in [1 .. n + 1 -> Seq(Items)] /\ u \in [1 .. n -> Seq(Items)]
  BY <1>1, PagesOK
<1>3. (\A i \in 1 .. n : u[i] = t[i]) /\ t[n + 1] = upstream[c[n + 1]].items
  BY DEF Pages
<1> HIDE DEF t, u
<1>4. Flat(u) \in Seq(Items) /\ t[n + 1] \in Seq(Items) /\ Flat(t) = Flat(u) \o t[n + 1]
  BY <1>2, <1>3, FlatNext
<1>5. QED
  BY <1>3, <1>4 DEF Joined, t, u

\* The pages that two ways of paging begin with, followed by the rest of the longer one.
LEMMA JoinedPrefix ==
    ASSUME PublishesPages, NEW n \in Nat, NEW m \in Nat, n <= m,
           NEW c \in [1 .. n -> Cursors \cup {NoCursor}], NEW d \in [1 .. m -> Cursors \cup {NoCursor}],
           Same(c, d, n)
    PROVE  Continues(Joined(d, m), Joined(c, n), Items)
<1> DEFINE t == Pages(d, m)
           u == Pages(c, n)
<1>1. n <= n /\ m <= m
  OBVIOUS
<1>2. t \in [1 .. m -> Seq(Items)] /\ u \in [1 .. n -> Seq(Items)]
  BY <1>1, PagesOK
<1>3. Same(u, t, n)
  BY DEF Pages, Same
<1> HIDE DEF t, u
<1>4. Continues(Flat(t), Flat(u), Items)
  BY <1>2, <1>3, FlatPrefix
<1>5. QED
  BY <1>4 DEF Joined, t, u

\* There is one way to follow a server's pages.
LEMMA OneWay ==
    ASSUME NEW n \in Nat \ {0}, NEW m \in Nat, n <= m, NEW c, NEW d, Followed(c, n), Followed(d, m)
    PROVE  Same(c, d, n)
<1> DEFINE T == {k \in Nat : \A i \in 1 .. n : i <= k + 1 => c[i] = d[i]}
<1>1. 0 \in T
  BY DEF Followed
<1>2. ASSUME NEW k \in Nat, k \in T PROVE k + 1 \in T
  <2> SUFFICES ASSUME k + 2 \in 1 .. n PROVE c[k + 2] = d[k + 2]
    BY <1>2
  <2>1. k + 1 \in 1 .. n - 1 /\ k + 1 \in 1 .. m - 1 /\ (k + 1) + 1 = k + 2
    OBVIOUS
  <2>2. upstream[c[k + 1]].next = c[k + 2] /\ upstream[d[k + 1]].next = d[k + 2]
    BY <2>1 DEF Followed
  <2>3. c[k + 1] = d[k + 1]
    BY <1>2, <2>1
  <2>4. QED
    BY <2>2, <2>3
<1> HIDE DEF T
<1>3. \A k \in Nat : k \in T
  BY <1>1, <1>2, Induction
<1>4. n \in T
  BY <1>3
<1>5. QED
  BY <1>4 DEF T, Same

\* All pages are at least those that were followed so far.
LEMMA NotShorter ==
    ASSUME NEW k \in Nat \ {0}, NEW m \in Nat \ {0}, NEW c, NEW d, Followed(c, k), Followed(d, m),
           upstream[d[m]].next = NoCursor
    PROVE  k <= m /\ Same(c, d, k)
<1>1. k <= m
  <2> SUFFICES ASSUME m < k PROVE FALSE
    OBVIOUS
  <2>1. Same(d, c, m)
    BY OneWay
  <2>2. d[m] = c[m] /\ m \in 1 .. k - 1
    BY <2>1 DEF Same
  <2>3. QED
    BY <2>2 DEF Followed
<1>2. QED
  BY <1>1, OneWay

\* A cursor seen before never leads to a last page.
LEMMA NoEnd ==
    ASSUME NEW k \in Nat \ {0}, NEW m \in Nat \ {0}, NEW c, NEW d, Followed(c, k), Followed(d, m),
           NEW j \in 2 .. k, upstream[c[k]].next = c[j]
    PROVE  upstream[d[m]].next # NoCursor
<1> DEFINE T == {i \in Nat : i + 1 <= m => \E p \in 1 .. k : d[i + 1] = c[p]}
<1>1. \A p \in 1 .. k : \E q \in 2 .. k : upstream[c[p]].next = c[q]
  <2> SUFFICES ASSUME NEW p \in 1 .. k PROVE \E q \in 2 .. k : upstream[c[p]].next = c[q]
    OBVIOUS
  <2>1. CASE p = k
    BY <2>1
  <2>2. CASE p # k
    <3>1. p \in 1 .. k - 1 /\ p + 1 \in 2 .. k
      BY <2>2
    <3>2. QED
      BY <3>1 DEF Followed
  <2>3. QED
    BY <2>1, <2>2
<1>2. 0 \in T
  <2>1. d[0 + 1] = c[1] /\ 1 \in 1 .. k
    BY DEF Followed
  <2>2. QED
    BY <2>1
<1>3. ASSUME NEW i \in Nat, i \in T PROVE i + 1 \in T
  <2> SUFFICES ASSUME (i + 1) + 1 <= m PROVE \E p \in 1 .. k : d[(i + 1) + 1] = c[p]
    OBVIOUS
  <2>1. i + 1 <= m /\ i + 1 \in 1 .. m - 1
    OBVIOUS
  <2>2. PICK p \in 1 .. k : d[i + 1] = c[p]
    BY <1>3, <2>1
  <2>3. upstream[d[i + 1]].next = d[(i + 1) + 1]
    BY <2>1 DEF Followed
  <2>4. PICK q \in 2 .. k : upstream[c[p]].next = c[q]
    BY <1>1, <2>2
  <2>5. q \in 1 .. k
    BY <2>4
  <2>6. QED
    BY <2>2, <2>3, <2>4, <2>5
<1> HIDE DEF T
<1>4. \A i \in Nat : i \in T
  BY <1>2, <1>3, Induction
<1>5. m - 1 \in T /\ (m - 1) + 1 = m
  BY <1>4
<1>6. PICK p \in 1 .. k : d[m] = c[p]
  BY <1>5 DEF T
<1>7. PICK q \in 2 .. k : upstream[c[p]].next = c[q]
  BY <1>1, <1>6
<1>8. c[q] # NoCursor
  <2>1. q - 1 \in 1 .. k - 1 /\ (q - 1) + 1 = q
    BY <1>7
  <2>2. QED
    BY <2>1 DEF Followed
<1>9. QED
  BY <1>6, <1>7, <1>8

\* The way a loop has come, up to the page it asks for next.
Trail(c) ==
    /\ Followed(c, pages + 1) /\ c[pages + 1] = cursor
    /\ items = Joined(c, pages)
    /\ seen_cursors = {c[i] : i \in 2 .. pages + 1}
    /\ total_bytes = 2 * pages + Len(items)

\* While a loop runs it has all items of the pages it has followed and nothing else.
OnTheWay ==
    /\ \E c \in [1 .. pages + 1 -> Cursors \cup {NoCursor}] : Trail(c)
    /\ pager = "registry" => Paging!IsInjective(items) /\ total_bytes <= MaxBytes

PagingInv ==
    /\ Paging!TypeOK /\ items \in Seq(Items) /\ Paging!WholeOrNothing
    /\ outcome = "running" => OnTheWay

\* The reference: all pages, followed to the last.
LEMMA ListingsAre ==
    ASSUME NEW l
    PROVE  l \in Paging!Listings <=>
              \E n \in 1 .. MaxPages : \E d :
                  /\ Followed(d, n) /\ upstream[d[n]].next = NoCursor
                  /\ l = Joined(d, n) /\ Paging!IsInjective(l)
                  /\ Len(l) <= MaxItems /\ 2 * n + Len(l) <= MaxBytes
<1>1. \A n \in 1 .. MaxPages : \A d :
         d \in Paging!Chain(n) <=> Followed(d, n) /\ upstream[d[n]].next = NoCursor
  BY DEF Paging!Chain, Followed
<1>2. \A n \in 1 .. MaxPages : \A d : Joined(d, n) = Paging!FlattenSeq([i \in 1 .. n |-> upstream[d[i]].items])
  BY DEF Joined, Flat, Pages
<1> DEFINE whole(n) == {Paging!FlattenSeq([i \in 1 .. n |-> upstream[c[i]].items]) : c \in Paging!Chain(n)}
<1>3. l \in Paging!Listings <=>
         \E n \in 1 .. MaxPages : /\ l \in whole(n) /\ Paging!IsInjective(l)
                                  /\ Len(l) <= MaxItems /\ 2 * n + Len(l) <= MaxBytes
  <2>1. l \in Paging!Listings <=>
           l \in UNION {{x \in whole(n) : /\ Paging!IsInjective(x) /\ Len(x) <= MaxItems
                                          /\ 2 * n + Len(x) <= MaxBytes} : n \in 1 .. MaxPages}
    BY DEF Paging!Listings
  <2> HIDE DEF whole
  <2>2. QED
    BY <2>1
<1>4. \A n \in 1 .. MaxPages : l \in whole(n) <=>
         \E d : Followed(d, n) /\ upstream[d[n]].next = NoCursor /\ l = Joined(d, n)
  BY <1>1, <1>2, Zenon
<1> HIDE DEF whole
<1>5. QED
  BY <1>3, <1>4

\* What a listing is, seen from a loop on its way: what it has and what the page it asks
\* for adds, to begin with; and the rest.
LEMMA Beginning ==
    ASSUME PublishesPages, pages \in Nat, NEW c, Trail(c), NEW l \in Paging!Listings
    PROVE  LET page == upstream[cursor] IN
           /\ Continues(l, items \o page.items, Items)
           /\ Paging!IsInjective(l) /\ Len(l) <= MaxItems
           /\ pages + 1 <= MaxPages
           /\ 2 * (pages + 1) + Len(l) <= MaxBytes
           /\ page.next \notin seen_cursors
           /\ page.next = NoCursor => l = items \o page.items
<1> DEFINE k == pages + 1
           page == upstream[cursor]
<1>1. PICK n \in 1 .. MaxPages : \E d :
         /\ Followed(d, n) /\ upstream[d[n]].next = NoCursor
         /\ l = Joined(d, n) /\ Paging!IsInjective(l)
         /\ Len(l) <= MaxItems /\ 2 * n + Len(l) <= MaxBytes
  BY ListingsAre
<1>2. PICK d : /\ Followed(d, n) /\ upstream[d[n]].next = NoCursor
               /\ l = Joined(d, n) /\ Paging!IsInjective(l)
               /\ Len(l) <= MaxItems /\ 2 * n + Len(l) <= MaxBytes
  BY <1>1
<1>3. k \in Nat \ {0} /\ k \in Nat /\ n \in Nat \ {0} /\ n \in Nat /\ MaxPages \in Nat
  BY PagingConstants
<1>4. Followed(c, k) /\ c[k] = cursor
  BY DEF Trail
<1>5. k <= n /\ Same(c, d, k)
  BY <1>2, <1>3, <1>4, NotShorter
<1>6. c \in [1 .. k -> Cursors \cup {NoCursor}] /\ d \in [1 .. n -> Cursors \cup {NoCursor}]
  BY <1>2, <1>4 DEF Followed
<1>7. Joined(c, k) = items \o page.items
  BY <1>4, <1>6, JoinedNext DEF Trail
<1>8. Continues(l, items \o page.items, Items)
  <2> HIDE DEF k
  <2>1. Continues(Joined(d, n), Joined(c, k), Items)
    BY <1>3, <1>5, <1>6, JoinedPrefix
  <2>2. QED
    BY <1>2, <1>7, <2>1
<1>9. page.next \notin seen_cursors
  <2> SUFFICES ASSUME page.next \in seen_cursors PROVE FALSE
    OBVIOUS
  <2>1. PICK j \in 2 .. k : page.next = c[j]
    BY DEF Trail
  <2> HIDE DEF k
  <2>2. QED
    BY <1>2, <1>3, <1>4, <2>1, NoEnd
<1>10. ASSUME page.next = NoCursor PROVE l = items \o page.items
  <2>1. n <= k
    BY <1>2, <1>3, <1>4, <1>10, NotShorter
  <2>2. n = k
    BY <1>3, <1>5, <2>1
  <2>3. Pages(d, n) = Pages(c, k)
    BY <1>5, <2>2 DEF Pages, Same
  <2>4. QED
    BY <1>2, <1>7, <2>3 DEF Joined
<1>11. Len(l) \in Nat
  BY <1>8 DEF Continues
<1>12. k <= MaxPages /\ 2 * k + Len(l) <= MaxBytes
  BY <1>2, <1>3, <1>5, <1>11, PagingConstants
<1>13. QED
  BY <1>2, <1>8, <1>9, <1>10, <1>12

\* A list names nothing twice if its two parts do not, nor anything both.
LEMMA NothingTwice ==
    ASSUME NEW S, NEW a \in Seq(S), NEW b \in Seq(S)
    PROVE  Paging!IsInjective(a \o b) <=>
              /\ Paging!IsInjective(a) /\ Paging!IsInjective(b)
              /\ Paging!ToSet(a) \cap Paging!ToSet(b) = {}
<1> DEFINE l == a \o b
           m == Len(a)
           n == Len(b)
<1>1. /\ m \in Nat /\ n \in Nat /\ DOMAIN a = 1 .. m /\ DOMAIN b = 1 .. n
      /\ DOMAIN l = 1 .. m + n
      /\ \A i \in 1 .. m : l[i] = a[i]
      /\ \A i \in m + 1 .. m + n : l[i] = b[i - m]
  OBVIOUS
<1>2. \A i \in 1 .. n : m + i \in m + 1 .. m + n /\ (m + i) - m = i /\ m + i \in 1 .. m + n
  BY <1>1
<1>3. \A i \in 1 .. n : l[m + i] = b[i]
  BY <1>1, <1>2
<1>4. \A i \in 1 .. m : i \in 1 .. m + n
  BY <1>1
<1> HIDE DEF l, m, n
<1>5. ASSUME Paging!IsInjective(l)
      PROVE  /\ Paging!IsInjective(a) /\ Paging!IsInjective(b)
             /\ Paging!ToSet(a) \cap Paging!ToSet(b) = {}
  <2>1. \A i, j \in 1 .. m + n : l[i] = l[j] => i = j
    BY <1>1, <1>5 DEF Paging!IsInjective
  <2>2. Paging!IsInjective(a)
    BY <1>1, <1>4, <2>1 DEF Paging!IsInjective
  <2>3. Paging!IsInjective(b)
    <3> SUFFICES ASSUME NEW i \in 1 .. n, NEW j \in 1 .. n, b[i] = b[j] PROVE i = j
      BY <1>1 DEF Paging!IsInjective
    <3>1. m + i = m + j
      BY <1>2, <1>3, <2>1
    <3>2. QED
      BY <1>1, <3>1
  <2>4. ASSUME NEW i \in 1 .. m, NEW j \in 1 .. n, a[i] = b[j] PROVE FALSE
    <3>1. i = m + j
      BY <1>1, <1>2, <1>3, <1>4, <2>1, <2>4
    <3>2. QED
      BY <1>1, <3>1
  <2>5. QED
    BY <1>1, <2>2, <2>3, <2>4 DEF Paging!ToSet
<1>6. ASSUME /\ Paging!IsInjective(a) /\ Paging!IsInjective(b)
             /\ Paging!ToSet(a) \cap Paging!ToSet(b) = {}
      PROVE  Paging!IsInjective(l)
  <2>1. \A i, j \in 1 .. m : a[i] = a[j] => i = j
    BY <1>1, <1>6 DEF Paging!IsInjective
  <2>2. \A i, j \in 1 .. n : b[i] = b[j] => i = j
    BY <1>1, <1>6 DEF Paging!IsInjective
  <2>3. \A i \in 1 .. m : \A j \in 1 .. n : a[i] # b[j]
    BY <1>1, <1>6 DEF Paging!ToSet
  <2> SUFFICES ASSUME NEW i \in 1 .. m + n, NEW j \in 1 .. m + n, l[i] = l[j] PROVE i = j
    BY <1>1 DEF Paging!IsInjective
  <2>4. CASE i <= m /\ j <= m
    BY <1>1, <2>1, <2>4
  <2>5. CASE i <= m /\ ~(j <= m)
    <3>1. i \in 1 .. m /\ j \in m + 1 .. m + n /\ j - m \in 1 .. n
      BY <1>1, <2>5
    <3>2. QED
      BY <1>1, <2>3, <3>1
  <2>6. CASE ~(i <= m) /\ j <= m
    <3>1. j \in 1 .. m /\ i \in m + 1 .. m + n /\ i - m \in 1 .. n
      BY <1>1, <2>6
    <3>2. QED
      BY <1>1, <2>3, <3>1
  <2>7. CASE ~(i <= m) /\ ~(j <= m)
    <3>1. i \in m + 1 .. m + n /\ i - m \in 1 .. n /\ j \in m + 1 .. m + n /\ j - m \in 1 .. n
      BY <1>1, <2>7
    <3>2. i - m = j - m
      BY <1>1, <2>2, <3>1
    <3>3. QED
      BY <1>1, <3>1, <3>2
  <2>8. QED
    BY <2>4, <2>5, <2>6, <2>7
<1>7. QED
  BY <1>5, <1>6 DEF l

\* What the whole list satisfies its beginning does.
LEMMA BeginningOK ==
    ASSUME NEW l, NEW k, Continues(l, k, Items), Paging!IsInjective(l)
    PROVE  Paging!IsInjective(k) /\ Len(k) <= Len(l) /\ Len(k) \in Nat /\ Len(l) \in Nat
<1>1. PICK r \in Seq(Items) : l = k \o r
  BY DEF Continues
<1>2. Paging!IsInjective(k \o r) /\ k \in Seq(Items)
  BY <1>1 DEF Continues
<1>3. Paging!IsInjective(k)
  BY <1>2, NothingTwice
<1>4. QED
  BY <1>1, <1>2, <1>3

\* A loop begins before the first page.
LEMMA PagingInit == Paging!Init => PagingInv
<1> SUFFICES ASSUME Paging!Init PROVE PagingInv
  OBVIOUS
<1> USE PagingConstants
<1> DEFINE c == [i \in 1 .. 1 |-> NoCursor]
<1>1. pages = 0 /\ items = << >> /\ cursor = NoCursor /\ seen_cursors = {} /\ total_bytes = 0
      /\ outcome = "running"
  BY DEF Paging!Init
<1>2. Followed(c, 0 + 1) /\ c[0 + 1] = NoCursor
  BY DEF Followed
<1>3. Joined(c, 0) = << >>
  <2>1. Pages(c, 0) = << >>
    BY DEF Pages
  <2>2. QED
    BY <2>1 DEF Joined, Flat, Paging!FlattenSeq
<1>4. {c[i] : i \in 2 .. 0 + 1} = {}
  OBVIOUS
<1>5. Len(items) = 0
  BY <1>1
<1> HIDE DEF c
<1>6. Trail(c)
  BY <1>1, <1>2, <1>3, <1>4, <1>5 DEF Trail
<1>7. Paging!IsInjective(items)
  BY <1>1 DEF Paging!IsInjective
<1>8. OnTheWay
  <2>1. c \in [1 .. pages + 1 -> Cursors \cup {NoCursor}]
    BY <1>6 DEF Trail, Followed
  <2>2. total_bytes <= MaxBytes
    BY <1>1
  <2>3. QED
    BY <1>6, <1>7, <2>1, <2>2 DEF OnTheWay
<1>9. Paging!TypeOK
  <2>1. Paging!ToSet(items) = {}
    BY <1>1 DEF Paging!ToSet
  <2>2. transport \in BOOLEAN
    BY Zenon DEF Paging!Init
  <2>3. pages \in 0 .. MaxPages /\ Len(items) <= MaxItems /\ total_bytes \in Nat
    BY <1>1, <1>5
  <2>4. QED
    BY <1>1, <2>1, <2>2, <2>3, Zenon DEF Paging!Init, Paging!TypeOK
<1>10. QED
  BY <1>1, <1>8, <1>9 DEF PagingInv, Paging!WholeOrNothing

\* The loop goes on to the next page.
LEMMA TurnOK ==
    ASSUME PublishesPages, pages \in Nat, NEW c, Trail(c),
           upstream' = upstream, Paging!Turn(upstream[cursor]), upstream[cursor].next # NoCursor,
           total_bytes' = total_bytes + Paging!PageBytes(upstream[cursor])
    PROVE  \E e \in [1 .. pages' + 1 -> Cursors \cup {NoCursor}] : Trail(e)'
<1> DEFINE page == upstream[cursor]
<1>1. PICK k : k = pages + 1
  OBVIOUS
<1>2. /\ k \in Nat /\ pages' = k /\ items' = items \o page.items /\ cursor' = page.next
      /\ seen_cursors' = seen_cursors \cup {page.next} /\ k - 1 = pages /\ k \in 1 .. k
  BY <1>1 DEF Paging!Turn
<1>3. /\ Followed(c, k) /\ c[k] = cursor /\ items = Joined(c, pages)
      /\ seen_cursors = {c[i] : i \in 2 .. k} /\ total_bytes = 2 * pages + Len(items)
  BY <1>1 DEF Trail
<1>4. c \in [1 .. k -> Cursors \cup {NoCursor}] /\ cursor \in Cursors \cup {NoCursor}
  BY <1>2, <1>3 DEF Followed
<1>5. page.items \in Seq(Items) /\ page.next \in Cursors \cup {NoCursor}
  BY <1>4, PageOK
<1> HIDE DEF page
<1>6. PICK e : e = [i \in 1 .. k + 1 |-> IF i <= k THEN c[i] ELSE page.next]
  OBVIOUS
<1>7. /\ e \in [1 .. k + 1 -> Cursors \cup {NoCursor}] /\ e[k + 1] = page.next
      /\ \A i \in 1 .. k : e[i] = c[i]
  BY <1>2, <1>4, <1>5, <1>6
<1>8. Joined(e, k) = items \o page.items /\ items \in Seq(Items)
  <2>1. Joined(c, pages + 1) = Joined(c, pages) \o upstream[c[pages + 1]].items
        /\ Joined(c, pages) \in Seq(Items)
    BY <1>1, <1>4, JoinedNext
  <2>2. Pages(e, k) = Pages(c, k)
    BY <1>7 DEF Pages
  <2>3. QED
    BY <1>1, <1>3, <2>1, <2>2 DEF Joined, page
<1>9. Followed(e, k + 1)
  <2>1. e[1] = NoCursor
    BY <1>2, <1>3, <1>7 DEF Followed
  <2>2. ASSUME NEW i \in 1 .. (k + 1) - 1
        PROVE  upstream[e[i]].next = e[i + 1] /\ e[i + 1] # NoCursor
    <3>1. CASE i = k
      BY <1>2, <1>3, <1>7, <3>1 DEF page
    <3>2. CASE i # k
      <4>1. i \in 1 .. k - 1 /\ i \in 1 .. k /\ i + 1 \in 1 .. k
        BY <1>2, <3>2
      <4>2. QED
        BY <1>3, <1>7, <4>1 DEF Followed
    <3>3. QED
      BY <3>1, <3>2
  <2>3. QED
    BY <1>7, <2>1, <2>2 DEF Followed
<1>10. {e[i] : i \in 2 .. k + 1} = seen_cursors \cup {page.next}
  <2>1. \A i \in 2 .. k : e[i] = c[i] /\ i \in 2 .. k + 1
    BY <1>2, <1>7
  <2>2. \A i \in 2 .. k + 1 : i \in 2 .. k \/ i = k + 1
    BY <1>2
  <2>3. k + 1 \in 2 .. k + 1
    BY <1>2
  <2>4. QED
    BY <1>3, <1>7, <2>1, <2>2, <2>3
<1>11. total_bytes' = 2 * k + Len(items')
  <2>1. Len(items \o page.items) = Len(items) + Len(page.items) /\ Len(items) \in Nat
        /\ Len(page.items) \in Nat
    BY <1>5, <1>8
  <2>2. total_bytes' = (2 * pages + Len(items)) + (2 + Len(page.items))
    BY <1>3 DEF Paging!PageBytes, page
  <2>3. Len(items') = Len(items) + Len(page.items)
    BY <1>2, <2>1
  <2>4. 2 * k = 2 * pages + 2 /\ 2 * pages \in Nat
    BY <1>1
  <2>5. QED
    BY ONLY <2>1, <2>2, <2>3, <2>4
<1>12. Followed(e, k + 1)' /\ Joined(e, k)' = Joined(e, k)
  BY <1>9 DEF Followed, Joined, Pages, Flat
<1>13. Trail(e)'
  BY <1>2, <1>7, <1>8, <1>10, <1>11, <1>12 DEF Trail
<1>14. QED
  BY <1>2, <1>7, <1>13

\* The page a loop asks for, and what it would have with it.
ThisPage == upstream[cursor]
All == items \o ThisPage.items

\* A loop that runs, and its page.
LEMMA OnAPage ==
    ASSUME PagingInv, outcome = "running"
    PROVE  /\ PublishesPages /\ pages \in Nat /\ pages <= MaxPages /\ total_bytes \in Nat
           /\ items \in Seq(Items) /\ ThisPage.items \in Seq(Items) /\ All \in Seq(Items)
           /\ ThisPage.next \in Cursors \cup {NoCursor}
           /\ Len(All) = Len(items) + Len(ThisPage.items) /\ Len(items) \in Nat /\ Len(ThisPage.items) \in Nat
           /\ pager = "registry" => Paging!IsInjective(items)
           /\ \E c : Trail(c)
<1>1. PublishesPages /\ pages \in Nat /\ pages <= MaxPages /\ total_bytes \in Nat /\ items \in Seq(Items)
      /\ cursor \in Cursors \cup {NoCursor}
  BY PagingConstants DEF PagingInv, Paging!TypeOK, PublishesPages
<1>2. ThisPage.items \in Seq(Items) /\ ThisPage.next \in Cursors \cup {NoCursor}
  BY <1>1, PageOK DEF ThisPage
<1>3. All \in Seq(Items) /\ Len(All) = Len(items) + Len(ThisPage.items)
      /\ Len(items) \in Nat /\ Len(ThisPage.items) \in Nat
  BY <1>1, <1>2 DEF All
<1>4. (pager = "registry" => Paging!IsInjective(items)) /\ \E c : Trail(c)
  BY DEF PagingInv, OnTheWay
<1>5. QED
  BY <1>1, <1>2, <1>3, <1>4

\* The bytes so far and of this page are those of one page more.
LEMMA Weighed ==
    ASSUME PagingInv, outcome = "running", NEW c, Trail(c)
    PROVE  total_bytes + Paging!PageBytes(ThisPage) = 2 * (pages + 1) + Len(All)
<1>1. PICK t, b, p, i, q, a :
         /\ t = total_bytes /\ b = Paging!PageBytes(ThisPage) /\ p = pages /\ i = Len(items)
         /\ q = Len(ThisPage.items) /\ a = Len(All)
  OBVIOUS
<1>2. t = 2 * p + i /\ b = 2 + q /\ a = i + q /\ p \in Nat /\ i \in Nat /\ q \in Nat
  BY <1>1, OnAPage DEF Trail, Paging!PageBytes
<1>3. t + b = 2 * (p + 1) + a
  BY ONLY <1>2
<1>4. QED
  BY ONLY <1>1, <1>3

\* If there is a listing, nothing about this page stands in its way.
LEMMA NothingWrong ==
    ASSUME PagingInv, outcome = "running", Paging!Listings # {}
    PROVE  /\ pages < MaxPages /\ Len(All) <= MaxItems /\ Paging!IsInjective(All)
           /\ total_bytes + Paging!PageBytes(ThisPage) <= MaxBytes
           /\ ThisPage.next \notin seen_cursors
<1>1. PICK c : Trail(c)
  BY OnAPage
<1>2. PICK l \in Paging!Listings : TRUE
  OBVIOUS
<1>3. /\ Continues(l, All, Items)
      /\ Paging!IsInjective(l) /\ Len(l) <= MaxItems
      /\ pages + 1 <= MaxPages
      /\ 2 * (pages + 1) + Len(l) <= MaxBytes
      /\ ThisPage.next \notin seen_cursors
  BY <1>1, <1>2, OnAPage, Beginning DEF All, ThisPage
<1>4. Paging!IsInjective(All) /\ Len(All) <= Len(l) /\ Len(l) \in Nat /\ Len(All) \in Nat
  BY <1>3, BeginningOK
<1>5. total_bytes + Paging!PageBytes(ThisPage) = 2 * (pages + 1) + Len(All)
  BY <1>1, Weighed
<1>6. /\ pages \in Nat /\ MaxPages \in Nat /\ MaxItems \in Nat /\ MaxBytes \in Nat
      /\ Len(All) = Len(items) + Len(ThisPage.items) /\ Len(items) \in Nat /\ Len(ThisPage.items) \in Nat
  BY OnAPage, PagingConstants
<1>7. pages < MaxPages /\ Len(All) <= MaxItems
  BY <1>3, <1>4, <1>6
<1>8. total_bytes + Paging!PageBytes(ThisPage) <= MaxBytes
  <2>1. PICK w, x, y : w = 2 * (pages + 1) /\ x = Len(l) /\ y = Len(All)
    OBVIOUS
  <2>2. w \in Nat /\ x \in Nat /\ y \in Nat /\ w + x <= MaxBytes /\ y <= x
    BY ONLY <1>3, <1>4, <1>6, <2>1
  <2>3. w + y <= MaxBytes
    BY <1>6, <2>2
  <2>4. QED
    BY ONLY <1>5, <2>1, <2>3
<1>9. QED
  BY <1>3, <1>4, <1>7, <1>8

\* The last page, when all is in order, completes the listing.
LEMMA Complete ==
    ASSUME PagingInv, outcome = "running", ThisPage.next = NoCursor,
           pages < MaxPages, Len(All) <= MaxItems, Paging!IsInjective(All),
           total_bytes + Paging!PageBytes(ThisPage) <= MaxBytes
    PROVE  All \in Paging!Listings
<1>1. PICK c : Trail(c)
  BY OnAPage
<1>2. PICK k : k = pages + 1
  OBVIOUS
<1>3. k \in 1 .. MaxPages
  BY <1>2, OnAPage, PagingConstants
<1>4. Followed(c, k) /\ c[k] = cursor
  BY <1>1, <1>2 DEF Trail
<1>5. Joined(c, k) = All
  <2>1. c \in [1 .. pages + 1 -> Cursors \cup {NoCursor}]
    BY <1>2, <1>4 DEF Followed
  <2>2. QED
    BY <1>1, <1>2, <1>4, <2>1, OnAPage, JoinedNext DEF Trail, All, ThisPage
<1>6. 2 * k + Len(All) <= MaxBytes
  BY <1>1, <1>2, Weighed
<1>7. QED
  BY <1>3, <1>4, <1>5, <1>6, ListingsAre DEF ThisPage

\* The reference depends on the server alone.
LEMMA SameListings == ASSUME upstream' = upstream PROVE Paging!Listings' = Paging!Listings
BY DEF Paging!Listings, Paging!Chain

\* The loop fails.
LEMMA StopsOK ==
    ASSUME PagingInv, outcome = "running", Paging!Stop("failed"), UNCHANGED <<upstream, pager>>,
           total_bytes' \in Nat, transport' \in BOOLEAN, transport' = TRUE \/ Paging!Listings = {}
    PROVE  PagingInv'
<1>1. outcome' = "failed" /\ UNCHANGED <<pages, cursor, seen_cursors, items>>
  BY DEF Paging!Stop
<1>2. Paging!TypeOK'
  BY <1>1 DEF PagingInv, Paging!TypeOK
<1>3. Paging!WholeOrNothing'
  <2>1. transport' = TRUE \/ Paging!Listings' = {}
    BY SameListings
  <2>2. QED
    BY <1>1, <2>1 DEF Paging!WholeOrNothing
<1>4. QED
  BY <1>1, <1>2, <1>3 DEF PagingInv

\* A page is taken.
LEMMA TakenOK ==
    ASSUME PagingInv, outcome = "running", Paging!Turn(ThisPage), UNCHANGED <<upstream, pager, transport>>,
           pages < MaxPages, Len(All) <= MaxItems, outcome' \in {"running", "returned", "failed"},
           total_bytes' = total_bytes + Paging!PageBytes(ThisPage)
    PROVE  Paging!TypeOK' /\ items' = All /\ All \in Seq(Items)
<1>1. /\ pages' = pages + 1 /\ items' = All /\ cursor' = ThisPage.next
      /\ seen_cursors' = IF ThisPage.next = NoCursor THEN seen_cursors
                         ELSE seen_cursors \cup {ThisPage.next}
  BY DEF Paging!Turn, All
<1>2. /\ pages' \in 0 .. MaxPages /\ Len(items') <= MaxItems
      /\ cursor' \in Cursors \cup {NoCursor}
  BY <1>1, OnAPage, PagingConstants
<1>3. seen_cursors' \subseteq Cursors
  BY <1>1, OnAPage DEF PagingInv, Paging!TypeOK
<1>4. Paging!ToSet(items') \subseteq Items
  <2>1. items' \in Seq(Items)
    BY <1>1, OnAPage
  <2>2. QED
    BY <2>1 DEF Paging!ToSet
<1>5. total_bytes' \in Nat
  BY OnAPage DEF Paging!PageBytes
<1>6. QED
  BY <1>1, <1>2, <1>3, <1>4, <1>5, OnAPage DEF PagingInv, Paging!TypeOK

\* The loop takes its last page.
LEMMA EndsOK ==
    ASSUME PagingInv, outcome = "running", Paging!Turn(ThisPage), UNCHANGED <<upstream, pager, transport>>,
           pages < MaxPages, Len(All) <= MaxItems, outcome' \in {"returned", "failed"},
           total_bytes' = total_bytes + Paging!PageBytes(ThisPage),
           outcome' = "returned" => All \in Paging!Listings,
           outcome' = "failed" => Paging!Listings = {}
    PROVE  PagingInv'
<1>1. Paging!TypeOK' /\ items' = All /\ All \in Seq(Items)
  BY TakenOK
<1>2. Paging!WholeOrNothing'
  BY <1>1, SameListings DEF Paging!WholeOrNothing
<1>3. QED
  BY <1>1, <1>2 DEF PagingInv

\* The loop takes a page and goes on.
LEMMA MovesOn ==
    ASSUME PagingInv, outcome = "running", Paging!Turn(ThisPage), UNCHANGED <<upstream, pager, transport>>,
           pages < MaxPages, Len(All) <= MaxItems, outcome' = outcome, ThisPage.next # NoCursor,
           total_bytes' = total_bytes + Paging!PageBytes(ThisPage),
           pager = "registry" => Paging!IsInjective(All) /\ total_bytes' <= MaxBytes
    PROVE  PagingInv'
<1>1. Paging!TypeOK' /\ items' = All /\ All \in Seq(Items)
  BY TakenOK
<1>2. PICK c : Trail(c)
  BY OnAPage
<1>3. \E e \in [1 .. pages' + 1 -> Cursors \cup {NoCursor}] : Trail(e)'
  BY <1>2, OnAPage, TurnOK DEF ThisPage
<1>4. OnTheWay'
  BY <1>1, <1>3 DEF OnTheWay
<1>5. QED
  BY <1>1, <1>4 DEF PagingInv, Paging!WholeOrNothing

\* One round of the registry's loop, which looks for repetitions page by page.
LEMMA RegistryPageOK ==
    ASSUME PagingInv, Paging!RegistryPage
    PROVE  PagingInv'
<1>1. /\ outcome = "running" /\ pager = "registry" /\ UNCHANGED <<upstream, pager, transport>>
      /\ transport' \in BOOLEAN
  BY DEF Paging!RegistryPage, PagingInv, Paging!TypeOK
<1>2. Paging!Acceptable(ThisPage) <=>
         /\ total_bytes + Paging!PageBytes(ThisPage) <= MaxBytes
         /\ Paging!IsInjective(All) /\ Len(All) <= MaxItems
  <2>1. Paging!IsInjective(items) /\ items \in Seq(Items) /\ ThisPage.items \in Seq(Items)
        /\ Len(All) = Len(items) + Len(ThisPage.items)
    BY <1>1, OnAPage
  <2>2. Paging!IsInjective(All) <=>
           /\ Paging!IsInjective(items) /\ Paging!IsInjective(ThisPage.items)
           /\ Paging!ToSet(items) \cap Paging!ToSet(ThisPage.items) = {}
    BY <2>1, NothingTwice DEF All
  <2>3. QED
    BY <2>1, <2>2 DEF Paging!Acceptable
<1>3. total_bytes \in Nat /\ total_bytes + Paging!PageBytes(ThisPage) \in Nat /\ pages \in Nat
      /\ pages <= MaxPages /\ MaxPages \in Nat
  BY <1>1, OnAPage, PagingConstants DEF Paging!PageBytes
<1>4. CASE pages = MaxPages
  <2>1. Paging!Stop("failed") /\ total_bytes' = total_bytes
    BY <1>4 DEF Paging!RegistryPage, Paging!Exhausted
  <2>2. Paging!Listings = {}
    BY <1>1, <1>3, <1>4, NothingWrong
  <2>3. QED
    BY <1>1, <1>3, <2>1, <2>2, StopsOK
<1>5. CASE pages # MaxPages
  <2>1. total_bytes' = total_bytes + Paging!PageBytes(ThisPage) /\ total_bytes' \in Nat /\ pages < MaxPages
    BY <1>3, <1>5 DEF Paging!RegistryPage, ThisPage
  <2>2. CASE ~Paging!Acceptable(ThisPage)
    <3>1. Paging!Stop("failed")
      BY <1>5, <2>2 DEF Paging!RegistryPage, ThisPage
    <3>2. Paging!Listings = {}
      BY <1>1, <1>2, <2>2, NothingWrong
    <3>3. QED
      BY <1>1, <2>1, <3>1, <3>2, StopsOK
  <2>3. CASE Paging!Acceptable(ThisPage) /\ ThisPage.next = NoCursor
    <3>1. Paging!Turn(ThisPage) /\ outcome' = "returned"
      BY <1>5, <2>3 DEF Paging!RegistryPage, ThisPage
    <3>2. All \in Paging!Listings
      BY <1>1, <1>2, <2>1, <2>3, Complete
    <3>3. QED
      BY <1>1, <1>2, <2>1, <2>3, <3>1, <3>2, EndsOK
  <2>4. CASE Paging!Acceptable(ThisPage) /\ ThisPage.next # NoCursor /\ ThisPage.next \in seen_cursors
    <3>1. Paging!Stop("failed")
      BY <1>5, <2>4 DEF Paging!RegistryPage, ThisPage
    <3>2. Paging!Listings = {}
      BY <1>1, <2>4, NothingWrong
    <3>3. QED
      BY <1>1, <2>1, <3>1, <3>2, StopsOK
  <2>5. CASE Paging!Acceptable(ThisPage) /\ ThisPage.next # NoCursor /\ ThisPage.next \notin seen_cursors
    <3>1. Paging!Turn(ThisPage) /\ outcome' = outcome
      BY <1>5, <2>5 DEF Paging!RegistryPage, ThisPage
    <3>2. QED
      BY <1>1, <1>2, <2>1, <2>5, <3>1, MovesOn
  <2>6. QED
    BY <2>2, <2>3, <2>4, <2>5
<1>6. QED
  BY <1>4, <1>5

\* One round of the tool loop, which looks for repetitions and weighs at the end.
LEMMA ToolsPageOK ==
    ASSUME PagingInv, Paging!ToolsPage
    PROVE  PagingInv'
<1>1. /\ outcome = "running" /\ pager = "tools" /\ UNCHANGED <<upstream, pager, transport>>
      /\ transport' \in BOOLEAN
  BY DEF Paging!ToolsPage, PagingInv, Paging!TypeOK
<1>2. Paging!TooMany(All) <=> ~(Len(All) <= MaxItems)
  <2>1. Len(All) \in Nat /\ MaxItems \in Nat
    BY <1>1, OnAPage, PagingConstants
  <2>2. QED
    BY <2>1 DEF Paging!TooMany
<1>3. total_bytes \in Nat /\ total_bytes + Paging!PageBytes(ThisPage) \in Nat /\ pages \in Nat
      /\ pages <= MaxPages /\ MaxPages \in Nat
  BY <1>1, OnAPage, PagingConstants DEF Paging!PageBytes
<1>4. CASE pages = MaxPages
  <2>1. Paging!Stop("failed") /\ total_bytes' = total_bytes
    BY <1>4 DEF Paging!ToolsPage, Paging!Exhausted
  <2>2. Paging!Listings = {}
    BY <1>1, <1>3, <1>4, NothingWrong
  <2>3. QED
    BY <1>1, <1>3, <2>1, <2>2, StopsOK
<1>5. CASE pages # MaxPages
  <2>1. total_bytes' = total_bytes + Paging!PageBytes(ThisPage) /\ total_bytes' \in Nat /\ pages < MaxPages
    BY <1>3, <1>5 DEF Paging!ToolsPage, ThisPage
  <2>2. CASE Paging!TooMany(All)
    <3>1. Paging!Stop("failed")
      BY <1>5, <2>2 DEF Paging!ToolsPage, ThisPage, All
    <3>2. Paging!Listings = {}
      BY <1>1, <1>2, <2>2, NothingWrong
    <3>3. QED
      BY <1>1, <2>1, <3>1, <3>2, StopsOK
  <2>3. CASE ~Paging!TooMany(All) /\ ThisPage.next = NoCursor
    <3>1. /\ Paging!Turn(ThisPage)
          /\ outcome' = IF Paging!IsInjective(All) /\ total_bytes' <= MaxBytes THEN "returned" ELSE "failed"
      BY <1>5, <2>3 DEF Paging!ToolsPage, ThisPage, All
    <3>2. outcome' = "returned" => All \in Paging!Listings
      BY <1>1, <1>2, <2>1, <2>3, <3>1, Complete
    <3>3. outcome' = "failed" => Paging!Listings = {}
      BY <1>1, <2>1, <3>1, NothingWrong
    <3>4. QED
      BY <1>1, <1>2, <2>1, <2>3, <3>1, <3>2, <3>3, EndsOK
  <2>4. CASE ~Paging!TooMany(All) /\ ThisPage.next # NoCursor /\ ThisPage.next \in seen_cursors
    <3>1. Paging!Stop("failed")
      BY <1>5, <2>4 DEF Paging!ToolsPage, ThisPage, All
    <3>2. Paging!Listings = {}
      BY <1>1, <2>4, NothingWrong
    <3>3. QED
      BY <1>1, <2>1, <3>1, <3>2, StopsOK
  <2>5. CASE ~Paging!TooMany(All) /\ ThisPage.next # NoCursor /\ ThisPage.next \notin seen_cursors
    <3>1. Paging!Turn(ThisPage) /\ outcome' = outcome
      BY <1>5, <2>5 DEF Paging!ToolsPage, ThisPage, All
    <3>2. QED
      BY <1>1, <1>2, <2>1, <2>5, <3>1, MovesOn
  <2>6. QED
    BY <2>2, <2>3, <2>4, <2>5
<1>6. QED
  BY <1>4, <1>5

\* Every page, whichever loop asks for it.
LEMMA PagingStep ==
    ASSUME PagingInv, Paging!Next
    PROVE  PagingInv'
<1>1. CASE Paging!RegistryPage
  BY <1>1, RegistryPageOK
<1>2. CASE Paging!ToolsPage
  BY <1>2, ToolsPageOK
<1>3. CASE Paging!TransportFails
  <2>1. /\ outcome = "running" /\ Paging!Stop("failed") /\ UNCHANGED <<upstream, pager>>
        /\ total_bytes' \in Nat
    BY <1>3 DEF Paging!TransportFails, PagingInv, Paging!TypeOK
  <2>2. transport' = TRUE
    BY <1>3 DEF Paging!TransportFails
  <2>3. transport' \in BOOLEAN
    BY <2>2, Zenon
  <2>4. QED
    BY <2>1, <2>2, <2>3, StopsOK
<1>4. QED
  BY <1>1, <1>2, <1>3 DEF Paging!Next
-----------------------------------------------------------------------------
(* The search for forbidden bytes. *)

\* What n bytes of x end with: the first k bytes of P.
EndsAt(P, x, n, k) ==
    /\ k \in Nat /\ k <= n /\ k <= Len(P)
    /\ \A j \in 1 .. k : x[n - k + j] = P[j]

\* k is the longest such beginning of P.
Longest(P, x, n, k) ==
    /\ EndsAt(P, x, n, k)
    /\ \A l \in Nat : EndsAt(P, x, n, l) => l <= k

\* P without its first byte: what its i-th beginning ends with, but for itself.
Rest(P) == [j \in 1 .. Len(P) - 1 |-> P[j + 1]]

\* The first m entries of a prefix table are right.
TableOK(P, t, m) == \A i \in 1 .. m : Longest(P, Rest(P), i - 1, t[i])

\* One byte more, matched or not.
LEMMA EndsNext ==
    ASSUME NEW Q, NEW P \in Seq(Q), NEW x, NEW n \in Nat, NEW k \in Nat, k + 1 <= Len(P),
           NEW b, x[n + 1] = b
    PROVE  EndsAt(P, x, n + 1, k + 1) <=> EndsAt(P, x, n, k) /\ b = P[k + 1]
<1>1. Len(P) \in Nat
  OBVIOUS
<1>2. ASSUME EndsAt(P, x, n + 1, k + 1) PROVE EndsAt(P, x, n, k) /\ b = P[k + 1]
  <2>1. k <= n /\ \A j \in 1 .. k + 1 : x[(n + 1) - (k + 1) + j] = P[j]
    BY <1>2 DEF EndsAt
  <2>2. \A j \in 1 .. k : j \in 1 .. k + 1 /\ (n + 1) - (k + 1) + j = n - k + j
    OBVIOUS
  <2>3. k + 1 \in 1 .. k + 1 /\ (n + 1) - (k + 1) + (k + 1) = n + 1
    OBVIOUS
  <2>4. b = P[k + 1]
    BY <2>1, <2>3
  <2>5. \A j \in 1 .. k : x[n - k + j] = P[j]
    BY <2>1, <2>2
  <2>6. k <= Len(P)
    BY <1>1
  <2>7. QED
    BY <2>1, <2>4, <2>5, <2>6, Zenon DEF EndsAt
<1>3. ASSUME EndsAt(P, x, n, k), b = P[k + 1] PROVE EndsAt(P, x, n + 1, k + 1)
  <2>1. k <= n /\ \A j \in 1 .. k : x[n - k + j] = P[j]
    BY <1>3 DEF EndsAt
  <2>2. ASSUME NEW j \in 1 .. k + 1 PROVE x[(n + 1) - (k + 1) + j] = P[j]
    <3>1. CASE j = k + 1
      <4>1. (n + 1) - (k + 1) + j = n + 1
        BY <3>1
      <4>2. QED
        BY <1>3, <3>1, <4>1
    <3>2. CASE j # k + 1
      <4>1. j \in 1 .. k /\ (n + 1) - (k + 1) + j = n - k + j
        BY <3>2
      <4>2. QED
        BY <2>1, <4>1
    <3>3. QED
      BY <3>1, <3>2
  <2>3. QED
    BY <1>1, <2>1, <2>2 DEF EndsAt
<1>4. QED
  BY <1>2, <1>3

\* What is shorter than a match is found at the end of the match itself.
LEMMA EndsShorter ==
    ASSUME NEW Q, NEW P \in Seq(Q), NEW x, NEW n \in Nat, NEW m, EndsAt(P, x, n, m),
           NEW k \in Nat, k < m
    PROVE  EndsAt(P, x, n, k) <=> EndsAt(P, Rest(P), m - 1, k)
<1>1. /\ Len(P) \in Nat /\ m \in Nat /\ m <= n /\ m <= Len(P)
      /\ \A j \in 1 .. m : x[n - m + j] = P[j]
  BY DEF EndsAt
<1>2. \A j \in 1 .. k : x[n - k + j] = Rest(P)[(m - 1) - k + j]
  <2> SUFFICES ASSUME NEW j \in 1 .. k PROVE x[n - k + j] = Rest(P)[(m - 1) - k + j]
    OBVIOUS
  <2>1. (m - k) + j \in 1 .. m /\ n - m + ((m - k) + j) = n - k + j
    BY <1>1
  <2>2. (m - 1) - k + j \in 1 .. Len(P) - 1 /\ ((m - 1) - k + j) + 1 = (m - k) + j
    BY <1>1
  <2>3. x[n - k + j] = P[(m - k) + j]
    BY <1>1, <2>1
  <2>4. Rest(P)[(m - 1) - k + j] = P[(m - k) + j]
    BY <2>2 DEF Rest
  <2>5. QED
    BY <2>3, <2>4
<1>3. k <= n /\ k <= m - 1 /\ k <= Len(P)
  BY <1>1
<1>4. QED
  BY <1>2, <1>3 DEF EndsAt

\* What the loop that falls back returns, for each number of matched bytes.
Falls(P, t, b, f, m) ==
    f = [k \in 0 .. m |-> IF k = 0 \/ b = P[k + 1] THEN k ELSE f[t[k]]]

\* Falling back ends: the table always leads to less.
LEMMA FallExists ==
    ASSUME NEW P, NEW t, NEW b, NEW m \in Nat, \A k \in 1 .. m : t[k] \in 0 .. k - 1
    PROVE  \E f : Falls(P, t, b, f, m)
<1> DEFINE T == {n \in Nat : n <= m => \E f : Falls(P, t, b, f, n)}
<1>1. 0 \in T
  <2>1. Falls(P, t, b, [k \in 0 .. 0 |-> 0], 0)
    BY DEF Falls
  <2>2. QED
    BY <2>1
<1>2. ASSUME NEW n \in Nat, n \in T PROVE n + 1 \in T
  <2> SUFFICES ASSUME n + 1 <= m PROVE \E f : Falls(P, t, b, f, n + 1)
    OBVIOUS
  <2>1. PICK f : Falls(P, t, b, f, n)
    BY <1>2
  <2> DEFINE g == [k \in 0 .. n + 1 |-> IF k <= n THEN f[k]
                                         ELSE IF b = P[k + 1] THEN k ELSE f[t[k]]]
  <2>2. ASSUME NEW k \in 0 .. n + 1
        PROVE  g[k] = IF k = 0 \/ b = P[k + 1] THEN k ELSE g[t[k]]
    <3>1. k # 0 => t[k] \in 0 .. n /\ t[k] \in 0 .. n + 1 /\ t[k] <= n
      BY <2>2
    <3>2. k # 0 => g[t[k]] = f[t[k]]
      BY <3>1
    <3>3. CASE k <= n
      <4>1. f[k] = IF k = 0 \/ b = P[k + 1] THEN k ELSE f[t[k]]
        BY <2>1, <3>3 DEF Falls
      <4>2. g[k] = f[k]
        BY <3>3
      <4>3. QED
        BY <3>2, <4>1, <4>2
    <3>4. CASE ~(k <= n)
      <4>1. g[k] = IF b = P[k + 1] THEN k ELSE f[t[k]]
        BY <3>4
      <4>2. k # 0
        BY <3>4
      <4>3. QED
        BY <3>2, <4>1, <4>2
    <3>5. QED
      BY <3>3, <3>4
  <2>3. g = [k \in 0 .. n + 1 |-> g[k]]
    OBVIOUS
  <2> HIDE DEF g
  <2>4. Falls(P, t, b, g, n + 1)
    BY <2>2, <2>3, Zenon DEF Falls
  <2>5. QED
    BY <2>4
<1> HIDE DEF T
<1>3. m \in T
  BY <1>1, <1>2, Induction
<1>4. QED
  BY <1>3 DEF T

\* r is the longest match, of k bytes at most, that the byte b may continue.
Continued(P, x, n, b, k, r) ==
    /\ r \in 0 .. k
    /\ EndsAt(P, x, n, r)
    /\ r = 0 \/ b = P[r + 1]
    /\ \A l \in 0 .. k : EndsAt(P, x, n, l) /\ b = P[l + 1] => l <= r

\* What an entry of the table says.
LEMMA EntryOK ==
    ASSUME NEW Q, NEW P \in Seq(Q), NEW t, NEW m \in Nat, TableOK(P, t, m), NEW k \in 1 .. m
    PROVE  /\ t[k] \in Nat /\ t[k] <= k - 1 /\ t[k] \in 0 .. k - 1
           /\ EndsAt(P, Rest(P), k - 1, t[k])
           /\ \A l \in Nat : EndsAt(P, Rest(P), k - 1, l) => l <= t[k]
<1>1. Longest(P, Rest(P), k - 1, t[k])
  BY DEF TableOK
<1>2. EndsAt(P, Rest(P), k - 1, t[k]) /\ \A l \in Nat : EndsAt(P, Rest(P), k - 1, l) => l <= t[k]
  BY <1>1 DEF Longest
<1>3. t[k] \in Nat /\ t[k] <= k - 1
  BY <1>2 DEF EndsAt
<1>4. QED
  BY <1>2, <1>3

\* The loop falls back to it.
LEMMA FallOK ==
    ASSUME NEW Q, NEW P \in Seq(Q), NEW t, NEW m \in Nat, TableOK(P, t, m),
           NEW x, NEW n \in Nat, NEW b, NEW f, Falls(P, t, b, f, m)
    PROVE  \A k \in 0 .. m : EndsAt(P, x, n, k) => Continued(P, x, n, b, k, f[k])
<1> DEFINE T == {k \in Nat : k <= m /\ EndsAt(P, x, n, k) => Continued(P, x, n, b, k, f[k])}
<1>1. ASSUME NEW k \in Nat, \A j \in Nat : j < k => j \in T PROVE k \in T
  <2> SUFFICES ASSUME k <= m, EndsAt(P, x, n, k) PROVE Continued(P, x, n, b, k, f[k])
    OBVIOUS
  <2>1. f[k] = IF k = 0 \/ b = P[k + 1] THEN k ELSE f[t[k]]
    <3>1. k \in 0 .. m
      OBVIOUS
    <3>2. QED
      BY ONLY <3>1, Falls(P, t, b, f, m) DEF Falls
  <2>2. CASE k = 0 \/ b = P[k + 1]
    <3>1. f[k] = k
      BY <2>1, <2>2
    <3>2. k \in 0 .. k /\ \A l \in 0 .. k : l <= k
      OBVIOUS
    <3>3. Continued(P, x, n, b, k, k)
      BY <2>2, <3>2, Zenon DEF Continued
    <3>4. QED
      BY <3>1, <3>3
  <2>3. CASE ~(k = 0 \/ b = P[k + 1])
    <3>1. k \in 1 .. m
      BY <2>3
    <3>2. PICK s : s = t[k]
      OBVIOUS
    <3>3. /\ s \in Nat /\ s <= k - 1 /\ s < k /\ EndsAt(P, Rest(P), k - 1, s)
          /\ \A l \in Nat : EndsAt(P, Rest(P), k - 1, l) => l <= s
      BY <3>1, <3>2, EntryOK
    <3>4. EndsAt(P, x, n, s)
      BY <3>3, EndsShorter
    <3>5. Continued(P, x, n, b, s, f[s])
      BY <1>1, <3>3, <3>4
    <3>6. PICK r : r = f[s]
      OBVIOUS
    <3>7. /\ r \in 0 .. s /\ EndsAt(P, x, n, r) /\ (r = 0 \/ b = P[r + 1])
          /\ \A l \in 0 .. s : EndsAt(P, x, n, l) /\ b = P[l + 1] => l <= r
      BY <3>5, <3>6 DEF Continued
    <3>8. ASSUME NEW l \in 0 .. k, EndsAt(P, x, n, l), b = P[l + 1] PROVE l <= r
      <4>1. l # k
        BY <2>3, <3>8
      <4>2. l \in Nat /\ l < k
        BY <4>1
      <4>3. EndsAt(P, Rest(P), k - 1, l)
        BY <3>8, <4>2, EndsShorter
      <4>4. l <= s
        BY <3>3, <4>2, <4>3
      <4>5. l \in 0 .. s
        BY <3>3, <4>2, <4>4
      <4>6. QED
        BY <3>7, <3>8, <4>5
    <3>9. r \in 0 .. k
      BY <3>3, <3>7
    <3>10. Continued(P, x, n, b, k, r)
      BY <3>7, <3>8, <3>9, Zenon DEF Continued
    <3>11. f[k] = r
      BY <2>1, <2>3, <3>2, <3>6
    <3>12. QED
      BY <3>10, <3>11
  <2>4. QED
    BY <2>2, <2>3
<1> HIDE DEF T
<1>2. \A k \in Nat : k \in T
  BY <1>1, StrongInduction
<1>3. QED
  BY <1>2 DEF T

\* One byte: the matcher holds what the text now ends with, and the longest of
\* it when it held the longest before.
LEMMA AdvanceOK ==
    ASSUME NEW Q, NEW P \in Seq(Q), NEW t, NEW m \in Nat, m < Len(P), TableOK(P, t, m),
           NEW x, NEW n \in Nat, NEW b, x[n + 1] = b, EndsAt(P, x, n, m)
    PROVE  /\ Matcher!Advance(P, t, m, b) \in 0 .. m + 1
           /\ EndsAt(P, x, n + 1, Matcher!Advance(P, t, m, b))
           /\ Longest(P, x, n, m) => Longest(P, x, n + 1, Matcher!Advance(P, t, m, b))
<1>1. \A k \in 1 .. m : t[k] \in 0 .. k - 1
  BY EntryOK
<1>2. \E f : Falls(P, t, b, f, m)
  BY <1>1, FallExists
<1> DEFINE f == CHOOSE g : Falls(P, t, b, g, m)
<1> DEFINE a == IF b = P[f[m] + 1] THEN f[m] + 1 ELSE f[m]
<1>3. Matcher!Advance(P, t, m, b) = a
  BY DEF Falls, Matcher!Advance
<1>4. Falls(P, t, b, f, m)
  BY <1>2
<1> HIDE DEF f
<1>5. PICK r : r = f[m]
  OBVIOUS
<1>6. Continued(P, x, n, b, m, r)
  <2>1. m \in 0 .. m
    OBVIOUS
  <2>2. QED
    BY <1>4, <1>5, <2>1, FallOK
<1>7. /\ r \in 0 .. m /\ r \in Nat /\ r + 1 <= Len(P) /\ EndsAt(P, x, n, r) /\ (r = 0 \/ b = P[r + 1])
      /\ \A l \in 0 .. m : EndsAt(P, x, n, l) /\ b = P[l + 1] => l <= r
  BY <1>6 DEF Continued
<1>8. PICK e : e = IF b = P[r + 1] THEN r + 1 ELSE r
  OBVIOUS
<1>9. a = e
  BY <1>5, <1>8
<1>10. e \in 0 .. m + 1
  BY <1>7, <1>8
<1>11. EndsAt(P, x, n + 1, e)
  <2>1. CASE b = P[r + 1]
    <3>1. e = r + 1
      BY <1>8, <2>1
    <3>2. EndsAt(P, x, n + 1, r + 1)
      BY <1>7, <2>1, EndsNext
    <3>3. QED
      BY <3>1, <3>2
  <2>2. CASE b # P[r + 1]
    <3>1. r = 0 /\ e = 0
      BY <1>7, <1>8, <2>2
    <3>2. EndsAt(P, x, n + 1, 0)
      BY DEF EndsAt
    <3>3. QED
      BY <3>1, <3>2
  <2>3. QED
    BY <2>1, <2>2
<1>12. ASSUME Longest(P, x, n, m) PROVE Longest(P, x, n + 1, e)
  <2>1. ASSUME NEW k \in Nat, EndsAt(P, x, n + 1, k + 1) PROVE k + 1 <= e
    <3>1. k + 1 <= Len(P)
      BY <2>1 DEF EndsAt
    <3>2. EndsAt(P, x, n, k) /\ b = P[k + 1]
      BY <2>1, <3>1, EndsNext
    <3>3. k <= m
      BY <1>12, <3>2 DEF Longest
    <3>4. k \in 0 .. m /\ b = P[k + 1]
      BY <3>2, <3>3
    <3>5. k <= r
      BY <1>7, <3>2, <3>4
    <3>6. b = P[r + 1]
      BY <1>7, <3>4, <3>5
    <3>7. QED
      BY <1>7, <1>8, <3>5, <3>6
  <2>2. ASSUME NEW l \in Nat, EndsAt(P, x, n + 1, l) PROVE l <= e
    <3>1. CASE l = 0
      BY <1>10, <3>1
    <3>2. CASE l # 0
      <4>1. l - 1 \in Nat /\ l = (l - 1) + 1
        BY <3>2
      <4>2. QED
        BY <2>1, <2>2, <4>1
    <3>3. QED
      BY <3>1, <3>2
  <2>3. QED
    BY <1>11, <2>2 DEF Longest
<1>13. QED
  BY <1>3, <1>9, <1>10, <1>11, <1>12

\* The i-th entry of the table, from the ones before it.
Entry(P, t, i) ==
    IF i = 1 THEN 0 ELSE Matcher!Advance(P, [j \in 1 .. i - 1 |-> t[j]], t[i - 1], P[i])

\* What the table is computed by, for the first n bytes of P.
Table(P, t, n) == t = [i \in 1 .. n |-> Entry(P, t, i)]

\* An entry depends on the ones before it alone.
LEMMA EntryFrom ==
    ASSUME NEW P, NEW t, NEW u, NEW i \in Nat \ {0}, \A j \in 1 .. i - 1 : t[j] = u[j]
    PROVE  Entry(P, t, i) = Entry(P, u, i)
<1>1. CASE i = 1
  BY <1>1 DEF Entry
<1>2. CASE i # 1
  <2>1. [j \in 1 .. i - 1 |-> t[j]] = [j \in 1 .. i - 1 |-> u[j]]
    OBVIOUS
  <2>2. t[i - 1] = u[i - 1]
    BY <1>2
  <2>3. QED
    BY <1>2, <2>1, <2>2, Zenon DEF Entry
<1>3. QED
  BY <1>1, <1>2

\* The computation ends.
LEMMA TableExists ==
    ASSUME NEW P, NEW m \in Nat
    PROVE  \E t : Table(P, t, m)
<1> DEFINE T == {n \in Nat : \E t : Table(P, t, n)}
<1>1. 0 \in T
  <2> DEFINE e == [i \in 1 .. 0 |-> 0]
  <2>1. e = [i \in 1 .. 0 |-> Entry(P, e, i)]
    OBVIOUS
  <2>2. QED
    BY <2>1 DEF Table
<1>2. ASSUME NEW n \in Nat, n \in T PROVE n + 1 \in T
  <2>1. PICK t : Table(P, t, n)
    BY <1>2
  <2> DEFINE u == [i \in 1 .. n + 1 |-> Entry(P, t, i)]
  <2>2. ASSUME NEW i \in 1 .. n PROVE t[i] = u[i]
    <3>1. i \in 1 .. n + 1
      OBVIOUS
    <3>2. u[i] = Entry(P, t, i)
      BY <3>1
    <3>3. t[i] = Entry(P, t, i)
      BY ONLY <2>1, i \in 1 .. n DEF Table
    <3>4. QED
      BY <3>2, <3>3
  <2>3. ASSUME NEW i \in 1 .. n + 1 PROVE Entry(P, t, i) = Entry(P, u, i)
    <3> HIDE DEF u
    <3>1. \A j \in 1 .. i - 1 : t[j] = u[j]
      BY <2>2
    <3>2. QED
      BY <3>1, EntryFrom
  <2>4. u = [i \in 1 .. n + 1 |-> Entry(P, u, i)]
    BY <2>3, Zenon
  <2>5. Table(P, u, n + 1)
    BY <2>4, Zenon DEF Table
  <2>6. QED
    BY <2>5
<1> HIDE DEF T
<1>3. m \in T
  BY <1>1, <1>2, Induction
<1>4. QED
  BY <1>3 DEF T

\* Each entry is the longest beginning of P that the bytes up to it end with.
LEMMA PrefixTableOK ==
    ASSUME NEW Q, NEW P \in Seq(Q)
    PROVE  TableOK(P, Matcher!PrefixTable(P), Len(P))
<1> DEFINE t == CHOOSE u : Table(P, u, Len(P))
<1>1. Matcher!PrefixTable(P) = t
  BY DEF Table, Entry, Matcher!PrefixTable
<1>2. Len(P) \in Nat
  OBVIOUS
<1>3. Table(P, t, Len(P))
  BY <1>2, TableExists
<1> HIDE DEF t
<1>4. ASSUME NEW i \in 1 .. Len(P) PROVE t[i] = Entry(P, t, i)
  BY ONLY <1>3, i \in 1 .. Len(P) DEF Table
<1> DEFINE T == {n \in Nat : n <= Len(P) => TableOK(P, t, n)}
<1>5. 0 \in T
  BY DEF TableOK
<1>6. ASSUME NEW n \in Nat, n \in T PROVE n + 1 \in T
  <2> SUFFICES ASSUME n + 1 <= Len(P) PROVE TableOK(P, t, n + 1)
    OBVIOUS
  <2>1. TableOK(P, t, n) /\ n + 1 \in 1 .. Len(P)
    BY <1>2, <1>6
  <2>2. t[n + 1] = Entry(P, t, n + 1)
    BY <1>4, <2>1
  <2>3. Longest(P, Rest(P), (n + 1) - 1, t[n + 1])
    <3>1. CASE n = 0
      <4>1. t[n + 1] = 0 /\ (n + 1) - 1 = 0
        BY <2>2, <3>1 DEF Entry
      <4>2. Longest(P, Rest(P), 0, 0)
        BY <1>2 DEF Longest, EndsAt
      <4>3. QED
        BY <4>1, <4>2
    <3>2. CASE n # 0
      <4>1. n \in 1 .. n /\ (n + 1) - 1 = n /\ n + 1 # 1
        BY <3>2
      <4>2. Longest(P, Rest(P), n - 1, t[n])
        BY <2>1, <4>1 DEF TableOK
      <4>3. PICK m : m = t[n]
        OBVIOUS
      <4>4. EndsAt(P, Rest(P), n - 1, m) /\ Longest(P, Rest(P), n - 1, m)
        BY <4>2, <4>3 DEF Longest
      <4>5. m \in Nat /\ m <= n - 1 /\ m < Len(P) /\ n - 1 \in Nat /\ (n - 1) + 1 = n
        BY <1>2, <3>2, <4>4 DEF EndsAt
      <4> DEFINE e == [j \in 1 .. n |-> t[j]]
      <4>6. ASSUME NEW i \in 1 .. m PROVE Longest(P, Rest(P), i - 1, e[i])
        <5>1. i \in 1 .. n
          BY <4>5
        <5>2. e[i] = t[i]
          BY <5>1
        <5>3. QED
          BY <2>1, <5>1, <5>2 DEF TableOK
      <4>7. TableOK(P, e, m)
        BY <4>6 DEF TableOK
      <4>8. Rest(P)[n] = P[n + 1]
        BY <1>2, <3>2 DEF Rest
      <4>9. t[n + 1] = Matcher!Advance(P, e, m, P[n + 1])
        BY <2>2, <4>1, <4>3 DEF Entry
      <4> HIDE DEF e
      <4>10. PICK b : b = P[n + 1]
        OBVIOUS
      <4>11. Rest(P)[(n - 1) + 1] = b
        BY <4>5, <4>8, <4>10
      <4>12. Longest(P, Rest(P), (n - 1) + 1, Matcher!Advance(P, e, m, b))
        BY <4>4, <4>5, <4>7, <4>11, AdvanceOK
      <4>13. QED
        BY <4>1, <4>5, <4>9, <4>10, <4>12
    <3>3. QED
      BY <3>1, <3>2
  <2>4. ASSUME NEW i \in 1 .. n + 1 PROVE Longest(P, Rest(P), i - 1, t[i])
    <3>1. i = n + 1 \/ i \in 1 .. n
      OBVIOUS
    <3>2. QED
      BY <2>1, <2>3, <3>1 DEF TableOK
  <2>5. QED
    BY <2>4 DEF TableOK
<1> HIDE DEF T
<1>7. Len(P) \in T
  BY <1>2, <1>5, <1>6, Induction
<1>8. QED
  BY <1>1, <1>2, <1>7 DEF T

\* A state says how much of its string is matched, and never all of it.
Matching(p, st) ==
    /\ st \in [1 .. 2 -> Nat]
    /\ \A i \in 1 .. 2 : st[i] < Len(p[i])

\* The string P ends at one of the first n bytes of x.
Occurs(P, x, n) == \E e \in 0 .. n : EndsAt(P, x, e, Len(P))

\* What the matcher knows when it has read n bytes of x.
Searched(p, x, n, hit, st) ==
    /\ hit \in BOOLEAN
    /\ Matching(p, st)
    /\ hit => \E i \in 1 .. 2 : Occurs(p[i], x, n)
    /\ ~hit => \A i \in 1 .. 2 : Longest(p[i], x, n, st[i]) /\ ~Occurs(p[i], x, n)

\* What is inductive in the search for forbidden bytes.
MatcherInv ==
    /\ patterns \in [1 .. 2 -> Matcher!Strings(MaxPattern)]
    /\ stream \in Seq(Bytes) /\ Len(stream) <= MaxStream
    /\ Searched(patterns, stream, Len(stream), found, states)

\* A string that may be looked for.
LEMMA StringsOK ==
    ASSUME NEW n \in Nat, NEW P \in Matcher!Strings(n)
    PROVE  P \in Seq(Bytes) /\ Len(P) \in 1 .. n
<1>1. PICK k \in 1 .. n : P \in [1 .. k -> Bytes]
  BY DEF Matcher!Strings
<1>2. P \in Seq(Bytes) /\ Len(P) = k
  BY <1>1
<1>3. QED
  BY <1>1, <1>2

\* What n bytes end with depends on them alone.
LEMMA SameText ==
    ASSUME NEW P, NEW x, NEW y, NEW n \in Nat, Same(x, y, n), NEW k
    PROVE  EndsAt(P, x, n, k) <=> EndsAt(P, y, n, k)
<1>1. ASSUME k \in Nat, k <= n, NEW j \in 1 .. k PROVE x[n - k + j] = y[n - k + j]
  <2>1. n - k + j \in 1 .. n
    BY <1>1
  <2>2. QED
    BY <2>1 DEF Same
<1>2. QED
  BY <1>1 DEF EndsAt

\* Where a string ends, and how much of it is matched, too.
LEMMA SameSearch ==
    ASSUME NEW P, NEW x, NEW y, NEW n \in Nat, Same(x, y, n)
    PROVE  /\ Occurs(P, x, n) <=> Occurs(P, y, n)
           /\ \A k : Longest(P, x, n, k) <=> Longest(P, y, n, k)
<1>1. ASSUME NEW e \in 0 .. n PROVE EndsAt(P, x, e, Len(P)) <=> EndsAt(P, y, e, Len(P))
  <2>1. e \in Nat /\ Same(x, y, e)
    BY DEF Same
  <2>2. QED
    BY <2>1, SameText
<1>2. ASSUME NEW k PROVE EndsAt(P, x, n, k) <=> EndsAt(P, y, n, k)
  BY SameText
<1>3. QED
  BY <1>1, <1>2 DEF Occurs, Longest

\* One byte more: either the string ends there or it did before.
LEMMA OccursNext ==
    ASSUME NEW P, NEW x, NEW n \in Nat
    PROVE  Occurs(P, x, n + 1) <=> Occurs(P, x, n) \/ EndsAt(P, x, n + 1, Len(P))
<1>1. \A e : e \in 0 .. n + 1 <=> e \in 0 .. n \/ e = n + 1
  OBVIOUS
<1>2. QED
  BY <1>1, Zenon DEF Occurs

\* One byte takes a state to one that is at most a byte further.
LEMMA AdvanceTyped ==
    ASSUME NEW Q, NEW P \in Seq(Q), NEW m \in Nat, m < Len(P), NEW b
    PROVE  Matcher!Advance(P, Matcher!PrefixTable(P), m, b) \in 0 .. m + 1
<1> DEFINE x == [j \in 1 .. m + 1 |-> IF j <= m THEN P[j] ELSE b]
<1>1. x[m + 1] = b
  OBVIOUS
<1>2. ASSUME NEW j \in 1 .. m PROVE x[m - m + j] = P[j]
  <2>1. m - m + j = j /\ j \in 1 .. m + 1 /\ j <= m
    OBVIOUS
  <2>2. QED
    BY <2>1
<1>3. Len(P) \in Nat /\ m <= m /\ m <= Len(P)
  OBVIOUS
<1> HIDE DEF x
<1>4. EndsAt(P, x, m, m)
  BY <1>2, <1>3, Zenon DEF EndsAt
<1>5. TableOK(P, Matcher!PrefixTable(P), m)
  <2>1. TableOK(P, Matcher!PrefixTable(P), Len(P))
    BY PrefixTableOK
  <2>2. QED
    BY <1>3, <2>1 DEF TableOK
<1>6. PICK t : t = Matcher!PrefixTable(P)
  OBVIOUS
<1>7. Matcher!Advance(P, t, m, b) \in 0 .. m + 1
  BY <1>1, <1>4, <1>5, <1>6, AdvanceOK
<1>8. QED
  BY <1>6, <1>7

\* One byte: the longest match before it gives the longest match with it.
LEMMA AdvanceLongest ==
    ASSUME NEW Q, NEW P \in Seq(Q), NEW m \in Nat, m < Len(P), NEW x, NEW n \in Nat,
           NEW b, x[n + 1] = b, Longest(P, x, n, m)
    PROVE  Longest(P, x, n + 1, Matcher!Advance(P, Matcher!PrefixTable(P), m, b))
<1>1. EndsAt(P, x, n, m)
  BY DEF Longest
<1>2. TableOK(P, Matcher!PrefixTable(P), m)
  <2>1. TableOK(P, Matcher!PrefixTable(P), Len(P)) /\ Len(P) \in Nat
    BY PrefixTableOK
  <2>2. QED
    BY <2>1 DEF TableOK
<1>3. PICK t : t = Matcher!PrefixTable(P)
  OBVIOUS
<1>4. Longest(P, x, n + 1, Matcher!Advance(P, t, m, b))
  BY <1>1, <1>2, <1>3, AdvanceOK
<1>5. QED
  BY <1>3, <1>4

\* The longest match is all of the string just when the string ends here.
LEMMA WholeMatch ==
    ASSUME NEW Q, NEW P \in Seq(Q), NEW x, NEW n, NEW k, Longest(P, x, n, k)
    PROVE  k = Len(P) <=> EndsAt(P, x, n, Len(P))
<1>1. Len(P) \in Nat
  OBVIOUS
<1>2. EndsAt(P, x, n, k) /\ k \in Nat /\ k <= Len(P)
  BY DEF Longest, EndsAt
<1>3. EndsAt(P, x, n, Len(P)) => Len(P) <= k
  BY <1>1 DEF Longest
<1>4. QED
  BY <1>1, <1>2, <1>3

\* The strings that are looked for.
LEMMA PatternsOK ==
    ASSUME patterns \in [1 .. 2 -> Matcher!Strings(MaxPattern)], NEW i \in 1 .. 2
    PROVE  patterns[i] \in Seq(Bytes) /\ Len(patterns[i]) \in Nat \ {0}
<1>1. MaxPattern \in Nat
  BY UpstreamAssumption DEF Matcher!MatcherAssumption
<1>2. patterns[i] \in Matcher!Strings(MaxPattern)
  OBVIOUS
<1>3. patterns[i] \in Seq(Bytes) /\ Len(patterns[i]) \in 1 .. MaxPattern
  BY <1>1, <1>2, StringsOK
<1>4. QED
  BY <1>3

\* The states after one byte, before it is asked whether a string is matched.
After(st, b) ==
    [i \in 1 .. 2 |-> Matcher!Advance(patterns[i], Matcher!PrefixTable(patterns[i]), st[i], b)]

\* The states are at most one byte further.
LEMMA AfterTyped ==
    ASSUME patterns \in [1 .. 2 -> Matcher!Strings(MaxPattern)],
           NEW st, Matching(patterns, st), NEW b, NEW i \in 1 .. 2
    PROVE  After(st, b)[i] \in Nat /\ After(st, b)[i] <= Len(patterns[i])
<1>1. patterns[i] \in Seq(Bytes) /\ Len(patterns[i]) \in Nat
  BY PatternsOK
<1>2. st[i] \in Nat /\ st[i] < Len(patterns[i])
  BY DEF Matching
<1>3. Matcher!Advance(patterns[i], Matcher!PrefixTable(patterns[i]), st[i], b) \in 0 .. st[i] + 1
  BY <1>1, <1>2, AdvanceTyped
<1>4. After(st, b)[i] \in 0 .. st[i] + 1
  BY <1>3 DEF After
<1>5. QED
  BY <1>1, <1>2, <1>4

\* The first of the strings that are matched.
LEMMA FirstHit ==
    ASSUME NEW H, H \subseteq 1 .. 2, H # {}
    PROVE  Matcher!Min(H) \in H /\ \A j \in H : Matcher!Min(H) <= j
<1>1. \E m \in H : \A j \in H : m <= j
  <2>1. CASE 1 \in H
    <3>1. \A j \in H : 1 <= j
      OBVIOUS
    <3>2. QED
      BY <2>1, <3>1
  <2>2. CASE 1 \notin H
    <3>1. \A j \in H : j = 2
      BY <2>2
    <3>2. PICK h : h \in H
      OBVIOUS
    <3>3. \A j \in H : h <= j
      BY <3>1, <3>2
    <3>4. QED
      BY <3>2, <3>3
  <2>3. QED
    BY <2>1, <2>2
<1>2. QED
  BY <1>1 DEF Matcher!Min

\* One byte keeps the states within their strings.
LEMMA StepTyped ==
    ASSUME patterns \in [1 .. 2 -> Matcher!Strings(MaxPattern)],
           NEW st, Matching(patterns, st), NEW b
    PROVE  /\ Matcher!Step(st, b).hit = (\E i \in 1 .. 2 : After(st, b)[i] = Len(patterns[i]))
           /\ Matching(patterns, Matcher!Step(st, b).states)
           /\ ~Matcher!Step(st, b).hit => Matcher!Step(st, b).states = After(st, b)
<1> DEFINE a == After(st, b)
<1> DEFINE H == {i \in 1 .. 2 : a[i] = Len(patterns[i])}
<1> DEFINE kept == [i \in 1 .. 2 |-> IF i < Matcher!Min(H) THEN a[i] ELSE st[i]]
<1>1. Matcher!Step(st, b) = IF H = {} THEN [hit |-> FALSE, states |-> a]
                                      ELSE [hit |-> TRUE, states |-> kept]
  BY DEF Matcher!Step, Matcher!Hits, After
<1>2. \A i \in 1 .. 2 : a[i] \in Nat /\ a[i] <= Len(patterns[i]) /\ Len(patterns[i]) \in Nat
  BY AfterTyped, PatternsOK
<1>3. a = [i \in 1 .. 2 |-> a[i]]
  BY DEF After
<1>4. H \subseteq 1 .. 2
  OBVIOUS
<1>5. st \in [1 .. 2 -> Nat] /\ \A i \in 1 .. 2 : st[i] < Len(patterns[i])
  BY DEF Matching
<1>6. CASE H = {}
  <2>1. Matcher!Step(st, b).hit = FALSE /\ Matcher!Step(st, b).states = a
    BY <1>1, <1>6
  <2>2. \A i \in 1 .. 2 : a[i] # Len(patterns[i])
    BY <1>6
  <2> HIDE DEF a
  <2>3. \A i \in 1 .. 2 : a[i] < Len(patterns[i])
    BY <1>2, <2>2
  <2>4. a \in [1 .. 2 -> Nat]
    BY <1>2, <1>3
  <2>5. Matching(patterns, a)
    BY <2>3, <2>4 DEF Matching
  <2>6. QED
    BY <2>1, <2>2, <2>5 DEF a
<1>7. CASE H # {}
  <2>1. Matcher!Step(st, b).hit = TRUE /\ Matcher!Step(st, b).states = kept
    BY <1>1, <1>7
  <2>2. Matcher!Min(H) \in H /\ \A j \in H : Matcher!Min(H) <= j
    BY <1>4, <1>7, FirstHit
  <2>3. ASSUME NEW i \in 1 .. 2 PROVE kept[i] \in Nat /\ kept[i] < Len(patterns[i])
    <3>1. CASE i < Matcher!Min(H)
      <4>1. i \notin H
        <5>1. PICK m : m = Matcher!Min(H)
          OBVIOUS
        <5>2. m \in 1 .. 2 /\ i < m /\ (i \in H => m <= i)
          BY <2>2, <3>1, <5>1
        <5>3. QED
          BY <5>2
      <4>2. a[i] # Len(patterns[i])
        BY <4>1
      <4>3. kept[i] = a[i]
        BY <3>1
      <4> HIDE DEF a, kept
      <4>4. QED
        BY <1>2, <4>2, <4>3
    <3>2. CASE ~(i < Matcher!Min(H))
      <4>1. kept[i] = st[i]
        BY <3>2
      <4>2. QED
        BY <1>5, <4>1
    <3>3. QED
      BY <3>1, <3>2
  <2>4. kept = [i \in 1 .. 2 |-> kept[i]]
    OBVIOUS
  <2>5. \E i \in 1 .. 2 : a[i] = Len(patterns[i])
    BY <1>7
  <2> HIDE DEF kept, a
  <2>6. Matching(patterns, kept)
    BY <2>3, <2>4 DEF Matching
  <2>7. QED
    BY <2>1, <2>5, <2>6 DEF a
<1>8. QED
  BY <1>6, <1>7

\* One byte: nothing that ends with it is missed, and nothing is reported that does not.
LEMMA ByteOK ==
    ASSUME patterns \in [1 .. 2 -> Matcher!Strings(MaxPattern)],
           NEW st, NEW x, NEW n \in Nat, NEW b, x[n + 1] = b,
           Searched(patterns, x, n, FALSE, st)
    PROVE  Searched(patterns, x, n + 1, Matcher!Step(st, b).hit, Matcher!Step(st, b).states)
<1>0. patterns \in [1 .. 2 -> Matcher!Strings(MaxPattern)]
  OBVIOUS
<1>1. Matching(patterns, st)
  BY DEF Searched
<1> DEFINE s == Matcher!Step(st, b)
<1> DEFINE a == After(st, b)
<1>2. /\ s.hit = (\E i \in 1 .. 2 : a[i] = Len(patterns[i]))
      /\ Matching(patterns, s.states)
      /\ ~s.hit => s.states = a
  BY ONLY <1>0, <1>1, StepTyped
<1> HIDE DEF s, a
<1>3. ASSUME NEW i \in 1 .. 2
      PROVE  /\ Longest(patterns[i], x, n + 1, a[i])
             /\ a[i] = Len(patterns[i]) <=> Occurs(patterns[i], x, n + 1)
  <2>1. patterns[i] \in Seq(Bytes)
    BY PatternsOK
  <2>2. st[i] \in Nat /\ st[i] < Len(patterns[i])
    BY <1>1 DEF Matching
  <2>3. Longest(patterns[i], x, n, st[i]) /\ ~Occurs(patterns[i], x, n)
    BY DEF Searched
  <2>4. Longest(patterns[i], x, n + 1,
                Matcher!Advance(patterns[i], Matcher!PrefixTable(patterns[i]), st[i], b))
    BY <2>1, <2>2, <2>3, AdvanceLongest
  <2>5. Longest(patterns[i], x, n + 1, a[i])
    BY <2>4 DEF After, a
  <2>6. a[i] = Len(patterns[i]) <=> EndsAt(patterns[i], x, n + 1, Len(patterns[i]))
    BY <2>1, <2>5, WholeMatch
  <2>7. Occurs(patterns[i], x, n + 1) <=> EndsAt(patterns[i], x, n + 1, Len(patterns[i]))
    BY <2>3, OccursNext
  <2>8. QED
    BY <2>5, <2>6, <2>7
<1>4. Searched(patterns, x, n + 1, s.hit, s.states)
  <2>1. s.hit \in BOOLEAN
    BY <1>2
  <2>2. s.hit => \E i \in 1 .. 2 : Occurs(patterns[i], x, n + 1)
    BY <1>2, <1>3
  <2>3. ~s.hit => \A i \in 1 .. 2 : /\ Longest(patterns[i], x, n + 1, s.states[i])
                                    /\ ~Occurs(patterns[i], x, n + 1)
    BY <1>2, <1>3
  <2>4. QED
    BY <1>2, <2>1, <2>2, <2>3 DEF Searched
<1>5. QED
  BY <1>4 DEF s

\* What feed holds after a byte, from what it held before it.
Fed(before, b) == IF before.hit THEN before ELSE Matcher!Step(before.states, b)

\* What feed computes, for the first n bytes of the chunk c.
Feeding(c, f, n) ==
    f = [k \in 0 .. n |-> IF k = 0 THEN [hit |-> FALSE, states |-> states]
                                   ELSE Fed(f[k - 1], c[k])]

\* Feeding ends.
LEMMA FeedingExists ==
    ASSUME NEW c, NEW m \in Nat
    PROVE  \E f : Feeding(c, f, m)
<1> DEFINE start == [hit |-> FALSE, states |-> states]
<1> DEFINE T == {n \in Nat : \E f : Feeding(c, f, n)}
<1>1. 0 \in T
  <2> DEFINE e == [k \in 0 .. 0 |-> start]
  <2>1. e = [k \in 0 .. 0 |-> IF k = 0 THEN start ELSE Fed(e[k - 1], c[k])]
    OBVIOUS
  <2>2. Feeding(c, e, 0)
    BY <2>1, Zenon DEF Feeding
  <2>3. QED
    BY <2>2
<1>2. ASSUME NEW n \in Nat, n \in T PROVE n + 1 \in T
  <2>1. PICK f : Feeding(c, f, n)
    BY <1>2
  <2> DEFINE g == [k \in 0 .. n + 1 |-> IF k = 0 THEN start ELSE Fed(f[k - 1], c[k])]
  <2>2. ASSUME NEW k \in 0 .. n PROVE f[k] = g[k]
    <3>1. k \in 0 .. n + 1
      OBVIOUS
    <3>2. g[k] = IF k = 0 THEN start ELSE Fed(f[k - 1], c[k])
      BY <3>1
    <3>3. f[k] = IF k = 0 THEN start ELSE Fed(f[k - 1], c[k])
      BY ONLY <2>1, k \in 0 .. n DEF Feeding
    <3>4. QED
      BY <3>2, <3>3
  <2>3. ASSUME NEW k \in 0 .. n + 1
        PROVE  (IF k = 0 THEN start ELSE Fed(f[k - 1], c[k]))
               = (IF k = 0 THEN start ELSE Fed(g[k - 1], c[k]))
    <3> HIDE DEF g
    <3>1. CASE k = 0
      BY <3>1
    <3>2. CASE k # 0
      <4>1. k - 1 \in 0 .. n
        BY <3>2
      <4>2. f[k - 1] = g[k - 1]
        BY <2>2, <4>1
      <4>3. QED
        BY <3>2, <4>2
    <3>3. QED
      BY <3>1, <3>2
  <2>4. g = [k \in 0 .. n + 1 |-> IF k = 0 THEN start ELSE Fed(g[k - 1], c[k])]
    BY <2>3, Zenon
  <2> HIDE DEF g
  <2>5. Feeding(c, g, n + 1)
    BY <2>4, Zenon DEF Feeding
  <2>6. QED
    BY <2>5
<1> HIDE DEF T
<1>3. m \in T
  BY <1>1, <1>2, Induction
<1>4. QED
  BY <1>3 DEF T

\* What feed does, without the recursion.
LEMMA FeedIs ==
    ASSUME NEW c, Len(c) \in Nat, Matcher!Feed(c)
    PROVE  \E f : /\ Feeding(c, f, Len(c))
                  /\ Len(stream) + Len(c) <= MaxStream /\ stream' = stream \o c
                  /\ states' = f[Len(c)].states /\ found' = (found \/ f[Len(c)].hit)
                  /\ patterns' = patterns
<1> DEFINE f == CHOOSE g : Feeding(c, g, Len(c))
<1>1. Feeding(c, f, Len(c))
  BY FeedingExists
<1>2. /\ Len(stream) + Len(c) <= MaxStream /\ stream' = stream \o c
      /\ states' = f[Len(c)].states /\ found' = (found \/ f[Len(c)].hit)
      /\ patterns' = patterns
  BY DEF Matcher!Feed, Feeding, Fed
<1> HIDE DEF f
<1>3. QED
  BY <1>1, <1>2

\* The entries of what feed computes.
LEMMA FeedingAt ==
    ASSUME NEW c, NEW f, NEW n \in Nat, Feeding(c, f, n)
    PROVE  /\ f[0] = [hit |-> FALSE, states |-> states]
           /\ \A k \in Nat : k + 1 <= n => f[k + 1] = Fed(f[k], c[k + 1])
<1>1. f[0] = [hit |-> FALSE, states |-> states]
  BY ONLY n \in Nat, Feeding(c, f, n) DEF Feeding
<1>2. ASSUME NEW k \in Nat, k + 1 <= n PROVE f[k + 1] = Fed(f[k], c[k + 1])
  <2>1. k + 1 \in 0 .. n /\ k + 1 # 0 /\ (k + 1) - 1 = k
    BY <1>2
  <2>2. f[k + 1] = IF k + 1 = 0 THEN [hit |-> FALSE, states |-> states]
                                ELSE Fed(f[(k + 1) - 1], c[k + 1])
    BY ONLY <2>1, Feeding(c, f, n) DEF Feeding
  <2>3. QED
    BY <2>1, <2>2
<1>3. QED
  BY <1>1, <1>2

\* Feeding keeps the states within their strings, whatever was found.
LEMMA FeedTyped ==
    ASSUME patterns \in [1 .. 2 -> Matcher!Strings(MaxPattern)], Matching(patterns, states),
           NEW c, NEW f, NEW n \in Nat, Feeding(c, f, n)
    PROVE  f[n].hit \in BOOLEAN /\ Matching(patterns, f[n].states)
<1> DEFINE T == {k \in Nat : k <= n => f[k].hit \in BOOLEAN /\ Matching(patterns, f[k].states)}
<1>1. /\ f[0] = [hit |-> FALSE, states |-> states]
      /\ \A k \in Nat : k + 1 <= n => f[k + 1] = Fed(f[k], c[k + 1])
  BY FeedingAt
<1>2. 0 \in T
  <2>1. f[0].hit = FALSE /\ f[0].states = states
    BY <1>1
  <2>2. f[0].hit \in BOOLEAN
    BY <2>1, Zenon
  <2>3. Matching(patterns, f[0].states)
    BY <2>1
  <2>4. QED
    BY <2>2, <2>3
<1>3. ASSUME NEW k \in Nat, k \in T PROVE k + 1 \in T
  <2> SUFFICES ASSUME k + 1 <= n
               PROVE  f[k + 1].hit \in BOOLEAN /\ Matching(patterns, f[k + 1].states)
    OBVIOUS
  <2>1. f[k].hit \in BOOLEAN /\ Matching(patterns, f[k].states)
    BY <1>3
  <2>2. f[k + 1] = Fed(f[k], c[k + 1])
    BY <1>1
  <2>3. PICK b : b = c[k + 1]
    OBVIOUS
  <2>4. Matching(patterns, Matcher!Step(f[k].states, b).states)
    BY <2>1, StepTyped
  <2>5. Matcher!Step(f[k].states, b).hit \in BOOLEAN
    <3>1. PICK st : st = f[k].states
      OBVIOUS
    <3>2. Matcher!Step(st, b).hit = (\E i \in 1 .. 2 : After(st, b)[i] = Len(patterns[i]))
      BY <2>1, <3>1, StepTyped, ZenonT(40)
    <3>3. Matcher!Step(st, b).hit \in BOOLEAN
      BY <3>2, Zenon
    <3>4. QED
      BY <3>1, <3>3
  <2>6. CASE f[k].hit
    BY <2>1, <2>2, <2>6 DEF Fed
  <2>7. CASE ~f[k].hit
    <3>1. f[k + 1] = Matcher!Step(f[k].states, b)
      BY <2>2, <2>3, <2>7 DEF Fed
    <3>2. QED
      BY <2>4, <2>5, <3>1
  <2>8. QED
    BY <2>6, <2>7
<1> HIDE DEF T
<1>4. n \in T
  BY <1>2, <1>3, Induction
<1>5. QED
  BY <1>4 DEF T

\* Feeding loses nothing: what was known of the stream is known of it and the chunk.
LEMMA FeedOK ==
    ASSUME patterns \in [1 .. 2 -> Matcher!Strings(MaxPattern)],
           NEW c, NEW f, NEW n \in Nat, Feeding(c, f, n),
           NEW x, NEW s \in Nat, Searched(patterns, x, s, FALSE, states),
           \A k \in 1 .. n : x[s + k] = c[k]
    PROVE  Searched(patterns, x, s + n, f[n].hit, f[n].states)
<1> DEFINE T == {k \in Nat : k <= n => Searched(patterns, x, s + k, f[k].hit, f[k].states)}
<1>1. /\ f[0] = [hit |-> FALSE, states |-> states]
      /\ \A k \in Nat : k + 1 <= n => f[k + 1] = Fed(f[k], c[k + 1])
  BY FeedingAt
<1>2. 0 \in T
  <2>1. s + 0 = s /\ f[0].hit = FALSE /\ f[0].states = states
    BY <1>1
  <2>2. QED
    BY <2>1
<1>3. ASSUME NEW k \in Nat, k \in T PROVE k + 1 \in T
  <2> SUFFICES ASSUME k + 1 <= n
               PROVE  Searched(patterns, x, s + (k + 1), f[k + 1].hit, f[k + 1].states)
    OBVIOUS
  <2>1. Searched(patterns, x, s + k, f[k].hit, f[k].states)
    BY <1>3
  <2>2. f[k + 1] = Fed(f[k], c[k + 1])
    BY <1>1
  <2>3. s + (k + 1) = (s + k) + 1 /\ s + k \in Nat /\ k + 1 \in 1 .. n
    OBVIOUS
  <2>4. x[(s + k) + 1] = c[k + 1]
    BY <2>3
  <2>5. f[k].hit \in BOOLEAN
    BY <2>1 DEF Searched
  <2>6. CASE f[k].hit = TRUE
    <3>1. f[k + 1] = f[k]
      BY <2>2, <2>6 DEF Fed
    <3>2. \E i \in 1 .. 2 : Occurs(patterns[i], x, s + k)
      BY <2>1, <2>6 DEF Searched
    <3>3. \E i \in 1 .. 2 : Occurs(patterns[i], x, (s + k) + 1)
      BY <2>3, <3>2, OccursNext
    <3>4. Searched(patterns, x, (s + k) + 1, f[k].hit, f[k].states)
      BY <2>1, <2>6, <3>3 DEF Searched
    <3>5. QED
      BY <2>3, <3>1, <3>4
  <2>7. CASE f[k].hit = FALSE
    <3>1. Searched(patterns, x, s + k, FALSE, f[k].states)
      BY <2>1, <2>7
    <3>2. PICK b : b = c[k + 1]
      OBVIOUS
    <3>3. f[k + 1] = Matcher!Step(f[k].states, b)
      BY <2>2, <2>7, <3>2 DEF Fed
    <3>4. Searched(patterns, x, (s + k) + 1, Matcher!Step(f[k].states, b).hit,
                   Matcher!Step(f[k].states, b).states)
      BY <2>3, <2>4, <3>1, <3>2, ByteOK
    <3>5. QED
      BY <2>3, <3>3, <3>4
  <2>8. QED
    BY <2>5, <2>6, <2>7
<1> HIDE DEF T
<1>4. n \in T
  BY <1>2, <1>3, Induction
<1>5. QED
  BY <1>4 DEF T

\* Nothing is fed, matched or found at first.
LEMMA MatcherInit ==
    ASSUME Matcher!Init
    PROVE  MatcherInv
<1>1. /\ patterns \in [1 .. 2 -> Matcher!Strings(MaxPattern)]
      /\ states = [i \in 1 .. 2 |-> 0] /\ stream = << >> /\ found = FALSE
  BY DEF Matcher!Init
<1>2. MaxStream \in Nat
  BY UpstreamAssumption DEF Matcher!MatcherAssumption
<1>3. Matching(patterns, states)
  <2>1. \A i \in 1 .. 2 : Len(patterns[i]) \in Nat \ {0}
    BY <1>1, PatternsOK
  <2>2. QED
    BY <1>1, <2>1 DEF Matching
<1>4. ASSUME NEW i \in 1 .. 2
      PROVE  Longest(patterns[i], stream, 0, states[i]) /\ ~Occurs(patterns[i], stream, 0)
  <2>1. Len(patterns[i]) \in Nat \ {0}
    BY <1>1, PatternsOK
  <2>2. states[i] = 0
    BY <1>1
  <2>3. EndsAt(patterns[i], stream, 0, 0)
    BY <2>1 DEF EndsAt
  <2>4. \A l \in Nat : EndsAt(patterns[i], stream, 0, l) => l <= 0
    BY DEF EndsAt
  <2>5. ~Occurs(patterns[i], stream, 0)
    BY <2>1 DEF Occurs, EndsAt
  <2>6. QED
    BY <2>2, <2>3, <2>4, <2>5 DEF Longest
<1>5. Len(stream) = 0 /\ stream \in Seq(Bytes)
  BY <1>1
<1>6. Searched(patterns, stream, Len(stream), found, states)
  BY <1>1, <1>3, <1>4, <1>5 DEF Searched
<1>7. QED
  BY <1>1, <1>2, <1>5, <1>6 DEF MatcherInv

\* A chunk, whatever it cuts.
LEMMA MatcherStep ==
    ASSUME MatcherInv, Matcher!Next
    PROVE  MatcherInv'
<1>1. PICK c \in Matcher!Strings(MaxChunk) : Matcher!Feed(c)
  BY DEF Matcher!Next
<1>2. c \in Seq(Bytes) /\ Len(c) \in Nat
  <2>1. MaxChunk \in Nat
    BY UpstreamAssumption DEF Matcher!MatcherAssumption
  <2>2. c \in Seq(Bytes) /\ Len(c) \in 1 .. MaxChunk
    BY <1>1, <2>1, StringsOK
  <2>3. QED
    BY <2>2
<1>3. PICK f : /\ Feeding(c, f, Len(c))
               /\ Len(stream) + Len(c) <= MaxStream /\ stream' = stream \o c
               /\ states' = f[Len(c)].states /\ found' = (found \/ f[Len(c)].hit)
               /\ patterns' = patterns
  BY <1>1, <1>2, FeedIs
<1>4. /\ patterns \in [1 .. 2 -> Matcher!Strings(MaxPattern)]
      /\ stream \in Seq(Bytes)
      /\ Searched(patterns, stream, Len(stream), found, states)
  BY DEF MatcherInv
<1>5. PICK x, p, s, n : x = stream \o c /\ p = patterns /\ s = Len(stream) /\ n = Len(c)
  OBVIOUS
<1>6. /\ x \in Seq(Bytes) /\ Len(x) = s + n /\ s \in Nat /\ n \in Nat
      /\ Same(stream, x, s)
      /\ \A k \in 1 .. n : x[s + k] = c[k]
  BY <1>2, <1>4, <1>5 DEF Same
<1>7. PICK hit, st : hit = f[n].hit /\ st = f[n].states
  OBVIOUS
<1>8. found \in BOOLEAN /\ Matching(patterns, states)
  BY <1>4 DEF Searched
<1>9. hit \in BOOLEAN /\ Matching(p, st)
  BY <1>3, <1>4, <1>5, <1>6, <1>7, <1>8, FeedTyped
<1>10. Searched(p, x, s + n, found \/ hit, st)
  <2>1. CASE found
    <3>1. \E i \in 1 .. 2 : Occurs(patterns[i], stream, s)
      BY <1>4, <1>5, <2>1 DEF Searched
    <3>2. \E i \in 1 .. 2 : Occurs(p[i], x, s)
      BY <1>5, <1>6, <3>1, SameSearch
    <3>3. \A e : e \in 0 .. s => e \in 0 .. s + n
      BY <1>6
    <3>4. \E i \in 1 .. 2 : Occurs(p[i], x, s + n)
      BY <3>2, <3>3 DEF Occurs
    <3>5. (found \/ hit) = TRUE
      BY <1>8, <2>1
    <3>6. QED
      BY <1>9, <3>4, <3>5 DEF Searched
  <2>2. CASE ~found
    <3>1. \A i \in 1 .. 2 : Longest(patterns[i], stream, s, states[i]) /\ ~Occurs(patterns[i], stream, s)
      BY <1>4, <1>5, <2>2 DEF Searched
    <3>2. \A i \in 1 .. 2 : Longest(patterns[i], x, s, states[i]) /\ ~Occurs(patterns[i], x, s)
      BY <1>5, <1>6, <3>1, SameSearch
    <3>3. Searched(patterns, x, s, FALSE, states)
      BY <1>8, <3>2 DEF Searched
    <3>4. Searched(patterns, x, s + n, f[n].hit, f[n].states)
      BY <1>3, <1>4, <1>5, <1>6, <3>3, FeedOK
    <3>5. (found \/ hit) = hit
      BY <1>8, <1>9, <2>2
    <3>6. QED
      BY <1>5, <1>7, <3>4, <3>5
  <2>3. QED
    BY <2>1, <2>2
<1>11. patterns' = p /\ stream' = x /\ states' = st /\ found' = (found \/ hit)
  BY <1>3, <1>5, <1>7
<1>12. Searched(patterns', stream', Len(stream'), found', states')
  BY <1>6, <1>10, <1>11
<1>13. Len(stream') <= MaxStream
  BY <1>3, <1>5, <1>6, <1>11
<1>14. QED
  BY <1>4, <1>5, <1>6, <1>11, <1>12, <1>13 DEF MatcherInv

\* A part of a sequence.
LEMMA CutIs ==
    ASSUME NEW Q, NEW x \in Seq(Q), NEW s \in Nat, NEW n \in Nat, s + n <= Len(x)
    PROVE  /\ SubSeq(x, s + 1, s + n) \in Seq(Q)
           /\ Len(SubSeq(x, s + 1, s + n)) = n
           /\ \A j \in 1 .. n : SubSeq(x, s + 1, s + n)[j] = x[s + j]
<1>1. PICK l, m : l = s + 1 /\ m = s + n
  OBVIOUS
<1>2. l \in Int /\ m \in Int /\ \A i \in l .. m : x[i] \in Q
  BY <1>1
<1>3. /\ SubSeq(x, l, m) \in Seq(Q)
      /\ Len(SubSeq(x, l, m)) = IF l <= m THEN m - l + 1 ELSE 0
      /\ \A i \in 1 .. m - l + 1 : SubSeq(x, l, m)[i] = x[l + i - 1]
  BY ONLY <1>2, SubSeqProperties
<1>4. m - l + 1 = n /\ (l <= m \/ n = 0) /\ \A j \in 1 .. n : l + j - 1 = s + j
  BY <1>1
<1>5. SubSeq(x, l, m) \in Seq(Q) /\ Len(SubSeq(x, l, m)) = n
  BY <1>1, <1>3, <1>4
<1>6. \A j \in 1 .. n : SubSeq(x, l, m)[j] = x[s + j]
  BY <1>3, <1>4
<1>7. QED
  BY <1>1, <1>5, <1>6

\* Where a string ends and where the bytes before are it.
LEMMA EndsIs ==
    ASSUME NEW Q, NEW P \in Seq(Q), NEW x \in Seq(Q), NEW s \in Nat, s + Len(P) <= Len(x)
    PROVE  SubSeq(x, s + 1, s + Len(P)) = P <=> EndsAt(P, x, s + Len(P), Len(P))
<1> DEFINE y == SubSeq(x, s + 1, s + Len(P))
<1>1. Len(P) \in Nat /\ Len(x) \in Nat
  OBVIOUS
<1>2. y \in Seq(Q) /\ Len(y) = Len(P) /\ \A j \in 1 .. Len(P) : y[j] = x[s + j]
  BY <1>1, CutIs
<1>3. EndsAt(P, x, s + Len(P), Len(P)) <=> \A j \in 1 .. Len(P) : x[s + j] = P[j]
  <2>1. /\ Len(P) <= s + Len(P) /\ Len(P) <= Len(P)
        /\ \A j \in 1 .. Len(P) : (s + Len(P)) - Len(P) + j = s + j
    BY <1>1
  <2>2. QED
    BY <1>1, <2>1 DEF EndsAt
<1> HIDE DEF y
<1>4. y = P <=> \A j \in 1 .. Len(P) : y[j] = P[j]
  BY <1>1, <1>2, SeqEqual
<1>5. QED
  BY <1>2, <1>3, <1>4 DEF y

\* The states are those that StatesAreLongest asks for.
LEMMA SuffixIs ==
    ASSUME NEW Q, NEW P \in Seq(Q), NEW x \in Seq(Q), NEW k \in Nat, k <= Len(P), k <= Len(x)
    PROVE  Matcher!IsSuffix(SubSeq(P, 1, k), x) <=> EndsAt(P, x, Len(x), k)
<1> DEFINE y == SubSeq(P, 1, k)
<1> DEFINE u == Matcher!Reverse(y)
<1> DEFINE v == Matcher!Reverse(x)
<1>1. Len(P) \in Nat /\ Len(x) \in Nat
  OBVIOUS
<1>2. y \in Seq(Q) /\ Len(y) = k /\ \A j \in 1 .. k : y[j] = P[j]
  <2>1. 0 + 1 = 1 /\ 0 + k = k /\ \A j \in 1 .. k : 0 + j = j
    OBVIOUS
  <2>2. /\ SubSeq(P, 0 + 1, 0 + k) \in Seq(Q) /\ Len(SubSeq(P, 0 + 1, 0 + k)) = k
        /\ \A j \in 1 .. k : SubSeq(P, 0 + 1, 0 + k)[j] = P[0 + j]
    BY <1>1, CutIs
  <2>3. QED
    BY <2>1, <2>2
<1>3. Matcher!IsSuffix(y, x) <=> Matcher!IsPrefix(u, v)
  BY DEF Matcher!IsSuffix
<1> HIDE DEF y
<1>4. u \in Seq(Q) /\ Len(u) = k /\ \A i \in 1 .. k : u[i] = P[(k - i) + 1]
  <2>1. u = [i \in 1 .. k |-> y[(k - i) + 1]]
    BY <1>2 DEF Matcher!Reverse
  <2>2. \A i \in 1 .. k : (k - i) + 1 \in 1 .. k
    OBVIOUS
  <2>3. \A i \in 1 .. k : y[(k - i) + 1] \in Q /\ y[(k - i) + 1] = P[(k - i) + 1]
    BY <1>2, <2>2
  <2>4. QED
    BY <2>1, <2>3
<1>5. /\ v \in Seq(Q) /\ Len(v) = Len(x)
      /\ \A i \in 1 .. Len(x) : v[i] = x[(Len(x) - i) + 1]
  <2>1. v = [i \in 1 .. Len(x) |-> x[(Len(x) - i) + 1]]
    BY DEF Matcher!Reverse
  <2>2. \A i \in 1 .. Len(x) : (Len(x) - i) + 1 \in 1 .. Len(x)
    BY <1>1
  <2>3. \A i \in 1 .. Len(x) : x[(Len(x) - i) + 1] \in Q
    BY <2>2
  <2>4. QED
    BY <1>1, <2>1, <2>3
<1> HIDE DEF u, v
<1>6. Matcher!IsPrefix(u, v) <=> SubSeq(u, 1, k) = SubSeq(v, 1, k)
  BY <1>4, <1>5 DEF Matcher!IsPrefix
<1>7. SubSeq(u, 1, k) = SubSeq(v, 1, k) <=> \A i \in 1 .. k : u[i] = v[i]
  <2> DEFINE a == SubSeq(u, 1, k)
  <2> DEFINE b == SubSeq(v, 1, k)
  <2>1. 0 + 1 = 1 /\ 0 + k = k /\ (\A j \in 1 .. k : 0 + j = j) /\ 0 + k <= Len(u) /\ 0 + k <= Len(v)
    BY <1>4, <1>5
  <2>2. a \in Seq(Q) /\ Len(a) = k /\ \A j \in 1 .. k : a[j] = u[j]
    <3>1. /\ SubSeq(u, 0 + 1, 0 + k) \in Seq(Q) /\ Len(SubSeq(u, 0 + 1, 0 + k)) = k
          /\ \A j \in 1 .. k : SubSeq(u, 0 + 1, 0 + k)[j] = u[0 + j]
      BY <1>4, <2>1, CutIs
    <3>2. QED
      BY <2>1, <3>1
  <2>3. b \in Seq(Q) /\ Len(b) = k /\ \A j \in 1 .. k : b[j] = v[j]
    <3>1. /\ SubSeq(v, 0 + 1, 0 + k) \in Seq(Q) /\ Len(SubSeq(v, 0 + 1, 0 + k)) = k
          /\ \A j \in 1 .. k : SubSeq(v, 0 + 1, 0 + k)[j] = v[0 + j]
      BY <1>5, <2>1, CutIs
    <3>2. QED
      BY <2>1, <3>1
  <2> HIDE DEF a, b
  <2>4. a = b <=> \A j \in 1 .. k : a[j] = b[j]
    BY <2>2, <2>3, SeqEqual
  <2>5. QED
    BY <2>2, <2>3, <2>4 DEF a, b
<1>8. ASSUME NEW i \in 1 .. k
      PROVE  u[i] = v[i] <=> P[(k - i) + 1] = x[Len(x) - k + ((k - i) + 1)]
  <2>1. i \in 1 .. Len(x) /\ (Len(x) - i) + 1 = Len(x) - k + ((k - i) + 1)
    BY <1>1
  <2>2. v[i] = x[Len(x) - k + ((k - i) + 1)]
    BY <1>5, <2>1
  <2>3. u[i] = P[(k - i) + 1]
    BY <1>4
  <2>4. QED
    BY <2>2, <2>3
<1>9. (\A i \in 1 .. k : u[i] = v[i]) <=> \A j \in 1 .. k : x[Len(x) - k + j] = P[j]
  <2>1. ASSUME \A i \in 1 .. k : u[i] = v[i], NEW j \in 1 .. k
        PROVE  x[Len(x) - k + j] = P[j]
    <3>1. (k - j) + 1 \in 1 .. k /\ (k - ((k - j) + 1)) + 1 = j
      OBVIOUS
    <3>2. PICK i \in 1 .. k : (k - i) + 1 = j
      BY <3>1
    <3>3. P[(k - i) + 1] = x[Len(x) - k + ((k - i) + 1)]
      BY <1>8, <2>1, <3>2
    <3>4. QED
      BY <3>2, <3>3
  <2>2. ASSUME \A j \in 1 .. k : x[Len(x) - k + j] = P[j], NEW i \in 1 .. k
        PROVE  u[i] = v[i]
    <3>1. (k - i) + 1 \in 1 .. k
      OBVIOUS
    <3>2. QED
      BY <1>8, <2>2, <3>1
  <2>3. QED
    BY <2>1, <2>2
<1>10. QED
  BY <1>1, <1>3, <1>6, <1>7, <1>9 DEF EndsAt, y

\* What the inductive invariant says of the matcher.
LEMMA MatcherFinds ==
    ASSUME MatcherInv
    PROVE  Matcher!TypeOK /\ Matcher!FoundWhereverCut /\ Matcher!StatesAreLongest
<1>1. /\ patterns \in [1 .. 2 -> Matcher!Strings(MaxPattern)]
      /\ stream \in Seq(Bytes) /\ Len(stream) <= MaxStream /\ Len(stream) \in Nat
      /\ Searched(patterns, stream, Len(stream), found, states)
  BY DEF MatcherInv
<1>2. found \in BOOLEAN /\ Matching(patterns, states)
  BY <1>1 DEF Searched
<1>3. \A i \in 1 .. 2 : patterns[i] \in Seq(Bytes) /\ Len(patterns[i]) \in Nat
  BY <1>1, PatternsOK
<1>4. Matcher!TypeOK
  <2>1. \A i \in 1 .. 2 : states[i] \in 0 .. Len(patterns[i]) - 1
    BY <1>2, <1>3 DEF Matching
  <2>2. QED
    BY <1>1, <1>2, <2>1 DEF Matcher!TypeOK
<1>5. Matcher!FoundWhereverCut
  <2> DEFINE At(i, s) ==
        /\ s + Len(patterns[i]) <= Len(stream)
        /\ SubSeq(stream, s + 1, s + Len(patterns[i])) = patterns[i]
  <2>1. ASSUME NEW i \in 1 .. 2, NEW s \in 0 .. Len(stream), At(i, s)
        PROVE  Occurs(patterns[i], stream, Len(stream))
    <3>1. s \in Nat /\ patterns[i] \in Seq(Bytes)
      BY <1>1, <1>3
    <3>2. EndsAt(patterns[i], stream, s + Len(patterns[i]), Len(patterns[i]))
      BY <1>1, <2>1, <3>1, EndsIs
    <3>3. s + Len(patterns[i]) \in 0 .. Len(stream)
      BY <1>1, <1>3, <2>1
    <3>4. QED
      BY <3>2, <3>3 DEF Occurs
  <2>2. ASSUME NEW i \in 1 .. 2, Occurs(patterns[i], stream, Len(stream))
        PROVE  \E s \in 0 .. Len(stream) : At(i, s)
    <3>1. PICK e \in 0 .. Len(stream) : EndsAt(patterns[i], stream, e, Len(patterns[i]))
      BY <2>2 DEF Occurs
    <3>2. Len(patterns[i]) <= e
      BY <3>1 DEF EndsAt
    <3>3. PICK s : s = e - Len(patterns[i])
      OBVIOUS
    <3>4. s \in Nat /\ s \in 0 .. Len(stream) /\ s + Len(patterns[i]) = e
      BY <1>1, <1>3, <3>1, <3>2, <3>3
    <3>5. s + Len(patterns[i]) <= Len(stream) /\ patterns[i] \in Seq(Bytes)
      BY <1>3, <3>1, <3>4
    <3>6. EndsAt(patterns[i], stream, s + Len(patterns[i]), Len(patterns[i]))
      BY <3>1, <3>4
    <3>7. SubSeq(stream, s + 1, s + Len(patterns[i])) = patterns[i]
      BY <1>1, <3>4, <3>5, <3>6, EndsIs
    <3>8. QED
      BY <3>4, <3>5, <3>7
  <2>3. found <=> \E i \in 1 .. 2 : Occurs(patterns[i], stream, Len(stream))
    BY <1>1 DEF Searched
  <2> HIDE DEF At
  <2>4. found = \E i \in 1 .. 2, s \in 0 .. Len(stream) : At(i, s)
    BY <1>2, <2>1, <2>2, <2>3, Zenon
  <2>5. QED
    BY <2>4 DEF Matcher!FoundWhereverCut, At
<1>6. Matcher!StatesAreLongest
  <2> SUFFICES ASSUME ~found, NEW i \in 1 .. 2
               PROVE  states[i] = Matcher!Max({k \in 0 .. Len(patterns[i]) :
                          /\ k <= Len(stream)
                          /\ Matcher!IsSuffix(SubSeq(patterns[i], 1, k), stream)})
    BY DEF Matcher!StatesAreLongest
  <2> DEFINE K == {k \in 0 .. Len(patterns[i]) :
                      k <= Len(stream) /\ Matcher!IsSuffix(SubSeq(patterns[i], 1, k), stream)}
  <2>1. PICK m : m = states[i]
    OBVIOUS
  <2>2. Longest(patterns[i], stream, Len(stream), m)
    BY <1>1, <2>1 DEF Searched
  <2>3. ASSUME NEW k PROVE k \in K <=> k \in Nat /\ EndsAt(patterns[i], stream, Len(stream), k)
    <3>1. ASSUME k \in Nat, k <= Len(patterns[i]), k <= Len(stream)
          PROVE  Matcher!IsSuffix(SubSeq(patterns[i], 1, k), stream)
                 <=> EndsAt(patterns[i], stream, Len(stream), k)
      BY <1>1, <1>3, <3>1, SuffixIs
    <3>2. k \in 0 .. Len(patterns[i]) <=> k \in Nat /\ k <= Len(patterns[i])
      BY <1>3
    <3>3. EndsAt(patterns[i], stream, Len(stream), k)
          => k \in Nat /\ k <= Len(stream) /\ k <= Len(patterns[i])
      BY DEF EndsAt
    <3>4. QED
      BY <3>1, <3>2, <3>3
  <2> HIDE DEF K
  <2>4. m \in K /\ \A k \in K : m \in Nat /\ k \in Nat /\ k <= m
    <3>1. EndsAt(patterns[i], stream, Len(stream), m) /\ m \in Nat
      BY <2>2 DEF Longest, EndsAt
    <3>2. QED
      BY <2>2, <2>3, <3>1 DEF Longest
  <2>5. m \in K /\ (\A k \in K : m >= k) /\ \A l \in K : (\A k \in K : l >= k) => l = m
    BY <2>4
  <2>6. Matcher!Max(K) = m
    BY <2>5 DEF Matcher!Max
  <2>7. QED
    BY <2>1, <2>6 DEF K
<1>7. QED
  BY <1>4, <1>5, <1>6
-----------------------------------------------------------------------------
(* The theorems. *)

\* The invariant of the subject of a behaviour.
UpstreamInv ==
    /\ subject = "catalog" => CatalogInv
    /\ subject = "paging" => PagingInv
    /\ subject = "response" => ResponseInv
    /\ subject = "matcher" => MatcherInv
    /\ subject = "keys" => KeysInv

\* Nothing happens.
LEMMA Unmoved ==
    ASSUME UpstreamInv, UNCHANGED vars
    PROVE  UpstreamInv'
<1>1. /\ UNCHANGED <<subject, now, pc, found, outcome, transport>>
      /\ UNCHANGED <<rows, versions, current, lock, request, fetched, deleted, callbacks>>
      /\ UNCHANGED <<upstream, pager, pages, cursor, seen_cursors, items, total_bytes>>
      /\ UNCHANGED <<dispatched, received, budget, answer, half, pending, passed, sent, answered, tainted>>
      /\ UNCHANGED <<patterns, states, stream>>
      /\ UNCHANGED <<published, revoked_at, signing_keys, next_refresh_at, negative_kids, cached, resolved>>
  BY DEF vars, sharedVars, catalogVars, pagingVars, responseVars, matcherVars, keyVars
<1>2. CatalogInv => CatalogInv'
  <2>1. CatalogTypes => CatalogTypes'
    BY <1>1 DEF CatalogTypes
  <2>2. RowsOK => RowsOK'
    BY <1>1 DEF RowsOK, IsStored, RowOf, Catalog!OneRowPerQuery
  <2>3. VersionsOK => VersionsOK'
    BY <1>1 DEF VersionsOK, Imported
  <2>4. ASSUME NEW r PROVE RequestOK(r) => RequestOK(r)'
    <3>1. LooksAtRows(r) => LooksAtRows(r)'
      BY <1>1 DEF LooksAtRows, IsStored, RowOf
    <3>2. LockProtects(r) => LockProtects(r)'
      BY <1>1 DEF LockProtects, Catalog!View
    <3>3. DeletesRejected(r) => DeletesRejected(r)'
      BY <1>1 DEF DeletesRejected, Catalog!Fresh
    <3>4. QED
      BY <3>1, <3>2, <3>3 DEF RequestOK
  <2>5. QED
    BY <2>1, <2>2, <2>3, <2>4 DEF CatalogInv
<1>3. PagingInv => PagingInv'
  <2>1. Paging!TypeOK => Paging!TypeOK'
    BY <1>1 DEF Paging!TypeOK
  <2>2. Paging!Listings' = Paging!Listings
    BY <1>1 DEF Paging!Listings, Paging!Chain
  <2>3. Paging!WholeOrNothing => Paging!WholeOrNothing'
    BY <1>1, <2>2 DEF Paging!WholeOrNothing
  <2>4. OnTheWay => OnTheWay'
    BY <1>1 DEF OnTheWay, Trail, Followed, Joined, Pages, Flat
  <2>5. QED
    BY <1>1, <2>1, <2>3, <2>4 DEF PagingInv
<1>4. ResponseInv => ResponseInv'
  BY <1>1 DEF ResponseInv, Response!TypeOK, CallProgress, TaintIsFlagged, OutcomeOK,
              Response!DefiniteIsAnswered, Response!AnsweredIsDefinite, Response!ResultIsClean
<1>5. MatcherInv => MatcherInv'
  BY <1>1 DEF MatcherInv
<1>6. KeysInv => KeysInv'
  BY <1>1 DEF KeysInv, OneKeySet, NegativesOK, LoadedIsRecent
<1>7. QED
  BY <1>1, <1>2, <1>3, <1>4, <1>5, <1>6 DEF UpstreamInv

\* Each component's invariant holds throughout.
THEOREM UpstreamInvariant == Spec => []UpstreamInv
<1>1. Init => UpstreamInv
  BY CatalogInit, PagingInit, ResponseInit, MatcherInit, KeysInit DEF Init, UpstreamInv
<1>2. UpstreamInv /\ [Next]_vars => UpstreamInv'
  <2> SUFFICES ASSUME UpstreamInv, [Next]_vars PROVE UpstreamInv'
    OBVIOUS
  <2>1. CASE UNCHANGED vars
    BY <2>1, Unmoved
  <2>2. CASE Next
    <3>1. subject' = subject
      BY <2>2 DEF Next
    <3>2. /\ subject = "catalog" => Catalog!Next
          /\ subject = "paging" => Paging!Next
          /\ subject = "response" => Response!Next
          /\ subject = "matcher" => Matcher!Next
          /\ subject = "keys" => Keys!Next
      BY <2>2 DEF Next
    <3>3. QED
      BY <3>1, <3>2, CatalogStep, PagingStep, ResponseStep, MatcherStep, KeysStep DEF UpstreamInv
  <2>3. QED
    BY <2>1, <2>2
<1>3. QED
  BY <1>1, <1>2, PTL DEF Spec

\* However searches and imports interleave, expire, reject and roll back, the cache and
\* the catalogue stay sound (OfficialRegistryService).
THEOREM CacheKept == Spec => []CacheIsSound
<1>1. UpstreamInv => CacheIsSound
  BY CatalogTyped DEF UpstreamInv, CacheIsSound
<1>2. QED
  BY <1>1, UpstreamInvariant, PTL

\* A cached answer leaves the cache only when it expired or was rejected, and none is
\* served or imported that expired while it was screened (_purge_rejected_cache,
\* _read_cache, import_cached).
THEOREM LiveAnswersKept == Spec => FreshOrRejected
<1>1. UpstreamInv /\ [Next]_vars
      => [subject = "catalog" => Catalog!LiveRowsAreKept /\ Catalog!AnswersAreFresh]_vars
  BY CatalogStep DEF UpstreamInv, Next
<1>2. QED
  BY <1>1, UpstreamInvariant, PTL DEF Spec, FreshOrRejected

\* A paging loop returns all of a finite listing within its limits, or fails; and it
\* returns it whenever there is one and no request fails (_search_with_client, _discover).
THEOREM ListingsWhole == Spec => []WholeOrNothing
<1>1. UpstreamInv => WholeOrNothing
  BY DEF UpstreamInv, PagingInv, WholeOrNothing
<1>2. QED
  BY <1>1, UpstreamInvariant, PTL

\* How invoke ends agrees with what became of the call, whichever of timeout, refusal,
\* overrun and answer comes first (invoke, LimitedByteStream).
THEOREM OutcomeKept == Spec => []OutcomeIsTrue
<1>1. ResponseInv => Response!UndispatchedIsUnsent
  BY Flags DEF ResponseInv, OutcomeOK, Response!TypeOK, Response!UndispatchedIsUnsent
<1>2. UpstreamInv => OutcomeIsTrue
  BY <1>1 DEF UpstreamInv, ResponseInv, OutcomeOK, OutcomeIsTrue
<1>3. QED
  BY <1>2, UpstreamInvariant, PTL

\* No result is returned from an answer that held a forbidden value (LimitedByteStream).
THEOREM ResultsClean == Spec => []ResultIsClean
<1>1. UpstreamInv => ResultIsClean
  BY DEF UpstreamInv, ResponseInv, OutcomeOK, ResultIsClean
<1>2. QED
  BY <1>1, UpstreamInvariant, PTL

\* The matcher has reported a match exactly when one of its strings occurs in what it was
\* fed, for all strings, all streams and all ways to cut them (_IncrementalByteMatcher).
THEOREM MatcherCorrect == Spec => []FoundWhereverCut
<1>1. UpstreamInv => FoundWhereverCut
  BY MatcherFinds DEF UpstreamInv, FoundWhereverCut
<1>2. QED
  BY <1>1, UpstreamInvariant, PTL

\* A revoked key is used for less than the refresh interval, and a key that is loaded is
\* never masked by the memory of its absence (PyJwkSigningKeyResolver.resolve).
THEOREM RevokedKeysKept == Spec => RevokedKeysStop
<1>1. UpstreamInv /\ UpstreamInv' /\ [Next]_vars
      => [subject = "keys" => /\ Keys!RevokedKeysStop /\ Keys!NegativeNeverMasks
                              /\ Keys!TypeOK']_vars
  <2> SUFFICES ASSUME UpstreamInv, UpstreamInv', Next, subject = "keys"
               PROVE  Keys!RevokedKeysStop /\ Keys!NegativeNeverMasks /\ Keys!TypeOK'
    BY DEF vars
  <2>1. KeysInv /\ KeysInv' /\ Keys!Next
    BY DEF UpstreamInv, Next
  <2>2. Keys!RevokedKeysStop
    BY <2>1, KeysStep
  <2>3. Keys!NegativeNeverMasks
    BY <2>1, ResolveOK DEF Keys!NegativeNeverMasks
  <2>4. (KeysInv => Keys!TypeOK)'
    BY KeysTyped, PTL
  <2>5. QED
    BY <2>1, <2>2, <2>3, <2>4
<1>2. QED
  BY <1>1, UpstreamInvariant, PTL DEF Spec, RevokedKeysStop
=============================================================================
