---------------------------- MODULE Permits_proofs ----------------------------
(***************************************************************************)
(* Proofs about the bounded resources of an API process, for any number of *)
(* calls and any limit: no permit or slot is lost or made, and a peer gets *)
(* more than its limit only once the limiter had to forget it.             *)
(***************************************************************************)
EXTENDS MCPermits, FiniteSetTheorems, FunctionTheorems, SequenceTheorems, TLAPS

(* Scanner processes. *)

PoolTypes(a) ==
    /\ available \in 0 .. LimitOf(a)
    /\ waiters \in Seq(ScansOf(a))
    /\ pc \in [ScansOf(a) -> Pool(a)!Places]
    /\ granted \subseteq ScansOf(a) /\ cancelled \subseteq ScansOf(a)
    /\ future \in [ScansOf(a) -> {"pending", "set", "cancelled"}]
    /\ scheduled \subseteq ScansOf(a) /\ alive \subseteq ScansOf(a)
    /\ outlived \subseteq ScansOf(a)
    /\ closed \subseteq Loops
    /\ \A i, j \in DOMAIN waiters : i # j => waiters[i] # waiters[j]

\* Who is in the deque and not cancelled still waits and was not granted a permit.
WaitersWait ==
    \A i \in DOMAIN waiters :
        waiters[i] \notin cancelled =>
            pc[waiters[i]] \in {"waiting", "interrupted"} /\ waiters[i] \notin granted

\* A call that has not asked was granted nothing and is not in the deque.
NewIsUnknown(a) ==
    \A s \in ScansOf(a) :
        pc[s] = "new" => s \notin granted /\ \A i \in DOMAIN waiters : waiters[i] # s

\* A notification, queued or delivered, follows a grant.
NotifiedIsGranted(a) ==
    scheduled \subseteq granted /\ \A s \in ScansOf(a) : future[s] = "set" => s \in granted

\* No permit is lost.
Counted(a) ==
    /\ IsFiniteSet(Pool(a)!Owners)
    /\ available + Cardinality(Pool(a)!Owners) >= LimitOf(a)

\* Where loops wait for their scans none is made either, and a child's call has a permit
\* or its cleanup is over.
Orderly(a) ==
    /\ refused = FALSE
    /\ available + Cardinality(Pool(a)!Owners) = LimitOf(a)
    /\ alive \subseteq {s \in ScansOf(a) : pc[s] \in {"scanning", "closing"}}
    /\ outlived \subseteq {s \in ScansOf(a) : pc[s] \in {"closing", "done"}}
    /\ \A s \in ScansOf(a) : LoopOf[s] \in closed => pc[s] \in {"new", "done"}

PoolInv(a) ==
    /\ PoolTypes(a)
    /\ WaitersWait
    /\ NewIsUnknown(a)
    /\ NotifiedIsGranted(a)
    /\ available > 0 => waiters = << >>
    /\ Counted(a)
    /\ ~a => Orderly(a)

\* The constants and the deque.
LEMMA PoolFacts ==
    ASSUME NEW a \in BOOLEAN, PoolInv(a)
    PROVE  /\ LimitOf(a) \in Nat \ {0} /\ available \in Nat
           /\ DOMAIN waiters = 1 .. Len(waiters) /\ Len(waiters) \in Nat
           /\ \A i \in DOMAIN waiters : waiters[i] \in ScansOf(a)
           /\ Cardinality(Pool(a)!Owners) \in Nat
<1>1. LimitOf(a) \in Nat \ {0}
  BY PermitsAssumption DEF Pool!LimitAssumption
<1>2. Cardinality(Pool(a)!Owners) \in Nat
  BY FS_CardinalityType DEF PoolInv, Counted
<1>3. QED
  BY <1>1, <1>2 DEF PoolInv, PoolTypes

\* A step of call s that changes neither the deque nor who owns a permit.
LEMMA PoolMoves ==
    ASSUME NEW a \in BOOLEAN, PoolInv(a), NEW s \in ScansOf(a), NEW place \in Pool(a)!Places,
           pc' = [pc EXCEPT ![s] = place],
           UNCHANGED <<available, waiters, granted, closed, refused>>,
           cancelled \subseteq cancelled', cancelled' \subseteq ScansOf(a),
           future' \in [ScansOf(a) -> {"pending", "set", "cancelled"}],
           \A t \in ScansOf(a) : future'[t] = "set" => t \in granted,
           scheduled' \subseteq scheduled, alive' \subseteq ScansOf(a), outlived' \subseteq ScansOf(a),
           place = "new" => pc[s] = "new",
           s \in Pool(a)!Owners <=>
              \/ place \in {"giving_back", "scanning", "closing"}
              \/ place \in {"waiting", "interrupted"} /\ s \in granted,
           pc[s] \in {"waiting", "interrupted"} /\ place \notin {"waiting", "interrupted"} =>
              s \in granted \cup cancelled',
           ~a => /\ LoopOf[s] \notin closed \/ place \in {"new", "done"}
                 /\ alive' \subseteq {t \in ScansOf(a) : pc'[t] \in {"scanning", "closing"}}
                 /\ outlived' \subseteq {t \in ScansOf(a) : pc'[t] \in {"closing", "done"}}
    PROVE  PoolInv(a)'
<1>1. \A t \in ScansOf(a) : pc'[t] = IF t = s THEN place ELSE pc[t]
  BY DEF PoolInv, PoolTypes
<1>2. Pool(a)!Owners' = Pool(a)!Owners
  BY <1>1 DEF Pool!Owners
<1>3. PoolTypes(a)'
  <2>1. pc' \in [ScansOf(a) -> Pool(a)!Places]
    BY DEF PoolInv, PoolTypes
  <2>2. scheduled' \subseteq ScansOf(a) /\ granted' \subseteq ScansOf(a)
    BY DEF PoolInv, PoolTypes
  <2>3. QED
    BY <2>1, <2>2 DEF PoolInv, PoolTypes, Pool!Places
<1>4. WaitersWait'
  BY <1>1, PoolFacts DEF PoolInv, WaitersWait
<1>5. NewIsUnknown(a)' /\ NotifiedIsGranted(a)'
  BY <1>1 DEF PoolInv, NewIsUnknown, NotifiedIsGranted
<1>6. Counted(a)'
  BY <1>2 DEF PoolInv, Counted
<1>7. ~a => Orderly(a)'
  BY <1>1, <1>2 DEF PoolInv, Orderly
<1>8. QED
  BY <1>3, <1>4, <1>5, <1>6, <1>7 DEF PoolInv

\* _acquire_scanner_process_permit: a permit at once, or the end of the deque.
LEMMA PoolAcquires ==
    ASSUME NEW a \in BOOLEAN, PoolInv(a), NEW s \in ScansOf(a), Pool(a)!Acquire(s)
    PROVE  PoolInv(a)'
<1>1. /\ pc[s] = "new" /\ LoopOf[s] \notin closed
      /\ UNCHANGED <<granted, cancelled, future, scheduled, outlived, closed, refused>>
  BY DEF Pool!Acquire, Pool!LoopClosed
<1>2. s \notin granted /\ s \notin Pool(a)!Owners /\ \A i \in DOMAIN waiters : waiters[i] # s
  BY <1>1 DEF PoolInv, NewIsUnknown, Pool!Owners
<1>3. CASE available > 0 /\ available' = available - 1 /\ Pool(a)!Scan(s) /\ UNCHANGED waiters
  <2>1. PICK place \in {"scanning", "closing"} : pc' = [pc EXCEPT ![s] = place]
    BY <1>3 DEF Pool!Scan
  <2>2. \A t \in ScansOf(a) : pc'[t] = IF t = s THEN place ELSE pc[t]
    BY <2>1 DEF PoolInv, PoolTypes
  <2>3. alive' \subseteq alive \cup {s}
    BY <1>3 DEF Pool!Scan
  <2>4. waiters = << >> /\ waiters' = << >> /\ DOMAIN << >> = {}
    BY <1>3 DEF PoolInv
  <2>5. Pool(a)!Owners' = Pool(a)!Owners \cup {s}
    BY <1>1, <2>1, <2>2 DEF Pool!Owners
  <2>6. /\ IsFiniteSet(Pool(a)!Owners')
        /\ Cardinality(Pool(a)!Owners') = Cardinality(Pool(a)!Owners) + 1
    BY <1>2, <2>5, FS_AddElement DEF PoolInv, Counted
  <2>7. available' \in 0 .. LimitOf(a)
    BY <1>3, PoolFacts DEF PoolInv, PoolTypes
  <2>8. PoolTypes(a)'
    <3>1. pc' \in [ScansOf(a) -> Pool(a)!Places]
      BY <2>1 DEF PoolInv, PoolTypes, Pool!Places
    <3>2. QED
      BY <1>1, <2>3, <2>4, <2>7, <3>1 DEF PoolInv, PoolTypes, Pool!Places
  <2>9. WaitersWait' /\ NewIsUnknown(a)' /\ NotifiedIsGranted(a)'
    BY <1>1, <2>1, <2>2, <2>4 DEF PoolInv, WaitersWait, NewIsUnknown, NotifiedIsGranted
  <2>10. Counted(a)'
    BY <1>3, <2>6, PoolFacts DEF PoolInv, Counted
  <2>11. ASSUME ~a PROVE Orderly(a)'
    <3>1. Orderly(a)
      BY <2>11 DEF PoolInv
    <3>2. available' + Cardinality(Pool(a)!Owners') = LimitOf(a)
      BY <1>3, <2>6, <3>1, PoolFacts DEF Orderly
    <3>3. QED
      BY <1>1, <2>1, <2>2, <2>3, <3>1, <3>2 DEF Orderly
  <2>12. QED
    BY <2>4, <2>8, <2>9, <2>10, <2>11 DEF PoolInv
<1>4. CASE /\ available = 0 /\ waiters' = Append(waiters, s)
           /\ pc' = [pc EXCEPT ![s] = "waiting"] /\ UNCHANGED <<available, alive>>
  <2>1. \A t \in ScansOf(a) : pc'[t] = IF t = s THEN "waiting" ELSE pc[t]
    BY <1>4 DEF PoolInv, PoolTypes
  <2>2. Pool(a)!Owners' = Pool(a)!Owners
    BY <1>1, <1>2, <2>1 DEF Pool!Owners
  <2>3. /\ waiters' \in Seq(ScansOf(a)) /\ DOMAIN waiters' = 1 .. Len(waiters) + 1
        /\ waiters'[Len(waiters) + 1] = s
        /\ \A i \in DOMAIN waiters : waiters'[i] = waiters[i]
        /\ \A i \in DOMAIN waiters' : i \in DOMAIN waiters \/ i = Len(waiters) + 1
    BY <1>4, PoolFacts DEF PoolInv, PoolTypes
  <2>4. PoolTypes(a)'
    <3>1. pc' \in [ScansOf(a) -> Pool(a)!Places]
      BY <1>4 DEF PoolInv, PoolTypes, Pool!Places
    <3>2. \A i, j \in DOMAIN waiters' : i # j => waiters'[i] # waiters'[j]
      BY <1>2, <2>3 DEF PoolInv, PoolTypes
    <3>3. QED
      BY <1>1, <1>4, <2>3, <3>1, <3>2 DEF PoolInv, PoolTypes, Pool!Places
  <2>5. WaitersWait'
    BY <1>1, <1>2, <2>1, <2>3, PoolFacts DEF PoolInv, WaitersWait
  <2>6. NewIsUnknown(a)' /\ NotifiedIsGranted(a)'
    BY <1>1, <2>1, <2>3 DEF PoolInv, NewIsUnknown, NotifiedIsGranted
  <2>7. Counted(a)' /\ (~a => Orderly(a)')
    BY <1>1, <1>4, <2>1, <2>2 DEF PoolInv, Counted, Orderly
  <2>8. ~(available' > 0)
    BY <1>4
  <2>9. QED
    BY <2>4, <2>5, <2>6, <2>7, <2>8 DEF PoolInv
<1>5. QED
  BY <1>3, <1>4 DEF Pool!Acquire

\* What a call gives back goes to the first waiter that can be told, or to the pool.
LEMMA PoolReleases ==
    ASSUME NEW a \in BOOLEAN, PoolInv(a), NEW s \in ScansOf(a), Pool(a)!Release,
           pc[s] \in {"giving_back", "scanning", "closing"},
           pc' = [pc EXCEPT ![s] = "done"], UNCHANGED <<future, alive, outlived, closed>>,
           ~a => s \notin alive
    PROVE  PoolInv(a)'
<1> DEFINE owners == Pool(a)!Owners
<1>1. \A t \in ScansOf(a) : pc'[t] = IF t = s THEN "done" ELSE pc[t]
  BY DEF PoolInv, PoolTypes
<1>2. pc' \in [ScansOf(a) -> Pool(a)!Places]
  BY DEF PoolInv, PoolTypes, Pool!Places
<1>3. s \in owners /\ IsFiniteSet(owners) /\ Cardinality(owners) \in Nat
  BY PoolFacts DEF Pool!Owners, PoolInv, Counted
<1>4. IsFiniteSet(owners \ {s}) /\ Cardinality(owners \ {s}) = Cardinality(owners) - 1
  BY <1>3, FS_RemoveElement
<1>5. \A n \in 0 .. Len(waiters) :
        /\ Pool(a)!Unreachable(n) \subseteq ScansOf(a)
        /\ IsFiniteSet(Pool(a)!Unreachable(n))
        /\ ~a => Pool(a)!Unreachable(n) = {}
  <2> TAKE n \in 0 .. Len(waiters)
  <2> DEFINE T == {j \in 1 .. n : waiters[j] \notin cancelled /\ Pool(a)!LoopClosed(waiters[j])}
             f == [j \in T |-> waiters[j]]
  <2>1. Pool(a)!Unreachable(n) = {waiters[j] : j \in T} /\ T \subseteq DOMAIN waiters
    BY PoolFacts DEF Pool!Unreachable
  <2>2. IsFiniteSet(1 .. n) /\ T \in SUBSET (1 .. n)
    <3>1. 1 \in Int /\ n \in Int
      BY PoolFacts
    <3>2. IsFiniteSet(1 .. n)
      BY <3>1, FS_Interval
    <3>3. QED
      BY <3>2
  <2>3. IsFiniteSet(T)
    BY <2>2, FS_Subset
  <2>4. f \in Surjection(T, Pool(a)!Unreachable(n))
    BY <2>1 DEF Surjection
  <2>5. IsFiniteSet(Pool(a)!Unreachable(n))
    BY <2>3, <2>4, FS_Surjection
  <2>6. ~a => T = {}
    BY <2>1, PoolFacts DEF PoolInv, Orderly, WaitersWait, Pool!LoopClosed
  <2>7. QED
    BY <2>1, <2>5, <2>6, PoolFacts
<1> HIDE DEF owners
<1>6. ASSUME NEW n \in DOMAIN waiters, Pool(a)!First(n),
             waiters' = SubSeq(waiters, n + 1, Len(waiters)),
             granted' = granted \cup Pool(a)!Unreachable(n) \cup {waiters[n]},
             cancelled' = cancelled \cup Pool(a)!Unreachable(n),
             scheduled' = scheduled \cup {waiters[n]}, UNCHANGED <<available, refused>>
      PROVE  PoolInv(a)'
  <2> DEFINE w == waiters[n]
             missed == Pool(a)!Unreachable(n)
  <2>1. /\ w \in ScansOf(a) /\ w \notin cancelled /\ w \notin granted
        /\ pc[w] \in {"waiting", "interrupted"} /\ w # s
    BY <1>6, PoolFacts DEF Pool!First, Pool!Servable, PoolInv, WaitersWait
  <2>2. /\ waiters' \in Seq(ScansOf(a)) /\ Len(waiters') = Len(waiters) - n
        /\ DOMAIN waiters' = 1 .. Len(waiters) - n
        /\ \A i \in 1 .. Len(waiters) - n : waiters'[i] = waiters[n + i]
    <3>1. n \in Int /\ n + 1 \in Int /\ Len(waiters) \in Int /\ n <= Len(waiters)
      BY PoolFacts
    <3>2. \A i \in n + 1 .. Len(waiters) : waiters[i] \in ScansOf(a)
      BY <3>1, PoolFacts
    <3>3. /\ waiters' \in Seq(ScansOf(a))
          /\ Len(waiters') = IF n + 1 <= Len(waiters) THEN Len(waiters) - (n + 1) + 1 ELSE 0
          /\ \A i \in 1 .. Len(waiters) - (n + 1) + 1 : waiters'[i] = waiters[n + 1 + i - 1]
      BY <1>6, <3>1, <3>2, SubSeqProperties
    <3>4. Len(waiters') = Len(waiters) - n
      BY <3>1, <3>3
    <3>5. \A i \in 1 .. Len(waiters) - n : waiters'[i] = waiters[n + i]
      <4>1. \A i \in 1 .. Len(waiters) - n : i \in 1 .. Len(waiters) - (n + 1) + 1 /\ n + 1 + i - 1 = n + i
        BY <3>1
      <4>2. QED
        BY <3>3, <4>1
    <3>6. DOMAIN waiters' = 1 .. Len(waiters')
      BY <3>3
    <3>7. QED
      BY <3>3, <3>4, <3>5, <3>6, Zenon
  <2>3. \A i \in DOMAIN waiters' : n + i \in DOMAIN waiters /\ n + i # n /\ waiters'[i] = waiters[n + i]
    BY <2>2, PoolFacts
  <2>4. /\ missed \subseteq ScansOf(a) /\ IsFiniteSet(missed) /\ (~a => missed = {})
        /\ \A x \in missed : \E i \in DOMAIN waiters : waiters[i] = x
    <3>1. n \in 0 .. Len(waiters)
      BY PoolFacts
    <3>2. \A x \in missed : \E i \in DOMAIN waiters : waiters[i] = x
      BY <3>1, PoolFacts DEF Pool!Unreachable
    <3>3. QED
      BY <1>5, <3>1, <3>2
  <2> HIDE DEF missed
  <2>5. PoolTypes(a)'
    <3>1. \A i, j \in DOMAIN waiters' : i # j => n + i # n + j
      BY <2>2, PoolFacts
    <3>2. \A i, j \in DOMAIN waiters' : i # j => waiters'[i] # waiters'[j]
      BY <2>3, <3>1 DEF PoolInv, PoolTypes
    <3>3. /\ granted' \subseteq ScansOf(a) /\ cancelled' \subseteq ScansOf(a)
          /\ scheduled' \subseteq ScansOf(a)
      BY <1>6, <2>1, <2>4 DEF PoolInv, PoolTypes, missed
    <3>4. QED
      BY <1>2, <1>6, <2>2, <3>2, <3>3 DEF PoolInv, PoolTypes, Pool!Places
  <2>6. WaitersWait'
    <3>1. SUFFICES ASSUME NEW i \in DOMAIN waiters', waiters'[i] \notin cancelled'
                   PROVE  pc'[waiters'[i]] \in {"waiting", "interrupted"} /\ waiters'[i] \notin granted'
      BY DEF WaitersWait
    <3> DEFINE x == waiters[n + i]
    <3>2. x \notin cancelled /\ x \notin missed /\ x \in ScansOf(a) /\ x # w
      BY <1>6, <2>3, <3>1, PoolFacts DEF missed, PoolInv, PoolTypes
    <3>3. pc[x] \in {"waiting", "interrupted"} /\ x \notin granted
      BY <2>3, <3>2 DEF PoolInv, WaitersWait
    <3>4. QED
      BY <1>1, <1>6, <2>3, <3>2, <3>3 DEF missed
  <2>7. NewIsUnknown(a)'
    <3>1. SUFFICES ASSUME NEW t \in ScansOf(a), pc'[t] = "new"
                   PROVE  t \notin granted' /\ \A i \in DOMAIN waiters' : waiters'[i] # t
      BY DEF NewIsUnknown
    <3>2. t \notin granted /\ \A i \in DOMAIN waiters : waiters[i] # t
      BY <1>1, <3>1 DEF PoolInv, NewIsUnknown
    <3>3. QED
      BY <1>6, <2>3, <2>4, <3>2 DEF missed
  <2>8. NotifiedIsGranted(a)'
    BY <1>6 DEF PoolInv, NotifiedIsGranted
  <2>9. /\ (owners \ {s}) \cup {w} \subseteq Pool(a)!Owners'
        /\ Pool(a)!Owners' \subseteq ((owners \ {s}) \cup {w}) \cup missed
    BY <1>1, <1>6, <2>1, <2>4 DEF Pool!Owners, owners, missed
  <2>10. w \notin owners \ {s}
    BY <2>1 DEF owners, Pool!Owners
  <2>11. /\ IsFiniteSet((owners \ {s}) \cup {w})
         /\ Cardinality((owners \ {s}) \cup {w}) = Cardinality(owners)
    <3>1. /\ IsFiniteSet((owners \ {s}) \cup {w})
          /\ Cardinality((owners \ {s}) \cup {w}) = Cardinality(owners \ {s}) + 1
      BY <1>4, <2>10, FS_AddElement
    <3>2. QED
      BY <1>3, <1>4, <3>1
  <2>12. IsFiniteSet(((owners \ {s}) \cup {w}) \cup missed)
    BY <2>4, <2>11, FS_Union
  <2>13. /\ IsFiniteSet(Pool(a)!Owners') /\ Cardinality(Pool(a)!Owners') \in Nat
         /\ Cardinality(owners) <= Cardinality(Pool(a)!Owners')
    BY <2>9, <2>11, <2>12, FS_Subset, FS_CardinalityType
  <2>14. Counted(a)'
    BY <1>3, <1>6, <2>13, PoolFacts DEF PoolInv, Counted, owners
  <2>15. ~a => Cardinality(Pool(a)!Owners') = Cardinality(owners)
    <3>1. ~a => Pool(a)!Owners' = (owners \ {s}) \cup {w}
      BY <2>4, <2>9
    <3>2. QED
      BY <2>11, <3>1
  <2>16. ~a => Orderly(a)'
    BY <1>1, <1>6, <2>15 DEF PoolInv, Orderly, owners
  <2>17. available' > 0 => waiters' = << >>
    BY <1>6, PoolFacts DEF PoolInv
  <2>18. QED
    BY <2>5, <2>6, <2>7, <2>8, <2>14, <2>16, <2>17 DEF PoolInv
<1>7. ASSUME waiters' = << >>,
             granted' = granted \cup Pool(a)!Unreachable(Len(waiters)),
             cancelled' = cancelled \cup Pool(a)!Unreachable(Len(waiters)),
             scheduled' = scheduled,
             available' = IF available < LimitOf(a) THEN available + 1 ELSE available,
             refused' = (refused \/ available >= LimitOf(a))
      PROVE  PoolInv(a)'
  <2> DEFINE missed == Pool(a)!Unreachable(Len(waiters))
  <2>1. /\ missed \subseteq ScansOf(a) /\ IsFiniteSet(missed) /\ (~a => missed = {})
        /\ \A x \in missed : \E i \in DOMAIN waiters : waiters[i] = x
    <3>1. Len(waiters) \in 0 .. Len(waiters)
      BY PoolFacts
    <3>2. \A x \in missed : \E i \in DOMAIN waiters : waiters[i] = x
      BY <3>1, PoolFacts DEF Pool!Unreachable
    <3>3. QED
      BY <1>5, <3>1, <3>2
  <2> HIDE DEF missed
  <2>2. DOMAIN waiters' = {} /\ waiters' \in Seq(ScansOf(a)) /\ available' \in 0 .. LimitOf(a)
    <3>1. available \in 0 .. LimitOf(a) /\ LimitOf(a) \in Nat
      BY PoolFacts DEF PoolInv, PoolTypes
    <3>2. available' \in 0 .. LimitOf(a)
      BY <1>7, <3>1
    <3>3. QED
      BY <1>7, <3>2
  <2>3. PoolTypes(a)'
    <3>1. granted' \subseteq ScansOf(a) /\ cancelled' \subseteq ScansOf(a)
      BY <1>7, <2>1 DEF PoolInv, PoolTypes, missed
    <3>2. QED
      BY <1>2, <1>7, <2>2, <3>1 DEF PoolInv, PoolTypes, Pool!Places
  <2>4. WaitersWait' /\ NotifiedIsGranted(a)'
    BY <1>7, <2>2 DEF PoolInv, WaitersWait, NotifiedIsGranted
  <2>5. NewIsUnknown(a)'
    BY <1>1, <1>7, <2>1, <2>2 DEF PoolInv, NewIsUnknown, missed
  <2>6. /\ owners \ {s} \subseteq Pool(a)!Owners'
        /\ Pool(a)!Owners' \subseteq (owners \ {s}) \cup missed
    BY <1>1, <1>7, <2>1 DEF Pool!Owners, owners, missed
  <2>7. IsFiniteSet((owners \ {s}) \cup missed)
    BY <1>4, <2>1, FS_Union
  <2>8. /\ IsFiniteSet(Pool(a)!Owners') /\ Cardinality(Pool(a)!Owners') \in Nat
        /\ Cardinality(owners) - 1 <= Cardinality(Pool(a)!Owners')
    BY <1>4, <2>6, <2>7, FS_Subset, FS_CardinalityType
  <2>9. Counted(a)'
    BY <1>3, <1>7, <2>8, PoolFacts DEF PoolInv, Counted, owners
  <2>10. ~a => Cardinality(Pool(a)!Owners') = Cardinality(owners) - 1
    <3>1. ~a => Pool(a)!Owners' = owners \ {s}
      BY <2>1, <2>6
    <3>2. QED
      BY <1>4, <3>1
  <2>11. Cardinality(owners) >= 1
    <3>1. Cardinality(owners \ {s}) \in Nat
      BY <1>4, FS_CardinalityType
    <3>2. QED
      BY <1>3, <1>4, <3>1
  <2>12. ASSUME ~a PROVE Orderly(a)'
    <3>1. Orderly(a) /\ available + Cardinality(owners) = LimitOf(a)
      BY <2>12 DEF PoolInv, Orderly, owners
    <3>2. available < LimitOf(a) /\ available' = available + 1
      BY <1>3, <1>7, <2>11, <3>1, PoolFacts
    <3>3. available' + Cardinality(Pool(a)!Owners') = LimitOf(a)
      BY <1>3, <2>10, <2>12, <3>1, <3>2, PoolFacts
    <3>4. ~(available >= LimitOf(a))
      BY <3>2, PoolFacts
    <3>5. refused' = FALSE
      BY <1>7, <3>1, <3>4 DEF Orderly
    <3>6. QED
      BY <1>1, <2>12, <3>1, <3>3, <3>5 DEF Orderly
  <2>13. QED
    BY <1>7, <2>3, <2>4, <2>5, <2>9, <2>12 DEF PoolInv
<1>8. QED
  BY <1>6, <1>7 DEF Pool!Release

\* Every step of a scan, a loop's end, and stuttering.
LEMMA PoolStep ==
    ASSUME NEW a \in BOOLEAN, PoolInv(a),
           Pool(a)!Next \/ UNCHANGED <<pc, cancelled, scannerVars>>
    PROVE  PoolInv(a)'
<1>1. ASSUME NEW s \in ScansOf(a), Pool(a)!Notify(s) PROVE PoolInv(a)'
  <2>1. /\ s \in scheduled /\ scheduled' = scheduled \ {s}
        /\ future' = [future EXCEPT ![s] = IF future[s] = "pending" THEN "set" ELSE future[s]]
        /\ UNCHANGED <<available, waiters, pc, granted, cancelled, alive, outlived, closed, refused>>
    BY <1>1 DEF Pool!Notify
  <2>2. s \in granted /\ pc[s] \in Pool(a)!Places /\ pc' = [pc EXCEPT ![s] = pc[s]]
    BY <2>1 DEF PoolInv, PoolTypes, NotifiedIsGranted
  <2>3. /\ future' \in [ScansOf(a) -> {"pending", "set", "cancelled"}]
        /\ \A t \in ScansOf(a) : future'[t] = "set" => t \in granted
    BY <2>1, <2>2 DEF PoolInv, PoolTypes, NotifiedIsGranted
  <2>4. ~a => /\ LoopOf[s] \notin closed \/ pc[s] \in {"new", "done"}
              /\ alive' \subseteq {t \in ScansOf(a) : pc'[t] \in {"scanning", "closing"}}
              /\ outlived' \subseteq {t \in ScansOf(a) : pc'[t] \in {"closing", "done"}}
    BY <2>1 DEF PoolInv, Orderly
  <2>5. /\ cancelled \subseteq cancelled' /\ cancelled' \subseteq ScansOf(a)
        /\ scheduled' \subseteq scheduled /\ alive' \subseteq ScansOf(a)
        /\ outlived' \subseteq ScansOf(a)
    BY <2>1 DEF PoolInv, PoolTypes
  <2>6. s \in Pool(a)!Owners <=>
              \/ pc[s] \in {"giving_back", "scanning", "closing"}
              \/ pc[s] \in {"waiting", "interrupted"} /\ s \in granted
    BY DEF Pool!Owners
  <2>7. QED
    BY <2>1, <2>2, <2>3, <2>4, <2>5, <2>6, PoolMoves
<1>2. ASSUME NEW s \in ScansOf(a), NEW place \in Pool(a)!Places, pc' = [pc EXCEPT ![s] = place],
             pc[s] # "new", place # "new",
             UNCHANGED <<available, waiters, granted, scheduled, closed, refused>>,
             cancelled \subseteq cancelled', cancelled' \subseteq ScansOf(a),
             alive' \subseteq alive \cup {s},
             ~a => (s \in alive' => place \in {"scanning", "closing"}),
             outlived' \subseteq outlived \cup {s},
             ~a => (s \in outlived' => place \in {"closing", "done"}),
             future' = future \/
               future' = [future EXCEPT ![s] = IF future[s] = "pending" THEN "cancelled" ELSE future[s]],
             s \in Pool(a)!Owners <=>
               \/ place \in {"giving_back", "scanning", "closing"}
               \/ place \in {"waiting", "interrupted"} /\ s \in granted,
             pc[s] \in {"waiting", "interrupted"} /\ place \notin {"waiting", "interrupted"} =>
               s \in granted \cup cancelled',
             ~a => LoopOf[s] \notin closed \/ place = "done"
      PROVE  PoolInv(a)'
  <2>1. \A t \in ScansOf(a) : pc'[t] = IF t = s THEN place ELSE pc[t]
    BY <1>2 DEF PoolInv, PoolTypes
  <2>2. /\ future' \in [ScansOf(a) -> {"pending", "set", "cancelled"}]
        /\ \A t \in ScansOf(a) : future'[t] = "set" => t \in granted
    BY <1>2 DEF PoolInv, PoolTypes, NotifiedIsGranted
  <2>3. scheduled' \subseteq scheduled /\ alive' \subseteq ScansOf(a) /\ outlived' \subseteq ScansOf(a)
    BY <1>2 DEF PoolInv, PoolTypes
  <2>4. ~a => /\ LoopOf[s] \notin closed \/ place \in {"new", "done"}
              /\ alive' \subseteq {t \in ScansOf(a) : pc'[t] \in {"scanning", "closing"}}
              /\ outlived' \subseteq {t \in ScansOf(a) : pc'[t] \in {"closing", "done"}}
    BY <1>2, <2>1, <2>3 DEF PoolInv, Orderly
  <2>5. QED
    BY <1>2, <2>2, <2>3, <2>4, PoolMoves
<1>3. ASSUME NEW s \in ScansOf(a), Pool(a)!Resume(s) PROVE PoolInv(a)'
  <2>1. PICK place \in {"scanning", "closing"} :
           pc' = [pc EXCEPT ![s] = place] /\ alive' \subseteq alive \cup {s}
    BY <1>3 DEF Pool!Resume, Pool!Scan
  <2>2. /\ pc[s] = "waiting" /\ future[s] = "set" /\ LoopOf[s] \notin closed
        /\ UNCHANGED <<available, waiters, granted, cancelled, future, scheduled, outlived, closed, refused>>
    BY <1>3 DEF Pool!Resume, Pool!LoopClosed
  <2>3. s \in granted /\ place \in Pool(a)!Places /\ cancelled' \subseteq ScansOf(a)
    BY <2>2 DEF PoolInv, PoolTypes, NotifiedIsGranted, Pool!Places
  <2>4. s \in Pool(a)!Owners
    BY <2>2, <2>3 DEF Pool!Owners
  <2>5. ~a => s \notin outlived'
    BY <2>2 DEF PoolInv, Orderly
  <2>6. QED
    BY <1>2, <2>1, <2>2, <2>3, <2>4, <2>5
<1>4. ASSUME NEW s \in ScansOf(a), Pool(a)!Interrupt(s) PROVE PoolInv(a)'
  <2>1. /\ pc[s] = "waiting" /\ LoopOf[s] \notin closed /\ pc' = [pc EXCEPT ![s] = "interrupted"]
        /\ future' = [future EXCEPT ![s] = IF future[s] = "pending" THEN "cancelled" ELSE future[s]]
        /\ UNCHANGED <<available, waiters, granted, cancelled, scheduled, alive, outlived, closed,
                       refused>>
    BY <1>4 DEF Pool!Interrupt, Pool!LoopClosed
  <2>2. "interrupted" \in Pool(a)!Places /\ cancelled' \subseteq ScansOf(a)
    BY <2>1 DEF PoolInv, PoolTypes, Pool!Places
  <2>3. s \in Pool(a)!Owners <=> s \in granted
    BY <2>1 DEF Pool!Owners
  <2>4. ~a => s \notin alive' /\ s \notin outlived'
    BY <2>1 DEF PoolInv, Orderly
  <2>5. QED
    BY <1>2, <2>1, <2>2, <2>3, <2>4
<1>5. ASSUME NEW s \in ScansOf(a), Pool(a)!Withdraw(s) PROVE PoolInv(a)'
  <2>1. /\ pc[s] \in {"waiting", "interrupted"}
        /\ LoopOf[s] \in closed => pc[s] \in {"waiting", "interrupted"}
        /\ UNCHANGED <<available, waiters, granted, future, scheduled, alive, outlived, closed, refused>>
    BY <1>5 DEF Pool!Withdraw
  <2>2. ~a => LoopOf[s] \notin closed
    BY <2>1 DEF PoolInv, Orderly
  <2>3. s \in Pool(a)!Owners <=> s \in granted
    BY <2>1 DEF Pool!Owners
  <2>4. {"giving_back", "done"} \subseteq Pool(a)!Places /\ cancelled \cup {s} \subseteq ScansOf(a)
    BY DEF PoolInv, PoolTypes, Pool!Places
  <2>5. CASE s \in granted /\ pc' = [pc EXCEPT ![s] = "giving_back"] /\ UNCHANGED cancelled
    <3>1. ~a => s \notin alive /\ s \notin outlived
      BY <2>1 DEF PoolInv, Orderly
    <3>2. QED
      BY <1>2, <2>1, <2>2, <2>3, <2>4, <2>5, <3>1
  <2>6. CASE s \notin granted /\ cancelled' = cancelled \cup {s} /\ pc' = [pc EXCEPT ![s] = "done"]
    <3>1. ~a => s \notin alive /\ s \notin outlived
      BY <2>1 DEF PoolInv, Orderly
    <3>2. QED
      BY <1>2, <2>1, <2>2, <2>3, <2>4, <2>6, <3>1
  <2>7. QED
    BY <1>5, <2>5, <2>6 DEF Pool!Withdraw
<1>6. ASSUME NEW s \in ScansOf(a), Pool(a)!EndScan(s) \/ Pool(a)!Reap(s) PROVE PoolInv(a)'
  <2>1. /\ pc[s] \in {"scanning", "closing"} /\ LoopOf[s] \notin closed
        /\ pc' = [pc EXCEPT ![s] = "closing"]
        /\ alive' \subseteq alive /\ outlived' \subseteq outlived \cup {s}
        /\ UNCHANGED <<available, waiters, granted, cancelled, future, scheduled, closed, refused>>
    BY <1>6 DEF Pool!EndScan, Pool!Reap, Pool!LoopClosed, PoolInv, PoolTypes
  <2>2. "closing" \in Pool(a)!Places /\ cancelled' \subseteq ScansOf(a) /\ s \in Pool(a)!Owners
    BY <2>1 DEF PoolInv, PoolTypes, Pool!Places, Pool!Owners
  <2>3. QED
    BY <1>2, <2>1, <2>2
<1>7. ASSUME NEW s \in ScansOf(a), Pool(a)!ReturnGrant(s) \/ Pool(a)!Leave(s) PROVE PoolInv(a)'
  <2>1. /\ Pool(a)!Release /\ pc[s] \in {"giving_back", "scanning", "closing"}
        /\ pc' = [pc EXCEPT ![s] = "done"] /\ UNCHANGED <<future, alive, outlived, closed>>
    BY <1>7 DEF Pool!ReturnGrant, Pool!Leave
  <2>2. ~a => s \notin alive
    BY <1>7, <2>1 DEF Pool!ReturnGrant, Pool!Leave, Pool!Destroyed, Pool!LoopClosed, PoolInv, Orderly
  <2>3. QED
    BY <2>1, <2>2, PoolReleases
<1>8. ASSUME NEW l \in Loops, Pool(a)!CloseLoop(l) PROVE PoolInv(a)'
  <2>1. /\ closed' = closed \cup {l}
        /\ UNCHANGED <<available, waiters, pc, granted, cancelled, future, scheduled, alive, outlived,
                       refused>>
        /\ ~a => \A s \in ScansOf(a) : LoopOf[s] = l => pc[s] \in {"new", "done"}
    BY <1>8 DEF Pool!CloseLoop
  <2>2. Pool(a)!Owners' = Pool(a)!Owners
    BY <2>1 DEF Pool!Owners
  <2>3. PoolTypes(a)' /\ WaitersWait' /\ NewIsUnknown(a)' /\ NotifiedIsGranted(a)'
    BY <2>1 DEF PoolInv, PoolTypes, WaitersWait, NewIsUnknown, NotifiedIsGranted, Pool!Places
  <2>4. Counted(a)' /\ (~a => Orderly(a)')
    BY <2>1, <2>2 DEF PoolInv, Counted, Orderly
  <2>5. QED
    BY <2>1, <2>3, <2>4 DEF PoolInv
<1>9. ASSUME NEW s \in ScansOf(a), Pool(a)!Die(s) PROVE PoolInv(a)'
  <2>1. /\ outlived' \subseteq outlived
        /\ UNCHANGED <<available, waiters, pc, granted, cancelled, future, scheduled, alive, closed,
                       refused>>
    BY <1>9 DEF Pool!Die
  <2>2. Pool(a)!Owners' = Pool(a)!Owners
    BY <2>1 DEF Pool!Owners
  <2>3. PoolTypes(a)' /\ WaitersWait' /\ NewIsUnknown(a)' /\ NotifiedIsGranted(a)'
    BY <2>1 DEF PoolInv, PoolTypes, WaitersWait, NewIsUnknown, NotifiedIsGranted, Pool!Places
  <2>4. Counted(a)' /\ (~a => Orderly(a)')
    BY <2>1, <2>2 DEF PoolInv, Counted, Orderly
  <2>5. QED
    BY <2>1, <2>3, <2>4 DEF PoolInv
<1>10. CASE UNCHANGED <<pc, cancelled, scannerVars>>
  BY <1>10 DEF scannerVars, PoolInv, PoolTypes, WaitersWait, NewIsUnknown, NotifiedIsGranted,
              Counted, Orderly, Pool!Places, Pool!Owners
<1>11. QED
  BY <1>1, <1>3, <1>4, <1>5, <1>6, <1>7, <1>8, <1>9, <1>10, PoolAcquires DEF Pool!Next

\* Every permit is available.
LEMMA PoolInit ==
    ASSUME NEW a \in BOOLEAN, Pool(a)!Init
    PROVE  PoolInv(a)
<1>1. LimitOf(a) \in Nat
  BY PermitsAssumption DEF Pool!LimitAssumption
<1>2. /\ waiters = << >> /\ DOMAIN waiters = {} /\ available = LimitOf(a) /\ closed = {}
      /\ pc = [s \in ScansOf(a) |-> "new"] /\ future = [s \in ScansOf(a) |-> "pending"]
      /\ granted = {} /\ cancelled = {} /\ scheduled = {} /\ alive = {} /\ outlived = {} /\ refused = FALSE
  BY DEF Pool!Init
<1>3. Pool(a)!Owners = {}
  BY <1>2 DEF Pool!Owners
<1>4. IsFiniteSet({}) /\ Cardinality({}) = 0
  BY FS_EmptySet
<1>5. PoolTypes(a) /\ WaitersWait /\ NewIsUnknown(a) /\ NotifiedIsGranted(a)
  BY <1>1, <1>2 DEF PoolTypes, WaitersWait, NewIsUnknown, NotifiedIsGranted, Pool!Places
<1>6. Counted(a) /\ Orderly(a)
  BY <1>1, <1>2, <1>3, <1>4 DEF Counted, Orderly
<1>7. QED
  BY <1>2, <1>5, <1>6 DEF PoolInv

\* What the invariant says about permits.
LEMMA PoolSafe ==
    ASSUME NEW a \in BOOLEAN, PoolInv(a)
    PROVE  /\ Pool(a)!NoPermitLost /\ Pool(a)!NoIdlePermit
           /\ ~a => /\ Pool(a)!TypeOK /\ Pool(a)!PermitsConserved
                    /\ Pool(a)!ProcessesArePermitted
<1>1. \A S : Pool(a)!Cardinality(S) = Cardinality(S)
  BY DEF Pool!Cardinality, Cardinality
<1>2. Pool(a)!NoPermitLost /\ Pool(a)!NoIdlePermit
  BY <1>1 DEF PoolInv, Counted, Pool!NoPermitLost, Pool!NoIdlePermit
<1>3. ASSUME ~a
      PROVE  Pool(a)!TypeOK /\ Pool(a)!PermitsConserved /\ Pool(a)!ProcessesArePermitted
  <2>1. Orderly(a)
    BY <1>3 DEF PoolInv
  <2>2. Pool(a)!TypeOK
    BY <2>1 DEF PoolInv, PoolTypes, Orderly, Pool!TypeOK
  <2>3. Pool(a)!PermitsConserved
    BY <1>1, <2>1 DEF Orderly, Pool!PermitsConserved
  <2>4. alive \subseteq Pool(a)!Owners
    BY <2>1 DEF Orderly, Pool!Owners
  <2>5. Cardinality(alive) <= Cardinality(Pool(a)!Owners) /\ Cardinality(alive) \in Nat
    BY <2>4, FS_Subset, FS_CardinalityType DEF PoolInv, Counted
  <2>6. Cardinality(alive) <= LimitOf(a)
    BY <2>1, <2>5, PoolFacts DEF Orderly
  <2>7. QED
    BY <1>1, <2>1, <2>2, <2>3, <2>6 DEF Orderly, Pool!ProcessesArePermitted
<1>4. QED
  BY <1>2, <1>3
-----------------------------------------------------------------------------
(* Validation processes. *)

\* A call that polls has no permit and no child; a child that has not ended no verdict.
CallOK(c) ==
    /\ pc[c] = "polling" => c \notin acquired /\ child[c] = "none"
    /\ child[c] \in {"none", "running"} => result[c] = "failed"

ValidationInv ==
    /\ Validation!TypeOK
    /\ IsFiniteSet(acquired) /\ permits + Cardinality(acquired) = ValidationLimit
    /\ Validation!ChildrenArePermitted
    /\ Validation!FailsClosed
    /\ \A c \in Calls : CallOK(c)

\* A step of call c that leaves the permits alone: where it and its child are then, what
\* the child said and the verdict.
CallMoves(c, place, state, said, verdict) ==
    /\ place \in {"running", "closing"} /\ state \in {"none", "running", "exited", "reaped", "outlived"}
    /\ said \in Validation!Verdicts \cup {"failed", "nothing"}
    /\ verdict \in Validation!Verdicts \cup {"failed"}
    /\ pc' = [pc EXCEPT ![c] = place] /\ child' = [child EXCEPT ![c] = state]
    /\ sent' = [sent EXCEPT ![c] = said] /\ result' = [result EXCEPT ![c] = verdict]
    /\ cancelled' \subseteq Calls /\ UNCHANGED <<permits, acquired>>
    /\ state \in {"running", "exited"} => c \in acquired
    /\ verdict = "valid" => said = "valid"
    /\ state \in {"none", "running"} => verdict = "failed"

\* Such a step preserves the invariant.
LEMMA ValidationMoves ==
    ASSUME ValidationInv, NEW c \in Calls, NEW place, NEW state, NEW said, NEW verdict,
           CallMoves(c, place, state, said, verdict)
    PROVE  ValidationInv'
<1>1. \A d \in Calls :
        /\ pc'[d] = IF d = c THEN place ELSE pc[d]
        /\ child'[d] = IF d = c THEN state ELSE child[d]
        /\ sent'[d] = IF d = c THEN said ELSE sent[d]
        /\ result'[d] = IF d = c THEN verdict ELSE result[d]
  BY DEF ValidationInv, Validation!TypeOK, CallMoves
<1>2. Validation!TypeOK'
  <2>1. /\ pc' \in [Calls -> {"polling", "running", "closing", "ended"}]
        /\ child' \in [Calls -> {"none", "running", "exited", "reaped", "outlived"}]
        /\ sent' \in [Calls -> Validation!Verdicts \cup {"failed", "nothing"}]
        /\ result' \in [Calls -> Validation!Verdicts \cup {"failed"}]
    BY DEF ValidationInv, Validation!TypeOK, CallMoves
  <2>2. QED
    BY <1>1, <2>1 DEF ValidationInv, Validation!TypeOK, Validation!Verdicts, CallMoves
<1>3. Validation!ChildrenArePermitted' /\ Validation!FailsClosed'
  BY <1>1 DEF ValidationInv, Validation!ChildrenArePermitted, Validation!FailsClosed, CallMoves
<1>4. \A d \in Calls : CallOK(d)'
  BY <1>1 DEF ValidationInv, CallOK, CallMoves
<1>5. QED
  BY <1>2, <1>3, <1>4 DEF ValidationInv, CallMoves

\* Every step of a call and its child, and stuttering.
LEMMA ValidationStep ==
    ASSUME ValidationInv,
           Validation!Next \/ UNCHANGED <<pc, cancelled, validationVars>>
    PROVE  ValidationInv'
<1>1. /\ ValidationLimit \in Nat /\ permits \in 0 .. ValidationLimit
      /\ Cardinality(acquired) \in Nat
  BY PermitsAssumption, FS_CardinalityType
  DEF Validation!LimitAssumption, ValidationInv, Validation!TypeOK
<1>2. ASSUME NEW c \in Calls
      PROVE  /\ child' = child => child' = [child EXCEPT ![c] = child[c]]
             /\ sent' = sent => sent' = [sent EXCEPT ![c] = sent[c]]
             /\ result' = result => result' = [result EXCEPT ![c] = result[c]]
             /\ pc' = pc => pc' = [pc EXCEPT ![c] = pc[c]]
             /\ pc[c] \in {"polling", "running", "closing", "ended"}
             /\ child[c] \in {"none", "running", "exited", "reaped", "outlived"}
             /\ sent[c] \in Validation!Verdicts \cup {"failed", "nothing"}
             /\ result[c] \in Validation!Verdicts \cup {"failed"}
             /\ child[c] \in {"running", "exited"} => c \in acquired
             /\ result[c] = "valid" => sent[c] = "valid"
             /\ child[c] \in {"none", "running"} => result[c] = "failed"
             /\ cancelled \subseteq Calls
  BY DEF ValidationInv, Validation!TypeOK, Validation!ChildrenArePermitted, Validation!FailsClosed, CallOK
<1>3. ASSUME NEW c \in Calls, Validation!Start(c) PROVE ValidationInv'
  <2>1. PICK place \in {"running", "closing"}, state \in {"none", "running"} :
          /\ pc' = [pc EXCEPT ![c] = place] /\ child' = [child EXCEPT ![c] = state]
    BY <1>2, <1>3 DEF Validation!Start, ValidationInv, CallOK
  <2>2. /\ pc[c] = "polling" /\ permits > 0 /\ permits' = permits - 1
        /\ acquired' = acquired \cup {c} /\ UNCHANGED <<sent, result, cancelled>>
    BY <1>3 DEF Validation!Start
  <2>3. c \notin acquired /\ result[c] = "failed"
    BY <2>2 DEF ValidationInv, CallOK
  <2>4. \A d \in Calls :
        /\ pc'[d] = IF d = c THEN place ELSE pc[d]
        /\ child'[d] = IF d = c THEN state ELSE child[d]
    BY <2>1 DEF ValidationInv, Validation!TypeOK
  <2>5. IsFiniteSet(acquired') /\ Cardinality(acquired') = Cardinality(acquired) + 1
    BY <2>2, <2>3, FS_AddElement DEF ValidationInv
  <2>6. permits' \in 0 .. ValidationLimit /\ permits' + Cardinality(acquired') = ValidationLimit
    BY <1>1, <2>2, <2>5 DEF ValidationInv
  <2>7. Validation!TypeOK'
    <3>1. /\ pc' \in [Calls -> {"polling", "running", "closing", "ended"}]
          /\ child' \in [Calls -> {"none", "running", "exited", "reaped", "outlived"}]
      BY <2>1 DEF ValidationInv, Validation!TypeOK
    <3>2. QED
      BY <2>2, <2>4, <2>6, <3>1 DEF ValidationInv, Validation!TypeOK, Validation!Verdicts
  <2>8. /\ Validation!ChildrenArePermitted' /\ Validation!FailsClosed'
        /\ \A d \in Calls : CallOK(d)'
    BY <2>2, <2>3, <2>4
    DEF ValidationInv, Validation!ChildrenArePermitted, Validation!FailsClosed, CallOK
  <2>9. QED
    BY <2>5, <2>6, <2>7, <2>8 DEF ValidationInv
<1>4. ASSUME NEW c \in Calls, Validation!ChildEnds(c) PROVE ValidationInv'
  <2>1. CASE /\ child[c] = "running"
             /\ \E v \in Validation!Verdicts \cup {"failed", "nothing"} : sent' = [sent EXCEPT ![c] = v]
             /\ child' = [child EXCEPT ![c] = "exited"]
    <3>1. PICK v \in Validation!Verdicts \cup {"failed", "nothing"} : sent' = [sent EXCEPT ![c] = v]
      BY <2>1
    <3>2. UNCHANGED <<permits, pc, acquired, result, cancelled>>
      BY <1>4 DEF Validation!ChildEnds
    <3>3. pc[c] \in {"running", "closing"} /\ result[c] = "failed" /\ c \in acquired
      BY <1>2, <2>1 DEF ValidationInv, CallOK, Validation!TypeOK
    <3>4. CallMoves(c, pc[c], "exited", v, result[c])
      BY <1>2, <2>1, <3>1, <3>2, <3>3 DEF CallMoves
    <3>5. QED
      BY <3>4, ValidationMoves
  <2>2. CASE child[c] = "outlived" /\ child' = [child EXCEPT ![c] = "reaped"] /\ UNCHANGED sent
    <3>1. UNCHANGED <<permits, pc, acquired, result, cancelled>>
      BY <1>4 DEF Validation!ChildEnds
    <3>2. \A d \in Calls : child'[d] = IF d = c THEN "reaped" ELSE child[d]
      BY <2>2 DEF ValidationInv, Validation!TypeOK
    <3>3. Validation!TypeOK'
      <4>1. child' \in [Calls -> {"none", "running", "exited", "reaped", "outlived"}]
        BY <2>2 DEF ValidationInv, Validation!TypeOK
      <4>2. QED
        BY <2>2, <3>1, <3>2, <4>1 DEF ValidationInv, Validation!TypeOK, Validation!Verdicts
    <3>4. /\ Validation!ChildrenArePermitted' /\ Validation!FailsClosed'
          /\ \A d \in Calls : CallOK(d)'
      BY <2>2, <3>1, <3>2
      DEF ValidationInv, Validation!ChildrenArePermitted, Validation!FailsClosed, CallOK
    <3>5. QED
      BY <3>1, <3>3, <3>4 DEF ValidationInv
  <2>3. QED
    BY <1>4, <2>1, <2>2 DEF Validation!ChildEnds
<1>5. ASSUME NEW c \in Calls, Validation!Receive(c) PROVE ValidationInv'
  <2> DEFINE v == Validation!Received(c)
  <2>1. /\ child[c] = "exited" /\ result' = [result EXCEPT ![c] = v]
        /\ pc' = [pc EXCEPT ![c] = "closing"]
        /\ UNCHANGED <<permits, acquired, child, sent, cancelled>>
    BY <1>5 DEF Validation!Receive
  <2>2. v \in Validation!Verdicts \cup {"failed"} /\ (v = "valid" => sent[c] = "valid")
    BY <1>2 DEF Validation!Received
  <2> HIDE DEF v
  <2>3. CallMoves(c, "closing", child[c], sent[c], v)
    BY <1>2, <2>1, <2>2 DEF CallMoves
  <2>4. QED
    BY <2>3, ValidationMoves
<1>6. ASSUME NEW c \in Calls, Validation!Timeout(c) \/ Validation!Cancel(c) PROVE ValidationInv'
  <2>1. /\ pc' = [pc EXCEPT ![c] = "closing"] /\ cancelled' \subseteq Calls
        /\ UNCHANGED <<permits, acquired, child, sent, result>>
    BY <1>2, <1>6 DEF Validation!Timeout, Validation!Cancel
  <2>2. CallMoves(c, "closing", child[c], sent[c], result[c])
    BY <1>2, <2>1 DEF CallMoves
  <2>3. QED
    BY <2>2, ValidationMoves
<1>7. ASSUME NEW c \in Calls, Validation!Close(c) PROVE ValidationInv'
  <2>1. PICK state \in {"reaped", "outlived"} :
          /\ pc[c] = "closing" /\ child' = [child EXCEPT ![c] = state]
          /\ UNCHANGED <<permits, pc, acquired, sent, result, cancelled>>
    BY <1>7 DEF Validation!Close
  <2>2. CallMoves(c, "closing", state, sent[c], result[c])
    BY <1>2, <2>1 DEF CallMoves
  <2>3. QED
    BY <2>2, ValidationMoves
<1>8. ASSUME NEW c \in Calls, Validation!Leave(c) PROVE ValidationInv'
  <2>1. /\ pc[c] = "closing" /\ child[c] \in {"none", "reaped", "outlived"}
        /\ permits' = IF c \in acquired THEN permits + 1 ELSE permits
        /\ acquired' = acquired \ {c} /\ pc' = [pc EXCEPT ![c] = "ended"]
        /\ UNCHANGED <<child, sent, result, cancelled>>
    BY <1>8 DEF Validation!Leave, Validation!Closed
  <2>2. /\ IsFiniteSet(acquired') /\ Cardinality(acquired') \in Nat
        /\ Cardinality(acquired') = IF c \in acquired THEN Cardinality(acquired) - 1
                                                      ELSE Cardinality(acquired)
    BY <2>1, FS_RemoveElement, FS_CardinalityType DEF ValidationInv
  <2>3. permits' \in 0 .. ValidationLimit /\ permits' + Cardinality(acquired') = ValidationLimit
    <3>1. permits + Cardinality(acquired) = ValidationLimit
      BY DEF ValidationInv
    <3>2. CASE c \in acquired
      BY <1>1, <2>1, <2>2, <3>1, <3>2
    <3>3. CASE c \notin acquired
      BY <1>1, <2>1, <2>2, <3>1, <3>3
    <3>4. QED
      BY <3>2, <3>3
  <2>4. \A d \in Calls : pc'[d] = IF d = c THEN "ended" ELSE pc[d]
    BY <2>1 DEF ValidationInv, Validation!TypeOK
  <2>5. Validation!TypeOK'
    <3>1. pc' \in [Calls -> {"polling", "running", "closing", "ended"}]
      BY <2>1 DEF ValidationInv, Validation!TypeOK
    <3>2. QED
      BY <2>1, <2>3, <2>4, <3>1 DEF ValidationInv, Validation!TypeOK, Validation!Verdicts
  <2>6. /\ Validation!ChildrenArePermitted' /\ Validation!FailsClosed'
        /\ \A d \in Calls : CallOK(d)'
    BY <2>1, <2>4
    DEF ValidationInv, Validation!ChildrenArePermitted, Validation!FailsClosed, CallOK
  <2>7. QED
    BY <2>2, <2>3, <2>5, <2>6 DEF ValidationInv
<1>9. CASE UNCHANGED <<pc, cancelled, validationVars>>
  BY <1>9 DEF validationVars, ValidationInv, Validation!TypeOK, Validation!Verdicts, CallOK,
              Validation!ChildrenArePermitted, Validation!FailsClosed
<1>10. QED
  BY <1>3, <1>4, <1>5, <1>6, <1>7, <1>8, <1>9 DEF Validation!Next

\* Nobody has a permit.
LEMMA ValidationInit ==
    ASSUME Validation!Init
    PROVE  ValidationInv
<1>1. ValidationLimit \in Nat /\ IsFiniteSet({}) /\ Cardinality({}) = 0
  BY PermitsAssumption, FS_EmptySet DEF Validation!LimitAssumption
<1>2. Validation!TypeOK
  BY <1>1 DEF Validation!Init, Validation!TypeOK
<1>3. QED
  BY <1>1, <1>2
  DEF Validation!Init, ValidationInv, CallOK, Validation!ChildrenArePermitted, Validation!FailsClosed

\* What the invariant says about validations.
LEMMA ValidationSafe ==
    ASSUME ValidationInv
    PROVE  /\ Validation!TypeOK /\ Validation!PermitsBalanced
           /\ Validation!ChildrenArePermitted /\ Validation!FailsClosed
<1>1. Validation!Cardinality(acquired) = Cardinality(acquired)
  BY DEF Validation!Cardinality, Cardinality
<1>2. QED
  BY <1>1 DEF ValidationInv, Validation!PermitsBalanced
-----------------------------------------------------------------------------
(* Request slots and the limiter. *)

Window == [peer : Slots!Peers, minute : 1 .. MaxMinute, count : 0 .. RateLimit]

\* p's window of this minute is remembered, and behind it only peers heard since.
Remembered(p) ==
    \E i \in DOMAIN windows :
        /\ windows[i].peer = p /\ windows[i].minute = minute /\ windows[i].count >= allowed[p]
        /\ \A j \in DOMAIN windows : j > i => windows[j].peer \in since[p]

PeerOK(p) ==
    /\ IsFiniteSet(since[p])
    /\ p \notin crowded =>
         /\ allowed[p] <= RateLimit
         /\ Cardinality(since[p]) < MaxPeers
         /\ allowed[p] > 0 => Remembered(p)

SlotsInv ==
    /\ Slots!TypeOK
    /\ IsFiniteSet(Slots!Running)
    /\ slots + Cardinality(Slots!Running) = MaxSlots /\ inFlight = Cardinality(Slots!Running)
    /\ \A p \in Slots!Peers : PeerOK(p)

\* The limits, and the windows.
LEMMA SlotFacts ==
    ASSUME Slots!TypeOK
    PROVE  /\ RateLimit \in Nat \ {0} /\ MaxPeers \in Nat \ {0} /\ MaxSlots \in Nat \ {0}
           /\ MaxMinute \in Nat \ {0}
           /\ windows \in Seq(Window) /\ DOMAIN windows = 1 .. Len(windows)
           /\ Len(windows) \in Nat /\ Len(windows) <= MaxPeers
           /\ \A i \in DOMAIN windows : windows[i] \in Window
           /\ \A i, j \in DOMAIN windows : windows[i].peer = windows[j].peer => i = j
<1>1. windows \in Seq(Window)
  BY DEF Slots!TypeOK, Window
<1>2. QED
  BY <1>1, PermitsAssumption DEF Slots!LimitsAssumption, Slots!TypeOK

\* The windows without p's are in their order: what is behind one of them was before.
LEMMA OthersInOrder ==
    ASSUME Slots!TypeOK, NEW p
    PROVE  LET rest == Slots!Others(p) IN
           /\ rest \in Seq(Window) /\ Len(rest) <= Len(windows)
           /\ \A k \in DOMAIN rest : rest[k].peer # p
           /\ \A k, l \in DOMAIN rest : rest[k].peer = rest[l].peer => k = l
           /\ \A i \in DOMAIN windows : windows[i].peer # p =>
                \E k \in DOMAIN rest :
                    /\ rest[k] = windows[i]
                    /\ \A l \in DOMAIN rest : l > k => \E j \in DOMAIN windows : j > i /\ rest[l] = windows[j]
<1> DEFINE rest == Slots!Others(p)
<1>1. CASE Slots!PlacesOf(p) = {}
  <2>1. rest = windows /\ \A i \in DOMAIN windows : windows[i].peer # p
    BY <1>1 DEF Slots!Others, Slots!PlacesOf
  <2> HIDE DEF rest
  <2>2. Len(rest) <= Len(windows)
    BY <2>1, SlotFacts
  <2>3. QED
    BY <2>1, <2>2, SlotFacts DEF rest
<1>2. CASE Slots!PlacesOf(p) # {}
  <2> DEFINE m == CHOOSE j \in Slots!PlacesOf(p) : TRUE
             front == SubSeq(windows, 1, m - 1)
             back == SubSeq(windows, m + 1, Len(windows))
             n == Len(windows)
  <2>1. m \in DOMAIN windows /\ windows[m].peer = p /\ rest = front \o back
    BY <1>2 DEF Slots!Others, Slots!PlacesOf
  <2> HIDE DEF m, rest
  <2>2. /\ m \in Nat /\ m >= 1 /\ m <= n /\ n \in Nat /\ m - 1 \in Int /\ m + 1 \in Int /\ 1 \in Int
        /\ \A i \in 1 .. m - 1 : windows[i] \in Window
        /\ \A i \in m + 1 .. n : windows[i] \in Window
    BY <2>1, SlotFacts, SMTT(20)
  <2>3. /\ front \in Seq(Window) /\ Len(front) = m - 1
        /\ \A i \in 1 .. m - 1 : front[i] = windows[i]
    <3>1. /\ front \in Seq(Window) /\ Len(front) = IF 1 <= m - 1 THEN (m - 1) - 1 + 1 ELSE 0
          /\ \A i \in 1 .. (m - 1) - 1 + 1 : front[i] = windows[1 + i - 1]
      BY <2>2, SubSeqProperties
    <3>2. \A i \in 1 .. m - 1 : i \in 1 .. (m - 1) - 1 + 1 /\ 1 + i - 1 = i
      BY <2>2
    <3>3. Len(front) = m - 1
      BY <2>2, <3>1
    <3>4. QED
      BY <3>1, <3>2, <3>3
  <2>4. /\ back \in Seq(Window) /\ Len(back) = n - m
        /\ \A i \in 1 .. n - m : back[i] = windows[m + i]
    <3>1. /\ back \in Seq(Window) /\ Len(back) = IF m + 1 <= n THEN n - (m + 1) + 1 ELSE 0
          /\ \A i \in 1 .. n - (m + 1) + 1 : back[i] = windows[m + 1 + i - 1]
      BY <2>2, SubSeqProperties
    <3>2. \A i \in 1 .. n - m : i \in 1 .. n - (m + 1) + 1 /\ m + 1 + i - 1 = m + i
      BY <2>2
    <3>3. Len(back) = n - m
      BY <2>2, <3>1
    <3>4. QED
      BY <3>1, <3>2, <3>3
  <2> HIDE DEF front, back
  <2>5. /\ rest \in Seq(Window) /\ Len(rest) = n - 1 /\ DOMAIN rest = 1 .. n - 1
        /\ \A k \in 1 .. n - 1 : rest[k] = windows[IF k < m THEN k ELSE k + 1]
    <3>1. /\ rest \in Seq(Window) /\ Len(rest) = Len(front) + Len(back)
          /\ \A i \in 1 .. Len(front) + Len(back) :
               rest[i] = IF i <= Len(front) THEN front[i] ELSE back[i - Len(front)]
      BY <2>1, <2>3, <2>4, ConcatProperties
    <3>2. Len(rest) = n - 1
      BY <2>2, <2>3, <2>4, <3>1
    <3>3. ASSUME NEW k \in 1 .. n - 1 PROVE rest[k] = windows[IF k < m THEN k ELSE k + 1]
      <4>1. CASE k < m
        <5>1. k \in 1 .. m - 1 /\ k <= Len(front) /\ k \in 1 .. Len(front) + Len(back)
          BY <2>2, <2>3, <2>4, <4>1
        <5>2. rest[k] = front[k]
          BY <3>1, <5>1
        <5>3. QED
          BY <2>3, <4>1, <5>1, <5>2
      <4>2. CASE ~(k < m)
        <5>1. k - (m - 1) \in 1 .. n - m /\ m + (k - (m - 1)) = k + 1
          BY <2>2, <4>2
        <5>2. ~(k <= Len(front)) /\ k \in 1 .. Len(front) + Len(back)
          BY <2>2, <2>3, <2>4, <4>2
        <5>3. rest[k] = back[k - (m - 1)]
          BY <2>3, <3>1, <5>2
        <5>4. QED
          BY <2>4, <4>2, <5>1, <5>3
      <4>3. QED
        BY <4>1, <4>2
    <3>4. QED
      BY <3>1, <3>2, <3>3
  <2> DEFINE at(k) == IF k < m THEN k ELSE k + 1
  <2>6. \A k \in DOMAIN rest : at(k) \in DOMAIN windows /\ at(k) # m /\ rest[k] = windows[at(k)]
    BY <2>2, <2>5, SlotFacts
  <2>7. \A k, l \in DOMAIN rest : (k # l => at(k) # at(l)) /\ (l > k => at(l) > at(k))
    BY <2>2, <2>5
  <2>8. \A i \in DOMAIN windows : windows[i].peer # p => \E k \in DOMAIN rest : at(k) = i
    <3>1. SUFFICES ASSUME NEW i \in DOMAIN windows, i # m PROVE \E k \in DOMAIN rest : at(k) = i
      BY <2>1
    <3>2. CASE i < m
      BY <2>2, <2>5, <3>2, SlotFacts
    <3>3. CASE i > m
      <4>1. i - 1 \in DOMAIN rest /\ at(i - 1) = i
        BY <2>2, <2>5, <3>3, SlotFacts
      <4>2. QED
        BY <4>1
    <3>4. QED
      BY <2>2, <3>1, <3>2, <3>3, SlotFacts
  <2> HIDE DEF at
  <2>9. \A k \in DOMAIN rest : rest[k].peer # p
    BY <2>1, <2>6, SlotFacts
  <2>10. \A k, l \in DOMAIN rest : rest[k].peer = rest[l].peer => k = l
    BY <2>6, <2>7, SlotFacts
  <2>11. ASSUME NEW i \in DOMAIN windows, windows[i].peer # p
         PROVE  \E k \in DOMAIN rest :
                    /\ rest[k] = windows[i]
                    /\ \A l \in DOMAIN rest : l > k => \E j \in DOMAIN windows : j > i /\ rest[l] = windows[j]
    <3>1. PICK k \in DOMAIN rest : at(k) = i
      BY <2>8, <2>11
    <3>2. \A l \in DOMAIN rest : l > k => at(l) \in DOMAIN windows /\ at(l) > i /\ rest[l] = windows[at(l)]
      BY <2>6, <2>7, <3>1
    <3>3. rest[k] = windows[i]
      BY <2>6, <3>1
    <3>4. QED
      BY <3>2, <3>3
  <2>12. Len(rest) <= Len(windows)
    BY <2>2, <2>5
  <2>13. QED
    BY <2>5, <2>9, <2>10, <2>11, <2>12 DEF rest
<1>3. QED
  BY <1>1, <1>2

\* Forgetting keeps the most recent windows.
LEMMA BoundedIsSuffix ==
    ASSUME NEW ws \in Seq(Window), MaxPeers \in Nat \ {0}
    PROVE  \E d \in 0 .. Len(ws) :
             /\ Slots!Bounded(ws) \in Seq(Window)
             /\ Len(Slots!Bounded(ws)) = Len(ws) - d /\ Len(ws) - d <= MaxPeers
             /\ \A k \in 1 .. Len(ws) - d : Slots!Bounded(ws)[k] = ws[k + d]
             /\ d > 0 => Len(ws) - d = MaxPeers
<1> DEFINE n == Len(ws)
<1>1. n \in Nat /\ \A i \in 1 .. n : ws[i] \in Window
  OBVIOUS
<1>2. CASE n > MaxPeers
  <2> DEFINE d == n - MaxPeers
             b == Slots!Bounded(ws)
  <2>1. b = SubSeq(ws, d + 1, n)
    BY <1>2 DEF Slots!Bounded
  <2>2. d \in 0 .. n /\ d + 1 \in Int /\ n \in Int /\ n - d = MaxPeers
    BY <1>1, <1>2
  <2> HIDE DEF b, d, n
  <2>3. \A i \in d + 1 .. n : ws[i] \in Window
    BY <1>1, <2>2
  <2>4. /\ b \in Seq(Window) /\ Len(b) = IF d + 1 <= n THEN n - (d + 1) + 1 ELSE 0
        /\ \A i \in 1 .. n - (d + 1) + 1 : b[i] = ws[d + 1 + i - 1]
    BY <2>1, <2>2, <2>3, SubSeqProperties
  <2>5. Len(b) = n - d
    BY <2>2, <2>4
  <2>6. \A i \in 1 .. n - d : i \in 1 .. n - (d + 1) + 1 /\ d + 1 + i - 1 = i + d
    BY <2>2
  <2>7. \A i \in 1 .. n - d : b[i] = ws[i + d]
    BY <2>4, <2>6
  <2>8. /\ d \in 0 .. Len(ws) /\ Slots!Bounded(ws) \in Seq(Window)
        /\ Len(Slots!Bounded(ws)) = Len(ws) - d
        /\ \A k \in 1 .. Len(ws) - d : Slots!Bounded(ws)[k] = ws[k + d]
        /\ Len(ws) - d = MaxPeers /\ MaxPeers <= MaxPeers
    BY <2>2, <2>4, <2>5, <2>7 DEF b, n
  <2>9. QED
    BY <2>8
<1>3. CASE ~(n > MaxPeers)
  <2>1. Slots!Bounded(ws) = ws
    BY <1>3 DEF Slots!Bounded
  <2>2. 0 \in 0 .. n /\ n - 0 = n /\ n <= MaxPeers /\ \A k \in 1 .. n : k + 0 = k
    BY <1>1, <1>3
  <2>3. /\ 0 \in 0 .. Len(ws) /\ Len(Slots!Bounded(ws)) = Len(ws) - 0 /\ Len(ws) - 0 <= MaxPeers
        /\ \A k \in 1 .. Len(ws) - 0 : Slots!Bounded(ws)[k] = ws[k + 0]
        /\ ~(0 > 0)
    <3>1. \A k \in 1 .. Len(ws) - 0 : k + 0 = k
      BY <1>1
    <3>2. QED
      BY <2>1, <2>2, <3>1
  <2>4. Slots!Bounded(ws) \in Seq(Window)
    BY <2>1
  <2> HIDE DEF n
  <2>5. QED
    BY <2>3, <2>4
<1>4. QED
  BY <1>2, <1>3

\* A peer's count is that of its window of this minute, if it has one.
LEMMA CountFacts ==
    ASSUME Slots!TypeOK, NEW p
    PROVE  /\ Slots!CountOf(p) \in 0 .. RateLimit
           /\ \A i \in DOMAIN windows :
                windows[i].peer = p /\ windows[i].minute = minute =>
                    Slots!CountOf(p) = windows[i].count
<1> DEFINE mine == {i \in DOMAIN windows : windows[i].peer = p /\ windows[i].minute = minute}
           m == CHOOSE i \in mine : TRUE
<1>1. Slots!CountOf(p) = IF mine = {} THEN 0 ELSE windows[m].count
  BY DEF Slots!CountOf
<1>2. mine # {} => m \in mine
  OBVIOUS
<1> HIDE DEF m
<1>3. mine # {} => windows[m].count \in 0 .. RateLimit
  BY <1>2, SlotFacts DEF Window
<1>4. 0 \in 0 .. RateLimit
  BY SlotFacts
<1>5. \A i \in mine : i = m
  BY <1>2, SlotFacts
<1>6. QED
  BY <1>1, <1>3, <1>4, <1>5

\* Distinct peers behind a window are no more than the peers heard since.
LEMMA NoMoreThanSince ==
    ASSUME NEW ws \in Seq(Window), NEW k \in DOMAIN ws, NEW heard, IsFiniteSet(heard),
           \A i, j \in DOMAIN ws : ws[i].peer = ws[j].peer => i = j,
           \A l \in DOMAIN ws : l > k => ws[l].peer \in heard
    PROVE  Len(ws) - k <= Cardinality(heard)
<1> DEFINE n == Len(ws)
           behind == k + 1 .. n
           f == [l \in behind |-> ws[l].peer]
<1>1. n \in Nat /\ k \in 1 .. n /\ DOMAIN ws = 1 .. n /\ k + 1 \in Int
  OBVIOUS
<1>2. \A l \in behind : l \in DOMAIN ws /\ l > k
  BY <1>1
<1>3. f \in Injection(behind, heard)
  BY <1>2 DEF Injection, IsInjective
<1>4. Cardinality(behind) <= Cardinality(heard)
  BY <1>3, FS_Injection
<1>5. Cardinality(behind) = IF k + 1 > n THEN 0 ELSE n - (k + 1) + 1
  BY <1>1, FS_Interval
<1>6. Cardinality(heard) \in Nat
  BY FS_CardinalityType
<1> HIDE DEF behind, n
<1>7. n - k <= Cardinality(heard)
  BY <1>1, <1>4, <1>5, <1>6
<1>8. QED
  BY <1>7 DEF n

\* FixedWindowRateLimiter.allow charges the peer and moves it behind the others.
LEMMA PeersCharged ==
    ASSUME SlotsInv, NEW p \in Slots!Peers, NEW ok \in BOOLEAN,
           ok <=> Slots!CountOf(p) < RateLimit,
           Slots!Charge(p, ok), Slots!Remember(p, ok), minute' = minute
    PROVE  /\ windows' \in Seq(Window) /\ Len(windows') <= MaxPeers
           /\ \A i, j \in DOMAIN windows' : windows'[i].peer = windows'[j].peer => i = j
           /\ allowed' \in [Slots!Peers -> Nat] /\ since' \in [Slots!Peers -> SUBSET Slots!Peers]
           /\ crowded' \subseteq Slots!Peers
           /\ \A q \in Slots!Peers : PeerOK(q)'
<1> DEFINE count == IF ok THEN Slots!CountOf(p) + 1 ELSE Slots!CountOf(p)
           e == [peer |-> p, minute |-> minute, count |-> count]
           rest == Slots!Others(p)
           ws == Append(rest, e)
           n == Len(rest) + 1
<1>1. Slots!TypeOK
  BY DEF SlotsInv
<1>2. count \in 0 .. RateLimit /\ Slots!CountOf(p) \in Nat /\ (ok => count = Slots!CountOf(p) + 1)
      /\ (~ok => count = Slots!CountOf(p))
  <2>1. CASE ok
    BY <1>1, <2>1, CountFacts, SlotFacts
  <2>2. CASE ~ok
    BY <1>1, <2>2, CountFacts, SlotFacts
  <2>3. QED
    BY <2>1, <2>2
<1>3. e \in Window /\ e.peer = p /\ e.minute = minute /\ e.count = count
  BY <1>1, <1>2 DEF Window, Slots!TypeOK
<1>4. /\ rest \in Seq(Window) /\ Len(rest) <= Len(windows)
      /\ \A k \in DOMAIN rest : rest[k].peer # p
      /\ \A k, l \in DOMAIN rest : rest[k].peer = rest[l].peer => k = l
      /\ \A i \in DOMAIN windows : windows[i].peer # p =>
           \E k \in DOMAIN rest :
               /\ rest[k] = windows[i]
               /\ \A l \in DOMAIN rest : l > k => \E j \in DOMAIN windows : j > i /\ rest[l] = windows[j]
  BY <1>1, OthersInOrder
<1>5. windows' = Slots!Bounded(ws)
  BY DEF Slots!Charge
<1> HIDE DEF e, rest, count
<1>6. /\ ws \in Seq(Window) /\ Len(ws) = n /\ DOMAIN ws = 1 .. n /\ ws[n] = e /\ n \in Nat /\ n >= 1
      /\ DOMAIN rest = 1 .. n - 1 /\ \A k \in DOMAIN rest : ws[k] = rest[k] /\ k < n
      /\ \A k \in DOMAIN ws : k \in DOMAIN rest \/ k = n
  BY <1>3, <1>4
<1>7. \A i, j \in DOMAIN ws : ws[i].peer = ws[j].peer => i = j
  BY <1>3, <1>4, <1>6
<1> HIDE DEF ws, n
<1>8. PICK d \in 0 .. n :
        /\ windows' \in Seq(Window)
        /\ Len(windows') = n - d /\ n - d <= MaxPeers
        /\ \A k \in 1 .. n - d : windows'[k] = ws[k + d]
        /\ d > 0 => n - d = MaxPeers
  BY <1>1, <1>5, <1>6, BoundedIsSuffix, SlotFacts
<1>9. DOMAIN windows' = 1 .. n - d /\ \A k \in 1 .. n - d : k + d \in DOMAIN ws
  BY <1>6, <1>8
<1>10. \A i, j \in DOMAIN windows' : windows'[i].peer = windows'[j].peer => i = j
  <2>1. \A i, j \in 1 .. n - d : i + d = j + d => i = j
    BY <1>6
  <2>2. QED
    BY <1>7, <1>8, <1>9, <2>1
<1>11. /\ allowed' = [allowed EXCEPT ![p] = IF ok THEN allowed[p] + 1 ELSE allowed[p]]
       /\ since' = [q \in Slots!Peers |-> IF q = p THEN {} ELSE since[q] \cup {p}]
       /\ crowded' = crowded \cup
            {q \in Slots!Peers \ {p} : Slots!Cardinality(since[q] \cup {p}) >= MaxPeers}
  BY DEF Slots!Remember
<1>12. allowed \in [Slots!Peers -> Nat] /\ since \in [Slots!Peers -> SUBSET Slots!Peers]
       /\ crowded \subseteq Slots!Peers
  BY <1>1 DEF Slots!TypeOK
<1>13. /\ allowed' \in [Slots!Peers -> Nat] /\ since' \in [Slots!Peers -> SUBSET Slots!Peers]
       /\ crowded' \subseteq Slots!Peers
  BY <1>11, <1>12
<1>14. \A S : Slots!Cardinality(S) = Cardinality(S)
  BY DEF Slots!Cardinality, Cardinality
\* p itself: it is last, and its count is no less than what it was allowed.
<1>15. PeerOK(p)'
  <2>1. since'[p] = {} /\ IsFiniteSet({}) /\ Cardinality({}) = 0 /\ PeerOK(p)
        /\ allowed[p] \in Nat
    BY <1>11, <1>12, FS_EmptySet DEF SlotsInv
  <2>2. p \in crowded' <=> p \in crowded
    BY <1>11
  <2>3. p \notin crowded /\ allowed[p] > 0 => Slots!CountOf(p) >= allowed[p]
    <3>1. SUFFICES ASSUME p \notin crowded, allowed[p] > 0 PROVE Slots!CountOf(p) >= allowed[p]
      OBVIOUS
    <3>2. PICK i \in DOMAIN windows :
            windows[i].peer = p /\ windows[i].minute = minute /\ windows[i].count >= allowed[p]
      BY <2>1, <3>1 DEF PeerOK, Remembered
    <3>3. QED
      BY <1>1, <3>2, CountFacts
  <2>4. allowed'[p] = IF ok THEN allowed[p] + 1 ELSE allowed[p]
    BY <1>11, <1>12
  <2>5. p \notin crowded => allowed'[p] <= RateLimit /\ (allowed'[p] > 0 => count >= allowed'[p])
    <3>1. SUFFICES ASSUME p \notin crowded
                   PROVE  allowed'[p] <= RateLimit /\ (allowed'[p] > 0 => count >= allowed'[p])
      OBVIOUS
    <3>2. RateLimit \in Nat /\ RateLimit >= 1 /\ allowed[p] <= RateLimit
      BY <1>1, <2>1, <3>1, SlotFacts DEF PeerOK
    <3>3. CASE ok
      <4>1. Slots!CountOf(p) >= allowed[p] /\ Slots!CountOf(p) < RateLimit
        BY <1>2, <2>1, <2>3, <3>1, <3>3
      <4>2. QED
        BY <1>2, <2>1, <2>4, <3>2, <3>3, <4>1
    <3>4. CASE ~ok
      BY <1>2, <2>1, <2>3, <2>4, <3>1, <3>2, <3>4
    <3>5. QED
      BY <3>3, <3>4
  <2>6. n - d \in DOMAIN windows' /\ windows'[n - d] = e /\ \A j \in DOMAIN windows' : ~(j > n - d)
    <3>1. n - d >= 1
      BY <1>1, <1>6, <1>8, SlotFacts
    <3>2. n - d \in 1 .. n - d /\ (n - d) + d = n
      BY <1>6, <3>1
    <3>3. QED
      BY <1>6, <1>8, <1>9, <3>2
  <2>7. PICK last \in DOMAIN windows' : windows'[last] = e /\ \A j \in DOMAIN windows' : ~(j > last)
    BY <2>6
  <2>8. p \notin crowded' /\ allowed'[p] > 0 => Remembered(p)'
    BY <1>3, <2>2, <2>5, <2>7 DEF Remembered
  <2>9. 0 < MaxPeers
    BY <1>1, SlotFacts
  <2>10. QED
    BY <2>1, <2>2, <2>5, <2>8, <2>9 DEF PeerOK
\* Another peer: one more was heard behind it, and if they are fewer than MaxPeers it stays.
<1>16. ASSUME NEW q \in Slots!Peers, q # p PROVE PeerOK(q)'
  <2>1. /\ since'[q] = since[q] \cup {p} /\ allowed'[q] = allowed[q] /\ PeerOK(q)
        /\ IsFiniteSet(since'[q]) /\ Cardinality(since'[q]) \in Nat
    <3>1. since'[q] = since[q] \cup {p} /\ allowed'[q] = allowed[q] /\ PeerOK(q)
      BY <1>11, <1>12, <1>16 DEF SlotsInv
    <3>2. IsFiniteSet(since[q] \cup {p})
      BY <3>1, FS_AddElement DEF PeerOK
    <3>3. QED
      BY <3>1, <3>2, FS_CardinalityType
  <2>2. SUFFICES ASSUME q \notin crowded'
                 PROVE  /\ allowed[q] <= RateLimit /\ Cardinality(since'[q]) < MaxPeers
                        /\ allowed[q] > 0 => Remembered(q)'
    BY <2>1 DEF PeerOK
  <2>3. q \notin crowded /\ Cardinality(since'[q]) < MaxPeers
    <3>1. q \notin crowded /\ ~(Cardinality(since'[q]) >= MaxPeers)
      BY <1>11, <1>14, <1>16, <2>1, <2>2
    <3>2. QED
      BY <1>1, <2>1, <3>1, SlotFacts
  <2>4. ASSUME allowed[q] > 0 PROVE Remembered(q)'
    <3>1. PICK i \in DOMAIN windows :
            /\ windows[i].peer = q /\ windows[i].minute = minute /\ windows[i].count >= allowed[q]
            /\ \A j \in DOMAIN windows : j > i => windows[j].peer \in since[q]
      BY <2>1, <2>3, <2>4 DEF PeerOK, Remembered
    <3>2. PICK k \in DOMAIN rest :
            /\ rest[k] = windows[i]
            /\ \A l \in DOMAIN rest : l > k => \E j \in DOMAIN windows : j > i /\ rest[l] = windows[j]
      BY <1>4, <1>16, <3>1
    <3>3. k \in DOMAIN ws /\ ws[k] = windows[i] /\ k \in 1 .. n
      BY <1>6, <3>2
    <3>4. \A l \in DOMAIN ws : l > k => ws[l].peer \in since'[q]
      BY <1>3, <1>6, <2>1, <3>1, <3>2
    <3>5. Len(ws) - k <= Cardinality(since'[q])
      BY <1>6, <1>7, <2>1, <3>3, <3>4, NoMoreThanSince
    <3>6. k - d \in 1 .. n - d /\ (k - d) + d = k
      <4>1. n - k < MaxPeers /\ MaxPeers \in Nat
        BY <1>1, <1>6, <2>1, <2>3, <3>3, <3>5, SlotFacts
      <4>2. CASE d > 0
        BY <1>6, <1>8, <3>3, <4>1, <4>2
      <4>3. CASE d = 0
        BY <1>6, <3>3, <4>3
      <4>4. QED
        BY <1>6, <4>2, <4>3
    <3>7. PICK m \in DOMAIN windows' : m = k - d
      BY <1>9, <3>6
    <3>8. windows'[m] = windows[i]
      BY <1>8, <3>3, <3>6, <3>7
    <3>9. \A j \in DOMAIN windows' : j > m => windows'[j].peer \in since'[q]
      <4>1. \A j \in DOMAIN windows' : j > m => j + d > k
        BY <1>6, <1>9, <3>3, <3>7
      <4>2. QED
        BY <1>8, <1>9, <3>4, <4>1
    <3>10. QED
      BY <2>1, <3>1, <3>8, <3>9 DEF Remembered
  <2>5. QED
    BY <2>1, <2>3, <2>4 DEF PeerOK
<1>17. QED
  BY <1>8, <1>10, <1>13, <1>15, <1>16

\* A request moves on and takes or gives back a slot, or neither.
LEMMA SlotMoves ==
    ASSUME SlotsInv, NEW r \in Requests,
           NEW place \in {"queued", "running", "answered", "gone"},
           pc' = [pc EXCEPT ![r] = place],
           UNCHANGED <<minute, windows, allowed, since, crowded>>,
           \/ /\ pc[r] # "running" /\ place = "running" /\ slots > 0
              /\ slots' = slots - 1 /\ inFlight' = inFlight + 1
           \/ /\ pc[r] = "running" /\ place # "running"
              /\ slots' = slots + 1 /\ inFlight' = inFlight - 1
           \/ pc[r] # "running" /\ place # "running" /\ UNCHANGED <<slots, inFlight>>
    PROVE  SlotsInv'
<1> DEFINE running == Slots!Running
<1>1. \A t \in Requests : pc'[t] = IF t = r THEN place ELSE pc[t]
  BY DEF SlotsInv, Slots!TypeOK
<1>2. Slots!TypeOK /\ IsFiniteSet(running) /\ Cardinality(running) \in Nat
      /\ slots + Cardinality(running) = MaxSlots /\ inFlight = Cardinality(running)
      /\ slots \in Nat /\ MaxSlots \in Nat
  BY FS_CardinalityType, SlotFacts DEF SlotsInv, Slots!TypeOK
<1>3. running' = IF place = "running" THEN running \cup {r} ELSE running \ {r}
  BY <1>1 DEF Slots!Running
<1>4. r \in running <=> pc[r] = "running"
  BY DEF Slots!Running
<1> HIDE DEF running
<1>5. /\ IsFiniteSet(running') /\ Cardinality(running') \in Nat
      /\ slots' + Cardinality(running') = MaxSlots /\ inFlight' = Cardinality(running')
      /\ slots' \in 0 .. MaxSlots /\ inFlight' \in 0 .. MaxSlots
  <2>1. CASE place = "running"
    <3>1. r \notin running /\ running' = running \cup {r} /\ slots > 0
          /\ slots' = slots - 1 /\ inFlight' = inFlight + 1
      BY <1>3, <1>4, <2>1
    <3>2. IsFiniteSet(running') /\ Cardinality(running') = Cardinality(running) + 1
      BY <1>2, <3>1, FS_AddElement
    <3>3. QED
      BY <1>2, <3>1, <3>2
  <2>2. CASE place # "running" /\ pc[r] = "running"
    <3>1. r \in running /\ running' = running \ {r}
          /\ slots' = slots + 1 /\ inFlight' = inFlight - 1
      BY <1>3, <1>4, <2>2
    <3>2. /\ IsFiniteSet(running') /\ Cardinality(running') = Cardinality(running) - 1
          /\ Cardinality(running') \in Nat
      BY <1>2, <3>1, FS_RemoveElement, FS_CardinalityType
    <3>3. QED
      BY <1>2, <3>1, <3>2
  <2>3. CASE place # "running" /\ pc[r] # "running"
    <3>1. running' = running /\ UNCHANGED <<slots, inFlight>>
      BY <1>3, <1>4, <2>3
    <3>2. QED
      BY <1>2, <3>1
  <2>4. QED
    BY <2>1, <2>2, <2>3
<1>6. Slots!TypeOK'
  <2>1. pc' \in [Requests -> {"new", "queued", "running", "answered", "gone"}]
    BY <1>2 DEF Slots!TypeOK
  <2>2. QED
    BY <1>2, <1>5, <2>1 DEF Slots!TypeOK
<1>7. \A p \in Slots!Peers : PeerOK(p)'
  BY DEF SlotsInv, PeerOK, Remembered
<1>8. QED
  BY <1>5, <1>6, <1>7 DEF SlotsInv, running

\* Every step of a request, the next minute, and stuttering.
LEMMA SlotsStep ==
    ASSUME SlotsInv, Slots!Next \/ UNCHANGED <<pc, slotVars>>
    PROVE  SlotsInv'
<1>1. ASSUME NEW r \in Requests, NEW p \in Slots!Peers, Slots!Arrive(r, p) PROVE SlotsInv'
  <2>1. PICK ok \in BOOLEAN : ok <=> Slots!CountOf(p) < RateLimit
    OBVIOUS
  <2>2. ok = (Slots!CountOf(p) < RateLimit)
    BY <2>1
  <2>3. /\ pc[r] = "new" /\ Slots!Charge(p, ok) /\ Slots!Remember(p, ok)
        /\ pc' = [pc EXCEPT ![r] = IF ok THEN "queued" ELSE "answered"]
        /\ UNCHANGED <<minute, slots, inFlight>>
    BY <1>1, <2>2 DEF Slots!Arrive
  <2>4. /\ windows' \in Seq(Window) /\ Len(windows') <= MaxPeers
        /\ \A i, j \in DOMAIN windows' : windows'[i].peer = windows'[j].peer => i = j
        /\ allowed' \in [Slots!Peers -> Nat] /\ since' \in [Slots!Peers -> SUBSET Slots!Peers]
        /\ crowded' \subseteq Slots!Peers
        /\ \A q \in Slots!Peers : PeerOK(q)'
    BY <2>1, <2>3, PeersCharged
  <2>5. pc' \in [Requests -> {"new", "queued", "running", "answered", "gone"}]
    BY <2>3 DEF SlotsInv, Slots!TypeOK
  <2>6. Slots!TypeOK'
    BY <2>3, <2>4, <2>5 DEF SlotsInv, Slots!TypeOK, Window
  <2>7. Slots!Running' = Slots!Running
    BY <2>3 DEF Slots!Running, SlotsInv, Slots!TypeOK
  <2>8. QED
    BY <2>3, <2>4, <2>6, <2>7 DEF SlotsInv
<1>2. ASSUME NEW r \in Requests, Slots!Start(r) PROVE SlotsInv'
  BY <1>2, SlotMoves DEF Slots!Start
<1>3. ASSUME NEW r \in Requests, Slots!QueueTimeout(r) PROVE SlotsInv'
  BY <1>3, SlotMoves DEF Slots!QueueTimeout
<1>4. ASSUME NEW r \in Requests, NEW to \in {"answered", "gone"}, Slots!Leave(r, to) PROVE SlotsInv'
  BY <1>4, SlotMoves DEF Slots!Leave
<1>5. ASSUME NEW r \in Requests, Slots!Disconnect(r) PROVE SlotsInv'
  <2>1. CASE /\ pc[r] = "queued" /\ pc' = [pc EXCEPT ![r] = "gone"]
             /\ UNCHANGED <<minute, windows, slots, inFlight, allowed, since, crowded>>
    BY <2>1, SlotMoves
  <2>2. QED
    BY <1>4, <1>5, <2>1 DEF Slots!Disconnect
<1>6. CASE Slots!NextMinute
  <2>1. /\ minute < MaxMinute /\ minute' = minute + 1 /\ crowded' = {}
        /\ allowed' = [p \in Slots!Peers |-> 0] /\ since' = [p \in Slots!Peers |-> {}]
        /\ UNCHANGED <<windows, slots, inFlight, pc>>
    BY <1>6 DEF Slots!NextMinute
  <2>2. minute' \in 1 .. MaxMinute
    BY <2>1, SlotFacts DEF SlotsInv, Slots!TypeOK
  <2>3. Slots!TypeOK'
    BY <2>1, <2>2 DEF SlotsInv, Slots!TypeOK
  <2>4. IsFiniteSet({}) /\ Cardinality({}) = 0 /\ 0 < MaxPeers /\ 0 <= RateLimit
    BY FS_EmptySet, SlotFacts DEF SlotsInv
  <2>5. \A p \in Slots!Peers : PeerOK(p)'
    BY <2>1, <2>4 DEF PeerOK
  <2>6. Slots!Running' = Slots!Running
    BY <2>1 DEF Slots!Running
  <2>7. QED
    BY <2>1, <2>3, <2>5, <2>6 DEF SlotsInv
<1>7. CASE UNCHANGED <<pc, slotVars>>
  BY <1>7 DEF slotVars, SlotsInv, Slots!TypeOK, Slots!Running, PeerOK, Remembered
<1>8. \A r, to : Slots!Respond(r) => Slots!Leave(r, "answered")
  BY DEF Slots!Respond
<1>9. \A x \in Addresses, h \in Forwarded \cup {Garbled, NoHeader} : Slots!PeerOf(x, h) \in Slots!Peers
  BY DEF Slots!Peers
<1>10. QED
  BY <1>1, <1>2, <1>3, <1>4, <1>5, <1>6, <1>7, <1>8, <1>9 DEF Slots!Next

\* Every slot is free, and nobody was heard.
LEMMA SlotsInit ==
    ASSUME Slots!Init
    PROVE  SlotsInv
<1>1. /\ RateLimit \in Nat \ {0} /\ MaxPeers \in Nat \ {0} /\ MaxSlots \in Nat \ {0}
      /\ MaxMinute \in Nat \ {0} /\ IsFiniteSet({}) /\ Cardinality({}) = 0
  BY PermitsAssumption, FS_EmptySet DEF Slots!LimitsAssumption
<1>2. windows = << >> /\ DOMAIN windows = {} /\ Len(windows) = 0
      /\ pc = [r \in Requests |-> "new"] /\ minute = 1 /\ slots = MaxSlots /\ inFlight = 0
      /\ allowed = [p \in Slots!Peers |-> 0] /\ since = [p \in Slots!Peers |-> {}] /\ crowded = {}
  BY DEF Slots!Init
<1>3. Slots!TypeOK
  BY <1>1, <1>2 DEF Slots!TypeOK
<1>4. Slots!Running = {}
  BY <1>2 DEF Slots!Running
<1>5. \A p \in Slots!Peers : PeerOK(p)
  BY <1>1, <1>2 DEF PeerOK
<1>6. QED
  BY <1>1, <1>2, <1>3, <1>4, <1>5 DEF SlotsInv
-----------------------------------------------------------------------------
(* The theorems. *)

\* The invariant of the subject of a behaviour.
ResourceInv ==
    /\ subject = "scanner" => PoolInv(FALSE)
    /\ subject = "abandoned" => PoolInv(TRUE)
    /\ subject = "validation" => ValidationInv
    /\ subject = "slots" => SlotsInv

\* Each subject's invariant holds throughout.
THEOREM ResourceInvariant == Spec => []ResourceInv
<1>1. Init => ResourceInv
  BY PoolInit, ValidationInit, SlotsInit DEF Init, ResourceInv
<1>2. ResourceInv /\ [Next]_vars => ResourceInv'
  <2> SUFFICES ASSUME ResourceInv, [Next]_vars PROVE ResourceInv'
    OBVIOUS
  <2>1. subject' = subject
    BY DEF Next, vars, OnlyScanner, OnlyAbandoned, OnlyValidation, OnlySlots
  <2>2. /\ subject = "scanner" => Pool(FALSE)!Next \/ UNCHANGED <<pc, cancelled, scannerVars>>
        /\ subject = "abandoned" => Pool(TRUE)!Next \/ UNCHANGED <<pc, cancelled, scannerVars>>
        /\ subject = "validation" => Validation!Next \/ UNCHANGED <<pc, cancelled, validationVars>>
        /\ subject = "slots" => Slots!Next \/ UNCHANGED <<pc, slotVars>>
    BY DEF Next, vars, OnlyScanner, OnlyAbandoned, OnlyValidation, OnlySlots
  <2>3. QED
    BY <2>1, <2>2, PoolStep, ValidationStep, SlotsStep DEF ResourceInv
<1>3. QED
  BY <1>1, <1>2, PTL DEF Spec

\* No permit of the scanner or the validator and no request slot is lost, made or given to
\* two calls, and where loops close under their scans none is lost
\* (_release_scanner_process_permit, validate_schema_arguments, response_policy).
THEOREM Conserved == Spec => []PermitsConserved
<1>1. ResourceInv => PermitsConserved
  <2>1. SlotsInv => Slots!TypeOK /\ Slots!SlotsBalanced
    <3>1. Slots!Cardinality(Slots!Running) = Cardinality(Slots!Running)
      BY DEF Slots!Cardinality, Cardinality
    <3>2. QED
      BY <3>1 DEF SlotsInv, Slots!SlotsBalanced
  <2>2. QED
    BY <2>1, PoolSafe, ValidationSafe DEF ResourceInv, PermitsConserved
<1>2. QED
  BY <1>1, ResourceInvariant, PTL

\* A peer gets more than its limit through in a minute only once MaxPeers other peers were
\* heard after it (FixedWindowRateLimiter.allow).
THEOREM Limited == Spec => []PeersAreLimited
<1>1. ResourceInv => PeersAreLimited
  BY DEF ResourceInv, SlotsInv, PeerOK, PeersAreLimited, Slots!PeersAreLimited
<1>2. QED
  BY <1>1, ResourceInvariant, PTL
=============================================================================
