--------------------------- MODULE Discovery_proofs ---------------------------
(***************************************************************************)
(* Proofs about Discovery, for any number of tools, contents, refreshes    *)
(* and changes: the refresh that is outstanding is the one the connection  *)
(* allocated, what is active and enabled was observed and decided, two     *)
(* epochs identify a run's target, and the registry implements the target  *)
(* that the execution ledger relies on.                                    *)
(***************************************************************************)
EXTENDS Discovery, SequenceTheorems, TLAPS

(* The inductive invariant, part by part. *)

\* Versions are numbered as they are appended, and the snapshot is not newer than the
\* connection.
ConnectionOK ==
    /\ connection \in Connections
    /\ connection.pending # NoTarget \/ connection.verified # NoTarget
    /\ connection.pending # connection.verified
    /\ connection.pending <= connection.versions /\ connection.verified <= connection.versions
    /\ connection.snapshot.controlEpoch <= connection.controlEpoch

\* A capability c whose operator last enabled d.
CapabilityOK(c, d) ==
    /\ c \in Capabilities
    /\ c.pending # NoVersion => c.pending # c.enabled
    /\ c.status = "enabled" => c.enabled # NoVersion /\ c.pending = NoVersion
    /\ c.status = "pending_review" => c.pending # NoVersion
    /\ d \in Versions \cup {NoVersion}
    /\ c.enabled # NoVersion /\ c.status # "disabled" => d = c.enabled

CapabilitiesOK ==
    /\ capability \in [Tools -> Capabilities]
    /\ decision \in [Tools -> Versions \cup {NoVersion}]
    /\ \A t \in Tools : CapabilityOK(capability[t], decision[t])

JobsOK(js) ==
    /\ js \in Seq(Jobs)
    /\ \A g \in DOMAIN js : js[g].live => js[g].status = "leased"

Allocated ==
    \A g \in DOMAIN jobs :
        /\ IF g = Len(jobs) /\ connection.allocation # NoAllocation
           THEN Open(jobs[g]) /\ Eligible(g)
           ELSE ~Open(jobs[g])
        /\ Eligible(g) /\ connection.pending # NoTarget => connection.lifecycle = "verifying"

\* Epochs only rise after an admission pinned them.
PinOK ==
    pin # NoVersion =>
        /\ pin \in [version : Versions, controlEpoch : Nat, statusEpoch : Nat]
        /\ pin.controlEpoch <= connection.controlEpoch
        /\ pin.statusEpoch <= capability[Tool].statusEpoch

DiscoveryInv ==
    /\ member \in BOOLEAN
    /\ ConnectionOK
    /\ CapabilitiesOK
    /\ JobsOK(jobs)
    /\ contacted \subseteq Leases
    /\ Allocated
    /\ EnabledIsObserved
    /\ PinOK
    /\ EpochsPinTarget
-----------------------------------------------------------------------------
(* Lemmas about the operators of the model. *)

\* The types of the rows.
LEMMA JobFacts ==
    ASSUME NEW js, JobsOK(js)
    PROVE  /\ Len(js) \in Nat /\ DOMAIN js = 1 .. Len(js)
           /\ \A g \in DOMAIN js : js[g] \in Jobs
BY LenProperties, ElementOfSeq DEF JobsOK

\* A sequence of jobs, written as a function.
LEMMA JobSequence ==
    ASSUME NEW n \in Nat, NEW ks \in [1 .. n -> Jobs],
           \A g \in 1 .. n : ks[g].live => ks[g].status = "leased"
    PROVE  JobsOK(ks) /\ Len(ks) = n /\ DOMAIN ks = 1 .. n
<1>1. ks \in Seq(Jobs) /\ DOMAIN ks = 1 .. n
  BY SeqDef
<1>2. Len(ks) = n
  BY <1>1, LenProperties
<1>3. QED
  BY <1>1, <1>2 DEF JobsOK

\* _obsolete_refresh_jobs closes what is open and leaves what is settled.
LEMMA ObsoleteOK ==
    ASSUME NEW js, JobsOK(js)
    PROVE  /\ JobsOK(Obsolete(js)) /\ Len(Obsolete(js)) = Len(js)
           /\ \A g \in DOMAIN js :
                /\ ~Open(Obsolete(js)[g])
                /\ ~Open(js[g]) => Obsolete(js)[g] = js[g]
                /\ Obsolete(js)[g].leaseEpoch = js[g].leaseEpoch
<1> DEFINE closed(j) == [j EXCEPT !.status = "obsolete", !.live = FALSE]
<1>1. /\ Len(js) \in Nat /\ DOMAIN js = 1 .. Len(js)
      /\ \A g \in DOMAIN js : js[g] \in Jobs
  BY JobFacts
<1>2. ASSUME NEW j \in Jobs
      PROVE  /\ closed(j) \in Jobs /\ closed(j).status = "obsolete" /\ closed(j).live = FALSE
             /\ closed(j).leaseEpoch = j.leaseEpoch
  BY DEF Jobs, ClosedStatuses
<1> HIDE DEF closed
<1>3. Obsolete(js) = [g \in 1 .. Len(js) |-> IF Open(js[g]) THEN closed(js[g]) ELSE js[g]]
  BY <1>1 DEF Obsolete, closed
<1>4. Obsolete(js) \in [1 .. Len(js) -> Jobs]
  BY <1>1, <1>2, <1>3
<1>5. \A g \in DOMAIN js : /\ ~Open(Obsolete(js)[g])
                           /\ ~Open(js[g]) => Obsolete(js)[g] = js[g]
                           /\ Obsolete(js)[g].leaseEpoch = js[g].leaseEpoch
                           /\ Obsolete(js)[g].live => Obsolete(js)[g].status = "leased"
  BY <1>1, <1>2, <1>3 DEF Open, OpenStatuses, JobsOK
<1>6. QED
  BY <1>1, <1>4, <1>5, JobSequence

\* Appending a job that was not claimed yet.
LEMMA AppendJobOK ==
    ASSUME NEW js, JobsOK(js), NEW j \in Jobs, ~j.live
    PROVE  /\ JobsOK(Append(js, j)) /\ Len(Append(js, j)) = Len(js) + 1
           /\ \A g \in DOMAIN js : Append(js, j)[g] = js[g]
           /\ Append(js, j)[Len(js) + 1] = j
<1>1. /\ Len(js) \in Nat /\ DOMAIN js = 1 .. Len(js) /\ js \in Seq(Jobs)
  BY JobFacts DEF JobsOK
<1>2. /\ Append(js, j) \in Seq(Jobs) /\ Len(Append(js, j)) = Len(js) + 1
      /\ \A g \in 1 .. Len(js) : Append(js, j)[g] = js[g]
      /\ Append(js, j)[Len(js) + 1] = j
  BY <1>1, AppendProperties
<1>3. DOMAIN Append(js, j) = 1 .. Len(js) + 1
  BY <1>2, LenProperties
<1>4. QED
  BY <1>1, <1>2, <1>3 DEF JobsOK

\* ks is js with job j in place g.
Replaced(js, ks, g, j) == ks = [js EXCEPT ![g] = j]

\* Changing one job.
LEMMA OneJobOK ==
    ASSUME NEW js, JobsOK(js), NEW g \in DOMAIN js, NEW j \in Jobs, j.live => j.status = "leased",
           NEW ks, Replaced(js, ks, g, j)
    PROVE  /\ JobsOK(ks) /\ Len(ks) = Len(js) /\ DOMAIN ks = DOMAIN js /\ ks[g] = j
           /\ \A h \in DOMAIN js : h # g => ks[h] = js[h]
<1>1. /\ Len(js) \in Nat /\ DOMAIN js = 1 .. Len(js)
      /\ \A h \in DOMAIN js : js[h] \in Jobs
  BY JobFacts
<1>2. js \in [1 .. Len(js) -> Jobs]
  BY <1>1, SeqDef, LenProperties DEF JobsOK
<1>3. /\ ks \in [1 .. Len(js) -> Jobs] /\ ks[g] = j
      /\ \A h \in DOMAIN js : h # g => ks[h] = js[h]
  BY <1>1, <1>2 DEF Replaced
<1>4. \A h \in 1 .. Len(js) : ks[h].live => ks[h].status = "leased"
  BY <1>1, <1>3 DEF JobsOK
<1>5. QED
  BY <1>1, <1>3, <1>4, JobSequence

\* The jobs move forward: settled jobs stay, leases are not taken back.
JobsMove(js, ks) ==
    /\ JobsOK(ks)
    /\ DOMAIN js \subseteq DOMAIN ks
    /\ \A g \in DOMAIN js : /\ js[g].status \in ClosedStatuses => ks[g] = js[g]
                            /\ js[g].leaseEpoch <= ks[g].leaseEpoch

\* Leases, as pairs.
LEMMA LeaseFacts ==
    ASSUME NEW l
    PROVE  l \in Leases <=>
             \E g \in DOMAIN jobs : l \in [generation : {g}, leaseEpoch : 1 .. jobs[g].leaseEpoch]
BY DEF Leases

\* A lease that was given stays given.
LEMMA LeasesGrow ==
    ASSUME JobsOK(jobs), JobsMove(jobs, jobs')
    PROVE  Leases \subseteq Leases'
<1> SUFFICES ASSUME NEW l \in Leases PROVE l \in Leases'
  OBVIOUS
<1>1. PICK g \in DOMAIN jobs : l \in [generation : {g}, leaseEpoch : 1 .. jobs[g].leaseEpoch]
  BY LeaseFacts
<1>2. g \in DOMAIN jobs' /\ jobs[g].leaseEpoch <= jobs'[g].leaseEpoch
  BY DEF JobsMove
<1>3. jobs[g] \in Jobs /\ jobs'[g] \in Jobs
  BY <1>2, JobFacts DEF JobsMove
<1>4. jobs[g].leaseEpoch \in Nat /\ jobs'[g].leaseEpoch \in Nat
  BY <1>3 DEF Jobs
<1>5. 1 .. jobs[g].leaseEpoch \subseteq 1 .. jobs'[g].leaseEpoch
  BY <1>2, <1>4
<1>6. l \in [generation : {g}, leaseEpoch : 1 .. jobs'[g].leaseEpoch]
  BY <1>1, <1>5
<1>7. QED
  BY <1>2, <1>6 DEF Leases

\* The job of a lease.
LEMMA LeaseJob ==
    ASSUME JobsOK(jobs), NEW l \in Leases
    PROVE  l.generation \in DOMAIN jobs
<1>1. PICK g \in DOMAIN jobs : l \in [generation : {g}, leaseEpoch : 1 .. jobs[g].leaseEpoch]
  BY LeaseFacts
<1>2. QED
  BY <1>1

\* A capability row may stay, or change with a new status epoch; its status is enabled
\* anew only by a version that is observed.
CapabilityMoves(c, d) ==
    \/ d = c
    \/ /\ d.statusEpoch = c.statusEpoch + 1
       /\ d.status = "enabled" => c.status # "enabled"

\* record_version keeps a capability consistent and its operator's decision in force.
LEMMA RecordVersionOK ==
    ASSUME NEW c, NEW d, CapabilityOK(c, d), NEW v \in Versions
    PROVE  LET e == RecordVersion(c, v) IN
           /\ CapabilityOK(e, d) /\ CapabilityMoves(c, e)
           /\ e.status = "enabled" => e.enabled = v
<1> DEFINE e == RecordVersion(c, v)
           Good == /\ CapabilityOK(e, d) /\ CapabilityMoves(c, e)
                   /\ e.status = "enabled" => e.enabled = v
<1> HIDE DEF e
<1>1. v # NoVersion
  BY NullsAssumption DEF Versions
<1>2. c \in Capabilities /\ c.statusEpoch \in Nat /\ c.statusEpoch + 1 \in Nat
  BY DEF CapabilityOK, Capabilities
<1>3. ASSUME v = c.enabled /\ c.pending # NoVersion
      PROVE  Good
  <2>1. e = [c EXCEPT !.pending = NoVersion,
               !.status = IF c.status = "disabled" THEN "disabled" ELSE "enabled",
               !.statusEpoch = @ + 1]
    BY <1>2, <1>3 DEF RecordVersion, Changed, Capabilities, e
  <2>2. /\ e \in Capabilities /\ e.pending = NoVersion /\ e.enabled = c.enabled
        /\ e.status = IF c.status = "disabled" THEN "disabled" ELSE "enabled"
        /\ e.statusEpoch = c.statusEpoch + 1
    BY <1>2, <2>1 DEF Capabilities
  <2>3. QED
    BY <1>1, <1>2, <1>3, <2>2 DEF CapabilityOK, CapabilityMoves
<1>4. ASSUME v = c.enabled /\ c.pending = NoVersion /\ c.status = "unavailable"
      PROVE  Good
  <2>1. e = [c EXCEPT !.status = "enabled", !.statusEpoch = @ + 1]
    BY <1>4 DEF RecordVersion, Changed, e
  <2>2. /\ e \in Capabilities /\ e.pending = c.pending /\ e.enabled = c.enabled
        /\ e.status = "enabled" /\ e.statusEpoch = c.statusEpoch + 1
    BY <1>2, <2>1 DEF Capabilities
  <2>3. QED
    BY <1>1, <1>2, <1>4, <2>2 DEF CapabilityOK, CapabilityMoves
<1>5. ASSUME v # c.enabled /\ v = c.pending /\ c.status = "unavailable"
      PROVE  Good
  <2>1. e = [c EXCEPT !.status = "pending_review", !.statusEpoch = @ + 1]
    BY <1>5 DEF RecordVersion, Changed, e
  <2>2. /\ e \in Capabilities /\ e.pending = c.pending /\ e.enabled = c.enabled
        /\ e.status = "pending_review" /\ e.statusEpoch = c.statusEpoch + 1
    BY <1>2, <2>1 DEF Capabilities
  <2>3. QED
    BY <1>1, <1>2, <1>5, <2>2 DEF CapabilityOK, CapabilityMoves
<1>6. ASSUME v \notin {c.enabled, c.pending}
      PROVE  Good
  <2>1. e = [c EXCEPT !.pending = v,
               !.status = IF c.status = "disabled" THEN "disabled" ELSE "pending_review",
               !.statusEpoch = @ + 1]
    BY <1>2, <1>6 DEF RecordVersion, Changed, Capabilities, e
  <2>2. /\ e \in Capabilities /\ e.pending = v /\ e.enabled = c.enabled
        /\ e.status = IF c.status = "disabled" THEN "disabled" ELSE "pending_review"
        /\ e.statusEpoch = c.statusEpoch + 1
    BY <1>2, <2>1 DEF Capabilities
  <2>3. QED
    BY <1>1, <1>2, <1>6, <2>2 DEF CapabilityOK, CapabilityMoves
<1>7. ASSUME /\ v \in {c.enabled, c.pending} /\ c.status # "unavailable"
             /\ ~(v = c.enabled /\ c.pending # NoVersion)
      PROVE  Good
  <2>1. e = c
    BY <1>7 DEF RecordVersion, e
  <2>2. c.status = "enabled" => c.enabled = v
    BY <1>1, <1>7 DEF CapabilityOK
  <2>3. QED
    BY <2>1, <2>2 DEF CapabilityMoves
<1>8. QED
  BY <1>3, <1>4, <1>5, <1>6, <1>7 DEF e

\* _mark_missing_unavailable leaves nothing enabled.
LEMMA MarkMissingOK ==
    ASSUME NEW c, NEW d, CapabilityOK(c, d)
    PROVE  /\ CapabilityOK(MarkMissing(c), d) /\ CapabilityMoves(c, MarkMissing(c))
           /\ MarkMissing(c).status # "enabled"
<1>1. CASE c.status \in {"absent", "unavailable", "disabled"}
  BY <1>1 DEF MarkMissing, CapabilityMoves
<1>2. CASE c.status \notin {"absent", "unavailable", "disabled"}
  <2>1. MarkMissing(c) = [c EXCEPT !.status = "unavailable", !.statusEpoch = @ + 1]
    BY <1>2 DEF MarkMissing, Changed
  <2>2. c \in Capabilities /\ c.statusEpoch + 1 \in Nat
    BY DEF CapabilityOK, Capabilities
  <2>3. LET e == MarkMissing(c) IN
        /\ e \in Capabilities /\ e.pending = c.pending /\ e.enabled = c.enabled
        /\ e.status = "unavailable" /\ e.statusEpoch = c.statusEpoch + 1
    BY <2>1, <2>2 DEF Capabilities
  <2>4. QED
    BY <1>2, <2>3 DEF CapabilityOK, CapabilityMoves
<1>3. QED
  BY <1>1, <1>2

\* The two epochs of a run's target stay its witnesses.
LEMMA PinStep ==
    ASSUME DiscoveryInv, CapabilitiesOK', ConnectionOK', EnabledIsObserved', pin' = pin,
           CapabilityMoves(capability[Tool], capability'[Tool]),
           connection'.controlEpoch \in {connection.controlEpoch, connection.controlEpoch + 1}
    PROVE  PinOK' /\ EpochsPinTarget'
<1>1. SUFFICES ASSUME pin # NoVersion PROVE PinOK' /\ EpochsPinTarget'
  BY DEF PinOK, EpochsPinTarget
<1>2. /\ pin \in [version : Versions, controlEpoch : Nat, statusEpoch : Nat]
      /\ pin.controlEpoch <= connection.controlEpoch
      /\ pin.statusEpoch <= capability[Tool].statusEpoch
  BY <1>1 DEF DiscoveryInv, PinOK
<1>3. pin.controlEpoch \in Nat /\ pin.statusEpoch \in Nat
  BY <1>2
<1>4. capability[Tool].statusEpoch \in Nat /\ connection.controlEpoch \in Nat
  BY ToolAssumption DEF DiscoveryInv, CapabilitiesOK, Capabilities, ConnectionOK, Connections
<1>5. PinOK'
  BY <1>2, <1>3, <1>4 DEF PinOK, CapabilityMoves
<1>6. ASSUME connection'.controlEpoch = pin.controlEpoch,
             capability'[Tool].statusEpoch = pin.statusEpoch
      PROVE  /\ capability'[Tool].status = "enabled" /\ capability'[Tool].enabled = pin.version
             /\ connection'.lifecycle = "active" => Executable(Tool)'
  <2>1. connection.controlEpoch = pin.controlEpoch
    BY <1>2, <1>3, <1>4, <1>6
  <2>2. capability'[Tool] = capability[Tool]
    BY <1>2, <1>3, <1>4, <1>6 DEF CapabilityMoves
  <2>3. capability[Tool].status = "enabled" /\ capability[Tool].enabled = pin.version
    BY <1>1, <1>6, <2>1, <2>2 DEF DiscoveryInv, EpochsPinTarget
  <2>4. connection'.lifecycle = "active" => Executable(Tool)'
    BY <2>2, <2>3, ToolAssumption DEF EnabledIsObserved
  <2>5. QED
    BY <2>2, <2>3, <2>4
<1>7. QED
  BY <1>5, <1>6 DEF EpochsPinTarget

\* Facts every step uses.
LEMMA ConnectionFacts ==
    ASSUME DiscoveryInv
    PROVE  /\ connection \in Connections
           /\ connection.versions \in Nat /\ connection.pending \in Nat
           /\ connection.verified \in Nat /\ connection.controlEpoch \in Nat
           /\ connection.versions + 1 \in Nat /\ connection.controlEpoch + 1 \in Nat
           /\ connection.snapshot \in Snapshots /\ connection.snapshot.controlEpoch \in Nat
           /\ Target(connection) \in Nat /\ Target(connection) # NoTarget
           /\ Target(connection) <= connection.versions
           /\ connection.lifecycle \in {"verifying", "active", "degraded", "disabled"}
           /\ Len(jobs) \in Nat /\ DOMAIN jobs = 1 .. Len(jobs)
           /\ \A g \in DOMAIN jobs : jobs[g] \in Jobs
<1>1. connection \in Connections /\ JobsOK(jobs)
  BY DEF DiscoveryInv, ConnectionOK
<1>2. /\ connection.versions \in Nat /\ connection.pending \in Nat
      /\ connection.verified \in Nat /\ connection.controlEpoch \in Nat
      /\ connection.snapshot \in Snapshots
      /\ connection.lifecycle \in {"verifying", "active", "degraded", "disabled"}
  BY <1>1 DEF Connections
<1>3. connection.snapshot.controlEpoch \in Nat
  BY <1>2 DEF Snapshots
<1>4. QED
  BY <1>1, <1>2, <1>3, JobFacts DEF DiscoveryInv, ConnectionOK, Target, NoTarget

\* What every step that leaves the capabilities alone keeps of them.
LEMMA CapabilitiesKept ==
    ASSUME DiscoveryInv, UNCHANGED <<capability, decision>>
    PROVE  CapabilitiesOK' /\ CapabilityMoves(capability[Tool], capability'[Tool])
BY DEF DiscoveryInv, CapabilitiesOK, CapabilityMoves

\* The leases a worker has contacted the endpoint under were given.
LEMMA ContactedKept ==
    ASSUME DiscoveryInv, JobsMove(jobs, jobs'), UNCHANGED contacted
    PROVE  JobsOK(jobs)' /\ (contacted \subseteq Leases)'
<1>1. Leases \subseteq Leases'
  BY LeasesGrow DEF DiscoveryInv
<1>2. QED
  BY <1>1 DEF DiscoveryInv, JobsMove

\* Without an allocation no job is open and none is eligible.
LEMMA NothingAllocated ==
    ASSUME JobsOK(jobs'), connection'.allocation = NoAllocation,
           \A g \in DOMAIN jobs' : ~Open(jobs'[g])
    PROVE  Allocated'
<1>1. ASSUME NEW g \in DOMAIN jobs' PROVE ~Eligible(g)'
  <2>1. jobs'[g] \in Jobs
    BY JobFacts
  <2>2. jobs'[g].controlEpoch \in Nat /\ jobs'[g].target \in Nat
    BY <2>1 DEF Jobs
  <2>3. QED
    BY <2>2, NullsAssumption DEF Eligible
<1>2. QED
  BY <1>1 DEF Allocated

\* A change of configuration or lifecycle obsoletes what is outstanding.
LEMMA ControlOK ==
    ASSUME DiscoveryInv, AppendVersion \/ DisableConnection
    PROVE  DiscoveryInv' /\ JobsMove(jobs, jobs')
<1>1. /\ jobs' = Obsolete(jobs) /\ UNCHANGED <<member, capability, contacted, historyVars>>
  BY DEF AppendVersion, DisableConnection
<1>2. ConnectionOK' /\ connection'.allocation = NoAllocation
      /\ connection'.lifecycle # "active"
      /\ connection'.controlEpoch = connection.controlEpoch + 1
  <2>1. CASE AppendVersion
    <3>1. connection' = [connection EXCEPT !.lifecycle = "verifying",
            !.controlEpoch = connection.controlEpoch + 1, !.allocation = NoAllocation,
            !.versions = connection.versions + 1, !.pending = connection.versions + 1]
      BY <2>1, ConnectionFacts DEF AppendVersion, Controlled, Connections
    <3>2. connection' \in Connections
      BY <3>1, ConnectionFacts DEF Connections
    <3>3. /\ connection'.allocation = NoAllocation /\ connection'.lifecycle = "verifying"
          /\ connection'.controlEpoch = connection.controlEpoch + 1
          /\ connection'.versions = connection.versions + 1
          /\ connection'.pending = connection.versions + 1
          /\ connection'.verified = connection.verified
          /\ connection'.snapshot = connection.snapshot
      BY <3>1, ConnectionFacts DEF Connections
    <3>4. QED
      BY <3>2, <3>3, ConnectionFacts DEF DiscoveryInv, ConnectionOK, NoTarget
  <2>2. CASE DisableConnection
    <3>1. connection' = [connection EXCEPT !.lifecycle = "disabled",
            !.controlEpoch = connection.controlEpoch + 1, !.allocation = NoAllocation]
      BY <2>2, ConnectionFacts DEF DisableConnection, Controlled, Connections
    <3>2. connection' \in Connections
      BY <3>1, ConnectionFacts DEF Connections
    <3>3. /\ connection'.allocation = NoAllocation /\ connection'.lifecycle = "disabled"
          /\ connection'.controlEpoch = connection.controlEpoch + 1
          /\ connection'.versions = connection.versions
          /\ connection'.pending = connection.pending
          /\ connection'.verified = connection.verified
          /\ connection'.snapshot = connection.snapshot
      BY <3>1, ConnectionFacts DEF Connections
    <3>4. QED
      BY <3>2, <3>3, ConnectionFacts DEF DiscoveryInv, ConnectionOK, NoTarget
  <2>3. QED
    BY <2>1, <2>2
<1>3. /\ JobsMove(jobs, jobs') /\ \A g \in DOMAIN jobs' : ~Open(jobs'[g])
  <2>1. /\ JobsOK(jobs') /\ Len(jobs') = Len(jobs)
        /\ \A g \in DOMAIN jobs :
                /\ ~Open(jobs'[g])
                /\ ~Open(jobs[g]) => jobs'[g] = jobs[g]
                /\ jobs'[g].leaseEpoch = jobs[g].leaseEpoch
    BY <1>1, ObsoleteOK DEF DiscoveryInv
  <2>2. DOMAIN jobs' = DOMAIN jobs
    BY <2>1, JobFacts DEF DiscoveryInv
  <2>3. \A g \in DOMAIN jobs : jobs[g].leaseEpoch \in Nat
    BY ConnectionFacts DEF Jobs
  <2>4. QED
    BY <2>1, <2>2, <2>3 DEF JobsMove, Open, OpenStatuses, ClosedStatuses
<1>4. JobsOK(jobs)' /\ (contacted \subseteq Leases)'
  BY <1>1, <1>3, ContactedKept
<1>5. Allocated'
  BY <1>2, <1>3, NothingAllocated DEF JobsMove
<1>6. CapabilitiesOK' /\ CapabilityMoves(capability[Tool], capability'[Tool])
  BY <1>1, CapabilitiesKept DEF historyVars
<1>7. EnabledIsObserved'
  BY <1>2 DEF EnabledIsObserved
<1>8. PinOK' /\ EpochsPinTarget'
  BY <1>1, <1>2, <1>6, <1>7, PinStep DEF historyVars
<1>9. QED
  BY <1>1, <1>2, <1>3, <1>4, <1>5, <1>6, <1>7, <1>8 DEF DiscoveryInv

\* enqueue, on a connection row c that this transaction left alone or enabled.
LEMMA EnqueueOnOK ==
    ASSUME DiscoveryInv, NEW c \in Connections, EnqueueOn(c),
           c.lifecycle # "disabled", c.lifecycle = "active" => c = connection,
           c.controlEpoch \in {connection.controlEpoch, connection.controlEpoch + 1},
           c.versions = connection.versions, c.pending = connection.pending,
           c.verified = connection.verified, c.snapshot = connection.snapshot
    PROVE  DiscoveryInv' /\ JobsMove(jobs, jobs')
<1> DEFINE j == [status |-> "queued", controlEpoch |-> c.controlEpoch,
                 target |-> Target(c), leaseEpoch |-> 0, live |-> FALSE]
           a == [controlEpoch |-> c.controlEpoch, target |-> Target(c)]
           old == Obsolete(jobs)
<1>1. /\ connection' = Allocate(c) /\ jobs' = Append(old, j)
      /\ UNCHANGED <<member, capability, contacted, historyVars>>
  BY DEF EnqueueOn
<1>2. /\ c.controlEpoch \in Nat /\ Target(c) = Target(connection) /\ Target(c) \in Nat
      /\ c.controlEpoch >= connection.controlEpoch
  BY ConnectionFacts DEF Target
<1>3. a \in [controlEpoch : Nat, target : Nat] /\ a # NoAllocation
  BY <1>2, NullsAssumption
<1>4. j \in Jobs /\ j.status = "queued" /\ ~j.live /\ j.controlEpoch = c.controlEpoch
      /\ j.target = Target(c)
  BY <1>2 DEF Jobs, OpenStatuses
<1> HIDE DEF j, a
<1>5. /\ connection' \in Connections /\ connection'.allocation = a
      /\ connection'.lifecycle = IF c.pending # NoTarget /\ c.lifecycle = "degraded"
                                 THEN "verifying" ELSE c.lifecycle
      /\ connection'.versions = connection.versions /\ connection'.pending = connection.pending
      /\ connection'.verified = connection.verified
      /\ connection'.snapshot = connection.snapshot
      /\ connection'.controlEpoch = c.controlEpoch
  <2>1. connection' = [c EXCEPT !.lifecycle = IF c.pending # NoTarget /\ c.lifecycle = "degraded"
                                              THEN "verifying" ELSE c.lifecycle,
                                !.allocation = a]
    BY <1>1 DEF Allocate, a, Connections
  <2>2. QED
    BY <1>3, <2>1 DEF Connections
<1>6. ConnectionOK'
  BY <1>2, <1>5, ConnectionFacts DEF DiscoveryInv, ConnectionOK
<1>7. /\ JobsOK(old) /\ Len(old) = Len(jobs) /\ DOMAIN old = DOMAIN jobs
      /\ \A g \in DOMAIN jobs :
           /\ ~Open(old[g])
           /\ ~Open(jobs[g]) => old[g] = jobs[g]
           /\ old[g].leaseEpoch = jobs[g].leaseEpoch
  <2>1. JobsOK(jobs)
    BY DEF DiscoveryInv
  <2>2. QED
    BY <2>1, ObsoleteOK, JobFacts
<1> HIDE DEF old
<1>8. /\ JobsOK(jobs') /\ Len(jobs') = Len(jobs) + 1 /\ DOMAIN jobs' = 1 .. Len(jobs) + 1
      /\ \A g \in DOMAIN jobs : jobs'[g] = old[g]
      /\ jobs'[Len(jobs) + 1] = j
  <2>1. /\ JobsOK(jobs') /\ Len(jobs') = Len(jobs) + 1
        /\ \A g \in DOMAIN jobs : jobs'[g] = old[g]
        /\ jobs'[Len(jobs) + 1] = j
    BY <1>1, <1>4, <1>7, AppendJobOK
  <2>2. QED
    BY <2>1, JobFacts
<1>9. JobsMove(jobs, jobs')
  <2>1. \A g \in DOMAIN jobs : jobs[g].leaseEpoch \in Nat
    BY ConnectionFacts DEF Jobs
  <2>2. QED
    BY <1>7, <1>8, <2>1, ConnectionFacts, SMTT(20) DEF JobsMove, Open, OpenStatuses, ClosedStatuses
<1>10. JobsOK(jobs)' /\ (contacted \subseteq Leases)'
  BY <1>1, <1>9, ContactedKept
<1>11. connection'.pending # NoTarget => connection'.lifecycle = "verifying"
  <2>1. connection.lifecycle = "active" => connection.pending = NoTarget
    BY DEF DiscoveryInv, EnabledIsObserved
  <2>2. c.lifecycle \in {"verifying", "active", "degraded"}
    BY DEF Connections
  <2>3. QED
    BY <1>5, <2>1, <2>2
<1>12. Allocated'
  <2>1. Target(connection') = Target(c)
    BY <1>5 DEF Target
  <2>2. PICK n : n = Len(jobs) + 1
    OBVIOUS
  <2>3. /\ Open(jobs'[n])
        /\ connection'.lifecycle # "disabled" /\ Target(connection') = jobs'[n].target
        /\ connection'.controlEpoch = jobs'[n].controlEpoch
        /\ connection'.allocation = [controlEpoch |-> jobs'[n].controlEpoch,
                                     target |-> jobs'[n].target]
    BY <1>4, <1>5, <1>8, <2>1, <2>2 DEF Open, OpenStatuses, a
  <2>4. Eligible(n)'
    BY <1>8, <2>2, <2>3 DEF Eligible
  <2>5. ASSUME NEW g \in DOMAIN jobs', g # n PROVE ~Open(jobs'[g])
    BY <1>7, <1>8, <2>2, <2>5, ConnectionFacts
  <2>6. QED
    BY <1>3, <1>5, <1>8, <1>11, <2>2, <2>3, <2>4, <2>5 DEF Allocated
<1>13. CapabilitiesOK' /\ CapabilityMoves(capability[Tool], capability'[Tool])
  BY <1>1, CapabilitiesKept DEF historyVars
<1>14. EnabledIsObserved'
  <2>1. SUFFICES ASSUME connection'.lifecycle = "active" PROVE EnabledIsObserved'
    BY DEF EnabledIsObserved
  <2>2. connection.lifecycle = "active" /\ connection'.controlEpoch = connection.controlEpoch
    BY <1>5, <2>1
  <2>3. QED
    BY <1>1, <1>5, <2>2 DEF DiscoveryInv, EnabledIsObserved, Executable
<1>15. PinOK' /\ EpochsPinTarget'
  BY <1>1, <1>5, <1>6, <1>13, <1>14, PinStep DEF historyVars
<1>16. QED
  BY <1>1, <1>6, <1>9, <1>10, <1>12, <1>13, <1>14, <1>15 DEF DiscoveryInv

\* The verify, refresh and enable endpoints.
LEMMA EnqueueOK ==
    ASSUME DiscoveryInv, Enqueue \/ EnableConnection
    PROVE  DiscoveryInv' /\ JobsMove(jobs, jobs')
<1>1. CASE Enqueue
  BY <1>1, ConnectionFacts, EnqueueOnOK DEF Enqueue
<1>2. CASE EnableConnection
  <2> DEFINE c == Controlled(connection, "verifying")
  <2>1. c = [connection EXCEPT !.lifecycle = "verifying",
               !.controlEpoch = connection.controlEpoch + 1, !.allocation = NoAllocation]
    BY ConnectionFacts DEF Controlled, Connections
  <2>2. /\ c \in Connections /\ c.lifecycle = "verifying"
        /\ c.controlEpoch = connection.controlEpoch + 1
        /\ c.versions = connection.versions /\ c.pending = connection.pending
        /\ c.verified = connection.verified /\ c.snapshot = connection.snapshot
    BY <2>1, ConnectionFacts DEF Connections
  <2>3. EnqueueOn(c)
    BY <1>2 DEF EnableConnection
  <2> HIDE DEF c
  <2>4. QED
    BY <2>2, <2>3, EnqueueOnOK
<1>3. QED
  BY <1>1, <1>2

\* An open job changes, and stays open.
LEMMA OpenJobOK ==
    ASSUME DiscoveryInv, NEW g \in DOMAIN jobs, NEW j \in Jobs,
           Replaced(jobs, jobs', g, j), j.live => j.status = "leased",
           Open(jobs[g]), Open(j), jobs[g].leaseEpoch <= j.leaseEpoch,
           j.controlEpoch = jobs[g].controlEpoch, j.target = jobs[g].target,
           UNCHANGED <<member, connection, capability, contacted, historyVars>>
    PROVE  DiscoveryInv' /\ JobsMove(jobs, jobs')
<1>1. JobsOK(jobs)
  BY DEF DiscoveryInv
<1>2. /\ JobsOK(jobs') /\ Len(jobs') = Len(jobs) /\ DOMAIN jobs' = DOMAIN jobs /\ jobs'[g] = j
      /\ \A h \in DOMAIN jobs : h # g => jobs'[h] = jobs[h]
  BY <1>1, OneJobOK
<1>3. JobsMove(jobs, jobs')
  <2>1. \A h \in DOMAIN jobs : jobs[h].leaseEpoch \in Nat
    BY ConnectionFacts DEF Jobs
  <2>2. QED
    BY <1>2, <2>1 DEF JobsMove, Open, OpenStatuses, ClosedStatuses
<1>4. JobsOK(jobs)' /\ (contacted \subseteq Leases)'
  BY <1>3, ContactedKept
<1>5. Allocated'
  <2>1. \A h \in DOMAIN jobs : Eligible(h)' <=> Eligible(h)
    BY <1>2 DEF Eligible
  <2>2. \A h \in DOMAIN jobs : Open(jobs'[h]) <=> Open(jobs[h])
    BY <1>2
  <2>3. QED
    BY <1>2, <2>1, <2>2 DEF DiscoveryInv, Allocated
<1>6. CapabilitiesOK' /\ CapabilityMoves(capability[Tool], capability'[Tool])
  BY CapabilitiesKept DEF historyVars
<1>7. ConnectionOK' /\ EnabledIsObserved'
  BY DEF DiscoveryInv, ConnectionOK, EnabledIsObserved, Executable
<1>8. PinOK' /\ EpochsPinTarget'
  BY <1>6, <1>7, PinStep DEF historyVars
<1>9. QED
  BY <1>3, <1>4, <1>5, <1>6, <1>7, <1>8 DEF DiscoveryInv

\* A job is claimed, or its lease expires.
LEMMA JobStepOK ==
    ASSUME DiscoveryInv, NEW g \in DOMAIN jobs, Claim(g) \/ LeaseExpires(g)
    PROVE  DiscoveryInv' /\ JobsMove(jobs, jobs')
<1>1. UNCHANGED <<member, connection, capability, contacted, historyVars>>
  BY DEF Claim, LeaseExpires
<1>2. jobs[g] \in Jobs /\ JobsOK(jobs) /\ jobs[g].leaseEpoch \in Nat
      /\ jobs[g].leaseEpoch + 1 \in Nat
  BY ConnectionFacts DEF DiscoveryInv, Jobs
<1>3. CASE Claim(g)
  <2> DEFINE j == [jobs[g] EXCEPT !.status = "leased",
                                  !.leaseEpoch = jobs[g].leaseEpoch + 1, !.live = TRUE]
  <2>1. Replaced(jobs, jobs', g, j)
    BY <1>2, <1>3 DEF Claim, Jobs, Replaced
  <2>2. j \in Jobs
    BY <1>2 DEF Jobs, OpenStatuses
  <2>3. /\ j.status = "leased" /\ j.leaseEpoch = jobs[g].leaseEpoch + 1
        /\ j.controlEpoch = jobs[g].controlEpoch /\ j.target = jobs[g].target
    BY <1>2 DEF Jobs
  <2> HIDE DEF j
  <2>4. Open(jobs[g]) /\ Open(j)
    BY <1>3, <2>3 DEF Claim, Open, OpenStatuses
  <2>5. QED
    BY <1>1, <1>2, <2>1, <2>2, <2>3, <2>4, OpenJobOK
<1>4. CASE LeaseExpires(g)
  <2> DEFINE j == [jobs[g] EXCEPT !.live = FALSE]
  <2>1. Replaced(jobs, jobs', g, j)
    BY <1>2, <1>4 DEF LeaseExpires, Jobs, Replaced
  <2>2. jobs[g].status = "leased"
    BY <1>2, <1>4 DEF LeaseExpires, JobsOK
  <2>3. /\ j \in Jobs /\ j.live = FALSE /\ j.status = jobs[g].status
        /\ j.leaseEpoch = jobs[g].leaseEpoch
        /\ j.controlEpoch = jobs[g].controlEpoch /\ j.target = jobs[g].target
    BY <1>2 DEF Jobs
  <2> HIDE DEF j
  <2>4. Open(jobs[g]) /\ Open(j)
    BY <2>2, <2>3 DEF Open, OpenStatuses
  <2>5. QED
    BY <1>1, <1>2, <2>1, <2>2, <2>3, <2>4, OpenJobOK
<1>5. QED
  BY <1>3, <1>4

\* Contacting the endpoint, a change of role, an admission.
LEMMA QuietStepOK ==
    ASSUME DiscoveryInv,
           (\E l \in Leases : Contact(l)) \/ SetMembershipRole \/ Admit
    PROVE  DiscoveryInv' /\ UNCHANGED <<jobs, connection, capability, decision>>
<1>1. UNCHANGED <<jobs, connection, capability, decision>>
  BY DEF Contact, SetMembershipRole, Admit, registryVars, historyVars
<1>2. member' \in BOOLEAN /\ (contacted \subseteq Leases)'
  <2>1. Leases' = Leases
    BY <1>1 DEF Leases
  <2>2. QED
    BY <2>1 DEF DiscoveryInv, Contact, SetMembershipRole, Admit, registryVars
<1>3. ConnectionOK' /\ CapabilitiesOK' /\ EnabledIsObserved'
      /\ CapabilityMoves(capability[Tool], capability'[Tool])
  BY <1>1 DEF DiscoveryInv, ConnectionOK, CapabilitiesOK, EnabledIsObserved, Executable,
              CapabilityMoves
<1>4. JobsOK(jobs)' /\ Allocated'
  BY <1>1 DEF DiscoveryInv, JobsOK, Allocated, Eligible
<1>5. CASE pin' = pin
  <2>1. PinOK' /\ EpochsPinTarget'
    BY <1>1, <1>3, <1>5, PinStep
  <2>2. QED
    BY <1>1, <1>2, <1>3, <1>4, <2>1 DEF DiscoveryInv
<1>6. CASE Admit
  <2> DEFINE c == capability[Tool]
  <2>1. c \in Capabilities /\ connection \in Connections
    BY ToolAssumption DEF DiscoveryInv, CapabilitiesOK, ConnectionOK
  <2>2. /\ c.enabled \in Versions \cup {NoVersion} /\ c.statusEpoch \in Nat
        /\ connection.controlEpoch \in Nat
    BY <2>1 DEF Capabilities, Connections
  <2>3. /\ pin' = [version |-> c.enabled, controlEpoch |-> connection.controlEpoch,
                   statusEpoch |-> c.statusEpoch]
        /\ c.status = "enabled" /\ c.enabled # NoVersion /\ Executable(Tool)
    BY <1>6 DEF Admit, Executable
  <2>4. PinOK'
    BY <1>1, <2>2, <2>3 DEF PinOK
  <2>5. Executable(Tool)'
    BY <1>1, <2>3 DEF Executable
  <2>6. EpochsPinTarget'
    BY <1>1, <2>3, <2>5 DEF EpochsPinTarget
  <2>7. QED
    BY <1>1, <1>2, <1>3, <1>4, <2>4, <2>6 DEF DiscoveryInv
<1>7. QED
  BY <1>5, <1>6 DEF Contact, SetMembershipRole, historyVars

\* Publishing closes the outstanding job, which is the latest.
LEMMA CloseOK ==
    ASSUME DiscoveryInv, NEW l \in Leases, Held(l), Eligible(l.generation),
           NEW s \in {"succeeded", "failed"}, Close(l, s)
    PROVE  /\ JobsMove(jobs, jobs') /\ Len(jobs') = Len(jobs)
           /\ \A g \in DOMAIN jobs' : ~Open(jobs'[g])
           /\ jobs[Len(jobs)].status = "leased" /\ jobs'[Len(jobs)].status = s
<1>1. PICK g : g = l.generation
  OBVIOUS
<1> DEFINE j == [jobs[g] EXCEPT !.status = s, !.live = FALSE]
<1>2. g \in DOMAIN jobs /\ JobsOK(jobs) /\ g = Len(jobs) /\ jobs[g].status = "leased"
  BY <1>1, LeaseJob DEF DiscoveryInv, Eligible, Held
<1>3. jobs[g] \in Jobs /\ jobs[g].leaseEpoch \in Nat
  BY <1>2, ConnectionFacts DEF Jobs
<1>4. /\ Replaced(jobs, jobs', g, j)
      /\ j \in Jobs /\ j.live = FALSE /\ j.status = s /\ j.leaseEpoch = jobs[g].leaseEpoch
      /\ j.live => j.status = "leased"
  BY <1>1, <1>2, <1>3 DEF Close, Replaced, Jobs, ClosedStatuses
<1> HIDE DEF j
<1>5. /\ JobsOK(jobs') /\ Len(jobs') = Len(jobs) /\ DOMAIN jobs' = DOMAIN jobs /\ jobs'[g] = j
      /\ \A h \in DOMAIN jobs : h # g => jobs'[h] = jobs[h]
  <2>1. g \in DOMAIN jobs /\ JobsOK(jobs)
    BY <1>2
  <2>2. Replaced(jobs, jobs', g, j) /\ j \in Jobs /\ (j.live => j.status = "leased")
    BY <1>4
  <2>3. QED
    BY <2>1, <2>2, OneJobOK
<1>6. \A h \in DOMAIN jobs : h # g => ~Open(jobs[h])
  BY <1>2 DEF DiscoveryInv, Allocated
<1>7. JobsMove(jobs, jobs')
  <2>1. \A h \in DOMAIN jobs : jobs[h].leaseEpoch \in Nat
    BY ConnectionFacts DEF Jobs
  <2>2. QED
    BY <1>2, <1>4, <1>5, <2>1 DEF JobsMove, ClosedStatuses
<1>8. QED
  BY <1>2, <1>4, <1>5, <1>6, <1>7 DEF Open, OpenStatuses

\* publish_failure
LEMMA PublishFailureOK ==
    ASSUME DiscoveryInv, NEW l \in Leases, PublishFailure(l)
    PROVE  DiscoveryInv' /\ JobsMove(jobs, jobs') /\ connection'.snapshot = connection.snapshot
<1>1. /\ Held(l) /\ Eligible(l.generation) /\ Close(l, "failed")
      /\ connection' = [connection EXCEPT !.lifecycle = "degraded", !.allocation = NoAllocation]
      /\ UNCHANGED <<member, capability, contacted, historyVars>>
  BY DEF PublishFailure, Publishable
<1>2. JobsMove(jobs, jobs') /\ \A g \in DOMAIN jobs' : ~Open(jobs'[g])
  BY <1>1, CloseOK
<1>3. /\ connection' \in Connections
      /\ connection'.allocation = NoAllocation /\ connection'.lifecycle = "degraded"
      /\ connection'.controlEpoch = connection.controlEpoch
      /\ connection'.versions = connection.versions /\ connection'.pending = connection.pending
      /\ connection'.verified = connection.verified
      /\ connection'.snapshot = connection.snapshot
  BY <1>1, ConnectionFacts DEF Connections
<1>4. ConnectionOK' /\ EnabledIsObserved'
  BY <1>3 DEF DiscoveryInv, ConnectionOK, EnabledIsObserved
<1>5. JobsOK(jobs)' /\ (contacted \subseteq Leases)'
  BY <1>1, <1>2, ContactedKept
<1>6. Allocated'
  BY <1>2, <1>3, NothingAllocated DEF JobsMove
<1>7. CapabilitiesOK' /\ CapabilityMoves(capability[Tool], capability'[Tool])
  BY <1>1, CapabilitiesKept DEF historyVars
<1>8. PinOK' /\ EpochsPinTarget'
  BY <1>1, <1>3, <1>4, <1>7, PinStep DEF historyVars
<1>9. QED
  BY <1>1, <1>2, <1>3, <1>4, <1>5, <1>6, <1>7, <1>8 DEF DiscoveryInv

\* publish_success
LEMMA PublishSuccessOK ==
    ASSUME DiscoveryInv, NEW l \in Leases, NEW present \in SUBSET Tools,
           NEW content \in [present -> Metadata], PublishSuccess(l, present, content)
    PROVE  /\ DiscoveryInv' /\ JobsMove(jobs, jobs')
           /\ connection'.lifecycle = "active" /\ connection.lifecycle # "disabled"
           /\ connection'.controlEpoch = connection.controlEpoch
           /\ connection'.snapshot.controlEpoch = connection.controlEpoch
           /\ connection'.snapshot.target = Target(connection)
           /\ jobs[Len(jobs)].status = "leased" /\ jobs'[Len(jobs)].status = "succeeded"
           /\ \A t \in Tools : CapabilityMoves(capability[t], capability'[t])
<1> DEFINE version(t) == [tool |-> t, metadata |-> content[t], connection |-> Target(connection)]
           observed == {version(t) : t \in present}
           snap == [controlEpoch |-> connection.controlEpoch, target |-> Target(connection),
                    observed |-> observed]
<1>1. /\ Held(l) /\ Eligible(l.generation) /\ Close(l, "succeeded")
      /\ connection' = Published(connection, observed)
      /\ capability' = [t \in Tools |-> IF t \in present
                                        THEN RecordVersion(capability[t], version(t))
                                        ELSE MarkMissing(capability[t])]
      /\ UNCHANGED <<member, contacted, historyVars>>
  BY DEF PublishSuccess, Publishable
<1>2. \A t \in present : version(t) \in Versions /\ version(t).connection = Target(connection)
  BY ConnectionFacts DEF Versions
<1>3. observed \subseteq Versions /\ \A t \in present : version(t) \in observed
  BY <1>2
<1> HIDE DEF version, observed
<1>4. snap \in Snapshots /\ snap.controlEpoch = connection.controlEpoch
      /\ snap.target = Target(connection) /\ snap.observed = observed
  BY <1>3, ConnectionFacts DEF Snapshots
<1>5. /\ connection' \in Connections
      /\ connection'.allocation = NoAllocation /\ connection'.lifecycle = "active"
      /\ connection'.controlEpoch = connection.controlEpoch
      /\ connection'.versions = connection.versions /\ connection'.pending = NoTarget
      /\ connection'.verified = Target(connection) /\ connection'.snapshot = snap
  <2>1. connection' = [connection EXCEPT !.lifecycle = "active", !.pending = NoTarget,
          !.verified = Target(connection), !.allocation = NoAllocation, !.snapshot = snap]
    BY <1>1 DEF Published
  <2> HIDE DEF snap
  <2>2. NoTarget \in Nat
    BY DEF NoTarget
  <2>3. connection' \in Connections
    BY <1>4, <2>1, <2>2, ConnectionFacts DEF Connections
  <2>4. QED
    BY <2>1, <2>3, ConnectionFacts DEF Connections
<1> HIDE DEF snap
<1>6. ConnectionOK'
  BY <1>4, <1>5, ConnectionFacts DEF ConnectionOK, NoTarget
<1>7. /\ JobsMove(jobs, jobs') /\ \A g \in DOMAIN jobs' : ~Open(jobs'[g])
      /\ jobs[Len(jobs)].status = "leased" /\ jobs'[Len(jobs)].status = "succeeded"
  BY <1>1, CloseOK
<1>8. JobsOK(jobs)' /\ (contacted \subseteq Leases)'
  BY <1>1, <1>7, ContactedKept
<1>9. Allocated'
  BY <1>5, <1>7, NothingAllocated DEF JobsMove
<1>10. ASSUME NEW t \in Tools
       PROVE  /\ CapabilityOK(capability'[t], decision[t])
              /\ CapabilityMoves(capability[t], capability'[t])
              /\ capability'[t].status = "enabled" =>
                   t \in present /\ capability'[t].enabled = version(t)
  <2>1. CapabilityOK(capability[t], decision[t])
    BY DEF DiscoveryInv, CapabilitiesOK
  <2>2. CASE t \in present
    <3>1. capability'[t] = RecordVersion(capability[t], version(t))
      BY <1>1, <2>2
    <3>2. QED
      BY <1>2, <2>1, <2>2, <3>1, RecordVersionOK
  <2>3. CASE t \notin present
    <3>1. capability'[t] = MarkMissing(capability[t])
      BY <1>1, <2>3
    <3>2. QED
      BY <2>1, <2>3, <3>1, MarkMissingOK
  <2>4. QED
    BY <2>2, <2>3
<1>11. CapabilitiesOK'
  <2>1. capability' \in [Tools -> Capabilities]
    <3>1. \A t \in Tools : capability'[t] \in Capabilities
      BY <1>10 DEF CapabilityOK
    <3>2. QED
      BY <1>1, <3>1
  <2>2. decision' = decision
    BY <1>1 DEF historyVars
  <2>3. QED
    BY <1>10, <2>1, <2>2 DEF DiscoveryInv, CapabilitiesOK
<1>12. EnabledIsObserved'
  <2>1. ASSUME NEW t \in Tools, capability'[t].status = "enabled" PROVE Executable(t)'
    <3>1. /\ t \in present /\ capability'[t].enabled = version(t)
          /\ capability'[t].enabled # NoVersion /\ capability'[t].pending = NoVersion
      BY <1>10, <2>1 DEF CapabilityOK
    <3>2. QED
      BY <1>2, <1>3, <1>4, <1>5, <2>1, <3>1 DEF Executable
  <2>2. QED
    BY <1>4, <1>5, <2>1 DEF EnabledIsObserved
<1>13. PinOK' /\ EpochsPinTarget'
  BY <1>1, <1>5, <1>6, <1>10, <1>11, <1>12, ToolAssumption, PinStep DEF historyVars
<1>14. connection.lifecycle # "disabled"
  BY <1>1 DEF Eligible
<1>15. DiscoveryInv'
  BY <1>1, <1>6, <1>8, <1>9, <1>11, <1>12, <1>13 DEF DiscoveryInv
<1>16. QED
  BY <1>4, <1>5, <1>7, <1>10, <1>14, <1>15

\* Enabling or disabling a capability, after its review.
LEMMA ReviewOK ==
    ASSUME DiscoveryInv, NEW t \in Tools, EnableCapability(t) \/ DisableCapability(t)
    PROVE  /\ DiscoveryInv' /\ UNCHANGED <<member, connection, jobs>>
           /\ \A u \in Tools : u # t => capability'[u] = capability[u]
           /\ CapabilityMoves(capability[t], capability'[t])
           /\ capability'[t].statusEpoch = capability[t].statusEpoch + 1
           /\ capability'[t].status = "enabled" => connection.lifecycle = "active"
<1> DEFINE c == capability[t]
           d == capability'[t]
<1>1. UNCHANGED <<member, connection, jobs, contacted, pin>>
  BY DEF EnableCapability, DisableCapability
<1>2. /\ CapabilityOK(c, decision[t]) /\ c \in Capabilities /\ c.statusEpoch \in Nat
      /\ c.statusEpoch + 1 \in Nat
      /\ capability \in [Tools -> Capabilities]
      /\ decision \in [Tools -> Versions \cup {NoVersion}]
  BY DEF DiscoveryInv, CapabilitiesOK, CapabilityOK, Capabilities
<1>3. /\ CapabilityOK(d, decision'[t]) /\ CapabilityMoves(c, d)
      /\ d.statusEpoch = c.statusEpoch + 1
      /\ d.status = "enabled" => connection.lifecycle = "active" /\ Executable(t)'
      /\ capability' = [capability EXCEPT ![t] = d] /\ d \in Capabilities
      /\ decision' = [decision EXCEPT ![t] = decision'[t]]
  <2>1. CASE EnableCapability(t)
    <3> DEFINE v == DecisionVersion(c)
               e == [c EXCEPT !.enabled = v, !.pending = NoVersion, !.status = "enabled",
                              !.statusEpoch = c.statusEpoch + 1]
    <3>1. v # NoVersion /\ v \in Versions
      BY <1>2, <2>1 DEF EnableCapability, DecisionVersion, Capabilities
    <3>2. capability' = [capability EXCEPT ![t] = e] /\ decision' = [decision EXCEPT ![t] = v]
      BY <1>2, <2>1 DEF EnableCapability, Changed, Capabilities
    <3> HIDE DEF v
    <3>3. /\ e \in Capabilities /\ e.enabled = v /\ e.pending = NoVersion
          /\ e.status = "enabled" /\ e.statusEpoch = c.statusEpoch + 1
      BY <1>2, <3>1 DEF Capabilities
    <3> HIDE DEF e
    <3>4. d = e /\ decision'[t] = v
      BY <1>2, <3>2
    <3>5. Executable(t)' /\ connection.lifecycle = "active" /\ c.status # "enabled"
      BY <1>1, <2>1, <3>1, <3>3, <3>4 DEF EnableCapability, Executable, v
    <3>6. CapabilityOK(e, v) /\ CapabilityMoves(c, e)
      BY <3>1, <3>3, <3>5 DEF CapabilityOK, CapabilityMoves
    <3>7. QED
      BY <3>2, <3>3, <3>4, <3>5, <3>6
  <2>2. CASE DisableCapability(t)
    <3> DEFINE e == [c EXCEPT !.status = "disabled", !.statusEpoch = c.statusEpoch + 1]
    <3>1. /\ capability' = [capability EXCEPT ![t] = e]
          /\ decision' = [decision EXCEPT ![t] = NoVersion]
      BY <1>2, <2>2 DEF DisableCapability, Changed, Capabilities
    <3>2. /\ e \in Capabilities /\ e.enabled = c.enabled /\ e.pending = c.pending
          /\ e.status = "disabled" /\ e.statusEpoch = c.statusEpoch + 1
      BY <1>2 DEF Capabilities
    <3> HIDE DEF e
    <3>3. d = e /\ decision'[t] = NoVersion
      BY <1>2, <3>1
    <3>4. CapabilityOK(e, NoVersion) /\ CapabilityMoves(c, e)
      BY <1>2, <3>2 DEF CapabilityOK, CapabilityMoves
    <3>5. QED
      BY <3>1, <3>2, <3>3, <3>4
  <2>3. QED
    BY <2>1, <2>2
<1> HIDE DEF d
<1>4. \A u \in Tools : u # t => capability'[u] = capability[u] /\ decision'[u] = decision[u]
  BY <1>2, <1>3
<1>5. capability' \in [Tools -> Capabilities] /\ decision' \in [Tools -> Versions \cup {NoVersion}]
  <2>1. decision'[t] \in Versions \cup {NoVersion}
    BY <1>3 DEF CapabilityOK
  <2>2. QED
    BY <1>2, <1>3, <2>1
<1>6. CapabilitiesOK'
  <2>1. ASSUME NEW u \in Tools PROVE CapabilityOK(capability'[u], decision'[u])
    BY <1>3, <1>4 DEF DiscoveryInv, CapabilitiesOK, d
  <2>2. QED
    BY <1>5, <2>1 DEF CapabilitiesOK
<1>7. EnabledIsObserved'
  <2>1. ASSUME connection.lifecycle = "active", NEW u \in Tools,
               capability'[u].status = "enabled"
        PROVE  Executable(u)'
    <3>1. CASE u = t
      BY <1>3, <2>1, <3>1 DEF d
    <3>2. CASE u # t
      BY <1>1, <1>4, <2>1, <3>2 DEF DiscoveryInv, EnabledIsObserved, Executable
    <3>3. QED
      BY <3>1, <3>2
  <2>2. QED
    BY <1>1, <2>1 DEF DiscoveryInv, EnabledIsObserved
<1>8. ConnectionOK' /\ JobsOK(jobs)' /\ Allocated' /\ (contacted \subseteq Leases)'
  BY <1>1 DEF DiscoveryInv, ConnectionOK, JobsOK, Allocated, Eligible, Leases
<1>9. CapabilityMoves(capability[Tool], capability'[Tool])
  BY <1>3, <1>4, ToolAssumption DEF CapabilityMoves, d
<1>10. PinOK' /\ EpochsPinTarget'
  BY <1>1, <1>6, <1>7, <1>8, <1>9, PinStep
<1>11. QED
  BY <1>1, <1>3, <1>4, <1>6, <1>7, <1>8, <1>10 DEF DiscoveryInv, d
-----------------------------------------------------------------------------
(* Every step. *)

\* What a control operation or an enqueued refresh does to the connection: a new control
\* epoch for a change, none for a refresh, and never a new snapshot.
LEMMA ConnectionShown ==
    ASSUME DiscoveryInv, ConnectionStep
    PROVE  /\ connection'.snapshot = connection.snapshot /\ UNCHANGED <<member, capability>>
           /\ \/ /\ connection'.controlEpoch = connection.controlEpoch + 1
                 /\ connection'.lifecycle \in {"disabled", "verifying"}
                 /\ connection'.lifecycle = "disabled" => connection.lifecycle # "disabled"
              \/ /\ connection'.controlEpoch = connection.controlEpoch
                 /\ \/ connection'.lifecycle = connection.lifecycle
                    \/ connection.lifecycle = "degraded" /\ connection'.lifecycle = "verifying"
<1>1. CASE AppendVersion
  BY <1>1, ConnectionFacts DEF AppendVersion, Controlled, Connections
<1>2. CASE DisableConnection
  BY <1>2, ConnectionFacts DEF DisableConnection, Controlled, Connections
<1>3. CASE EnableConnection
  <2>1. connection' = Allocate(Controlled(connection, "verifying")) /\ UNCHANGED <<member, capability>>
    BY <1>3 DEF EnableConnection, EnqueueOn
  <2>2. QED
    BY <2>1, ConnectionFacts DEF Allocate, Controlled, Connections
<1>4. CASE Enqueue
  <2>1. connection' = Allocate(connection) /\ UNCHANGED <<member, capability>>
    BY <1>4 DEF Enqueue, EnqueueOn
  <2>2. QED
    BY <2>1, ConnectionFacts DEF Allocate, Connections
<1>5. QED
  BY <1>1, <1>2, <1>3, <1>4 DEF ConnectionStep

\* What a step may do to the jobs and to the snapshot.
SnapshotStep ==
    /\ JobsMove(jobs, jobs')
    /\ connection'.snapshot # connection.snapshot =>
            /\ jobs[Len(jobs)].status = "leased" /\ jobs'[Len(jobs)].status = "succeeded"
            /\ connection.lifecycle # "disabled"
            /\ connection.snapshot.controlEpoch <= connection'.snapshot.controlEpoch
            /\ connection'.snapshot.target = Target(connection)

\* A step that leaves the jobs alone moves them forward.
LEMMA JobsStay ==
    ASSUME DiscoveryInv, UNCHANGED jobs
    PROVE  JobsMove(jobs, jobs')
<1>1. \A h \in DOMAIN jobs : jobs[h].leaseEpoch \in Nat
  BY ConnectionFacts DEF Jobs
<1>2. QED
  BY <1>1 DEF JobsMove, DiscoveryInv

\* Each operation of the registry, and stuttering, preserves the invariant and moves jobs
\* and snapshot only as publication may.
LEMMA DiscoveryStepOK ==
    ASSUME DiscoveryInv, [DiscoveryNext]_discoveryVars
    PROVE  DiscoveryInv' /\ SnapshotStep
<1>1. CASE ConnectionStep
  <2>1. DiscoveryInv' /\ JobsMove(jobs, jobs')
    BY <1>1, ControlOK, EnqueueOK DEF ConnectionStep
  <2>2. QED
    BY <1>1, <2>1, ConnectionShown DEF SnapshotStep
<1>2. CASE \E g \in DOMAIN jobs : Claim(g) \/ LeaseExpires(g)
  <2>1. PICK g \in DOMAIN jobs : Claim(g) \/ LeaseExpires(g)
    BY <1>2
  <2>2. connection' = connection
    BY <2>1 DEF Claim, LeaseExpires
  <2>3. QED
    BY <2>1, <2>2, JobStepOK DEF SnapshotStep
<1>3. CASE (\E l \in Leases : Contact(l)) \/ SetMembershipRole \/ Admit
  <2>1. DiscoveryInv' /\ UNCHANGED <<jobs, connection, capability, decision>>
    BY <1>3, QuietStepOK
  <2>2. QED
    BY <2>1, JobsStay DEF SnapshotStep
<1>4. CASE \E l \in Leases : PublishFailure(l)
  BY <1>4, PublishFailureOK DEF SnapshotStep
<1>5. CASE \E l \in Leases : \E present \in SUBSET Tools : \E content \in [present -> Metadata] :
             PublishSuccess(l, present, content)
  <2>1. PICK l \in Leases, present \in SUBSET Tools :
           \E content \in [present -> Metadata] : PublishSuccess(l, present, content)
    BY <1>5
  <2>2. PICK content \in [present -> Metadata] : PublishSuccess(l, present, content)
    BY <2>1
  <2>3. connection.snapshot.controlEpoch <= connection.controlEpoch
    BY DEF DiscoveryInv, ConnectionOK
  <2>4. QED
    BY <2>2, <2>3, PublishSuccessOK DEF SnapshotStep
<1>6. CASE \E t \in Tools : EnableCapability(t) \/ DisableCapability(t)
  <2>1. DiscoveryInv' /\ UNCHANGED <<connection, jobs>>
    BY <1>6, ReviewOK
  <2>2. QED
    BY <2>1, JobsStay DEF SnapshotStep
<1>7. CASE UNCHANGED discoveryVars
  <2>1. UNCHANGED <<member, connection, capability, jobs, contacted, decision, pin>>
    BY <1>7 DEF discoveryVars, registryVars, historyVars
  <2>2. ConnectionOK' /\ CapabilitiesOK' /\ JobsOK(jobs)' /\ (contacted \subseteq Leases)'
    BY <2>1 DEF DiscoveryInv, ConnectionOK, CapabilitiesOK, JobsOK, Leases
  <2>3. Allocated' /\ EnabledIsObserved' /\ PinOK' /\ EpochsPinTarget'
    BY <2>1 DEF DiscoveryInv, Allocated, Eligible, EnabledIsObserved, PinOK, EpochsPinTarget,
                Executable
  <2>4. QED
    BY <2>1, <2>2, <2>3, JobsStay DEF DiscoveryInv, SnapshotStep
<1>8. QED
  BY <1>1, <1>2, <1>3, <1>4, <1>5, <1>6, <1>7 DEF DiscoveryNext, RefreshStep

\* A connection as ConnectionService.create leaves it.
LEMMA DiscoveryInitOK ==
    DiscoveryInit => DiscoveryInv
<1> SUFFICES ASSUME DiscoveryInit PROVE DiscoveryInv
  OBVIOUS
<1>1. ConnectionOK
  <2>1. connection.snapshot \in Snapshots /\ connection.snapshot.controlEpoch = 0
    BY DEF DiscoveryInit, Snapshots, NoTarget
  <2>2. connection \in Connections
    BY <2>1 DEF DiscoveryInit, Connections, NoTarget
  <2>3. QED
    BY <2>1, <2>2 DEF DiscoveryInit, ConnectionOK, NoTarget
<1>2. CapabilitiesOK
  BY DEF DiscoveryInit, CapabilitiesOK, CapabilityOK, Capabilities
<1>3. JobsOK(jobs) /\ DOMAIN jobs = {}
  BY DEF DiscoveryInit, JobsOK
<1>4. contacted \subseteq Leases /\ Allocated
  BY <1>3 DEF DiscoveryInit, Allocated
<1>5. EnabledIsObserved /\ PinOK /\ EpochsPinTarget
  BY DEF DiscoveryInit, EnabledIsObserved, PinOK, EpochsPinTarget
<1>6. QED
  BY <1>1, <1>2, <1>3, <1>4, <1>5 DEF DiscoveryInit, DiscoveryInv
-----------------------------------------------------------------------------
(* The theorems. *)

\* The inductive invariant holds in every reachable state.
THEOREM DiscoveryInvariant == DiscoverySpec => []DiscoveryInv
<1>1. DiscoveryInv /\ [DiscoveryNext]_discoveryVars => DiscoveryInv'
  BY DiscoveryStepOK
<1>2. QED
  BY <1>1, DiscoveryInitOK, PTL DEF DiscoverySpec

\* However enqueues, control operations, claims and publications interleave, the open job is
\* the one the connection allocated, and promote_pending never refuses it.
THEOREM Outstanding == DiscoverySpec => []AllocationMatchesJob
<1>1. DiscoveryInv => AllocationMatchesJob
  <2> SUFFICES ASSUME DiscoveryInv PROVE AllocationMatchesJob
    OBVIOUS
  <2>1. DiscoveryTypeOK
    BY DEF DiscoveryInv, DiscoveryTypeOK, ConnectionOK, CapabilitiesOK, CapabilityOK, JobsOK
  <2>2. QED
    BY <2>1 DEF DiscoveryInv, Allocated, AllocationMatchesJob
<1>2. QED
  BY <1>1, DiscoveryInvariant, PTL

\* A connection is active, and a tool on it enabled, only by what a refresh of the present
\* configuration observed.
THEOREM Observed == DiscoverySpec => []EnabledIsObserved
<1>1. DiscoveryInv => EnabledIsObserved
  BY DEF DiscoveryInv
<1>2. QED
  BY <1>1, DiscoveryInvariant, PTL

\* Comparing the two epochs of a run with the current ones detects every change of its
\* target, as _claim_target_is_current and _fence_attempt assume.
THEOREM Pinned == DiscoverySpec => []EpochsPinTarget
<1>1. DiscoveryInv => EpochsPinTarget
  BY DEF DiscoveryInv
<1>2. QED
  BY <1>1, DiscoveryInvariant, PTL

\* No refresh overrides an operator: what is executable was enabled by the last decision.
THEOREM Decided == DiscoverySpec => []OperatorDecides
<1>1. DiscoveryInv => OperatorDecides
  BY DEF DiscoveryInv, CapabilitiesOK, CapabilityOK, OperatorDecides, Executable
<1>2. QED
  BY <1>1, DiscoveryInvariant, PTL

\* Settled jobs keep their outcome, and only the success of the latest job publishes.
THEOREM Fresh == DiscoverySpec => SnapshotIsFresh
<1>1. DiscoveryInv /\ [DiscoveryNext]_discoveryVars =>
        [/\ \A g \in DOMAIN jobs :
              /\ g \in DOMAIN jobs'
              /\ jobs[g].status \in ClosedStatuses => jobs'[g] = jobs[g]
         /\ connection'.snapshot # connection.snapshot =>
              /\ jobs[Len(jobs)].status = "leased" /\ jobs'[Len(jobs)].status = "succeeded"
              /\ connection.lifecycle # "disabled"
              /\ connection.snapshot.controlEpoch <= connection'.snapshot.controlEpoch
              /\ connection'.snapshot.target = Target(connection)]_discoveryVars
  BY DiscoveryStepOK DEF SnapshotStep, JobsMove
<1>2. QED
  BY <1>1, DiscoveryInvariant, PTL DEF DiscoverySpec, SnapshotIsFresh
-----------------------------------------------------------------------------
(* The refinement. *)

\* What the ledger sees of the tool and of its connection.
shownCapability == [enabled |-> capability[Tool].status = "enabled",
                    statusEpoch |-> capability[Tool].statusEpoch]
shownConnection == [lifecycle |-> connection.lifecycle, controlEpoch |-> connection.controlEpoch]

\* A capability that moves changes its shown status together with its status epoch.
LEMMA StatusShown ==
    ASSUME CapabilityMoves(capability[Tool], capability'[Tool])
    PROVE  RunTarget!StatusChanges \/ shownCapability' = shownCapability
<1>1. CASE capability'[Tool] = capability[Tool]
  BY <1>1 DEF shownCapability
<1>2. CASE /\ capability'[Tool].statusEpoch = capability[Tool].statusEpoch + 1
           /\ capability'[Tool].status = "enabled" => capability[Tool].status # "enabled"
  <2>1. PICK e \in BOOLEAN : e = (capability'[Tool].status = "enabled")
    OBVIOUS
  <2>2. e => ~shownCapability.enabled
    BY <1>2, <2>1 DEF shownCapability
  <2>3. shownCapability' = [enabled |-> e, statusEpoch |-> shownCapability.statusEpoch + 1]
    BY <1>2, <2>1 DEF shownCapability
  <2>4. QED
    BY <2>2, <2>3 DEF RunTarget!StatusChanges, shownCapability
<1>3. QED
  BY <1>1, <1>2 DEF CapabilityMoves

\* Each step of the registry is a step of the target, or shows nothing.
LEMMA TargetStep ==
    ASSUME DiscoveryInv, [DiscoveryNext]_discoveryVars
    PROVE  RunTarget!TargetNext \/ UNCHANGED <<member, shownCapability, shownConnection>>
<1>1. CASE ConnectionStep
  <2>1. shownCapability' = shownCapability /\ member' = member
    BY <1>1, ConnectionShown DEF shownCapability
  <2>2. CASE /\ connection'.controlEpoch = connection.controlEpoch + 1
             /\ connection'.lifecycle \in {"disabled", "verifying"}
             /\ connection'.lifecycle = "disabled" => connection.lifecycle # "disabled"
    <3>1. RunTarget!ChangeConnection
      BY <2>1, <2>2 DEF RunTarget!ChangeConnection, shownCapability
    <3>2. QED
      BY <3>1 DEF RunTarget!TargetNext
  <2>3. CASE /\ connection'.controlEpoch = connection.controlEpoch
             /\ connection'.lifecycle = connection.lifecycle
    BY <2>1, <2>3 DEF shownConnection
  <2>4. CASE /\ connection'.controlEpoch = connection.controlEpoch
             /\ connection.lifecycle = "degraded" /\ connection'.lifecycle = "verifying"
    <3>1. RunTarget!AllocateRefresh
      BY <2>1, <2>4 DEF RunTarget!AllocateRefresh, shownCapability
    <3>2. QED
      BY <3>1 DEF RunTarget!TargetNext
  <2>5. QED
    BY <1>1, <2>2, <2>3, <2>4, ConnectionShown
<1>2. CASE \/ \E g \in DOMAIN jobs : Claim(g) \/ LeaseExpires(g)
           \/ \E l \in Leases : Contact(l)
           \/ Admit \/ UNCHANGED discoveryVars
  <2>1. UNCHANGED <<member, capability, connection>>
    BY <1>2 DEF Claim, LeaseExpires, Contact, Admit, discoveryVars, registryVars
  <2>2. QED
    BY <2>1 DEF shownCapability, shownConnection
<1>3. CASE SetMembershipRole
  <2>1. member' = ~member /\ UNCHANGED <<capability, connection>>
    BY <1>3 DEF SetMembershipRole, registryVars
  <2>2. RunTarget!SetMembershipRole
    BY <2>1 DEF RunTarget!SetMembershipRole
  <2>3. QED
    BY <2>2 DEF RunTarget!TargetNext
<1>4. CASE \E l \in Leases : PublishFailure(l)
  <2>1. PICK l \in Leases : PublishFailure(l)
    BY <1>4
  <2>2. /\ UNCHANGED <<member, capability>> /\ connection.lifecycle # "disabled"
        /\ connection' = [connection EXCEPT !.lifecycle = "degraded", !.allocation = NoAllocation]
    BY <2>1 DEF PublishFailure, Publishable, Eligible
  <2>3. /\ connection'.lifecycle = "degraded"
        /\ connection'.controlEpoch = connection.controlEpoch
    BY <2>2, ConnectionFacts DEF Connections
  <2>4. RunTarget!PublishRefresh
    BY <2>2, <2>3 DEF RunTarget!PublishRefresh
  <2>5. QED
    BY <2>4 DEF RunTarget!TargetNext
<1>5. CASE \E l \in Leases : \E present \in SUBSET Tools : \E content \in [present -> Metadata] :
             PublishSuccess(l, present, content)
  <2>1. PICK l \in Leases, present \in SUBSET Tools :
           \E content \in [present -> Metadata] : PublishSuccess(l, present, content)
    BY <1>5
  <2>2. PICK content \in [present -> Metadata] : PublishSuccess(l, present, content)
    BY <2>1
  <2>3. /\ connection'.lifecycle = "active" /\ connection.lifecycle # "disabled"
        /\ connection'.controlEpoch = connection.controlEpoch
        /\ CapabilityMoves(capability[Tool], capability'[Tool])
    BY <2>2, PublishSuccessOK, ToolAssumption
  <2>4. member' = member
    BY <2>2 DEF PublishSuccess
  <2>5. RunTarget!PublishRefresh
    BY <2>3, <2>4, StatusShown DEF RunTarget!PublishRefresh, shownCapability
  <2>6. QED
    BY <2>5 DEF RunTarget!TargetNext
<1>6. CASE \E t \in Tools : EnableCapability(t) \/ DisableCapability(t)
  <2>1. PICK t \in Tools : EnableCapability(t) \/ DisableCapability(t)
    BY <1>6
  <2>2. /\ UNCHANGED <<member, connection>>
        /\ \A u \in Tools : u # t => capability'[u] = capability[u]
        /\ CapabilityMoves(capability[t], capability'[t])
        /\ capability'[t].status = "enabled" => connection.lifecycle = "active"
    BY <2>1, ReviewOK
  <2>3. CASE t # Tool
    BY <2>2, <2>3, ToolAssumption DEF shownCapability, shownConnection
  <2>4. CASE t = Tool
    <3>1. RunTarget!StatusChanges \/ shownCapability' = shownCapability
      BY <2>2, <2>4, StatusShown
    <3>2. CASE RunTarget!StatusChanges
      <4>1. RunTarget!ChangeCapability
        BY <2>2, <2>4, <3>2 DEF RunTarget!ChangeCapability
      <4>2. QED
        BY <4>1 DEF RunTarget!TargetNext
    <3>3. CASE shownCapability' = shownCapability
      BY <2>2, <3>3 DEF shownConnection
    <3>4. QED
      BY <3>1, <3>2, <3>3
  <2>5. QED
    BY <2>3, <2>4
<1>7. QED
  BY <1>1, <1>2, <1>3, <1>4, <1>5, <1>6 DEF DiscoveryNext, RefreshStep

\* The registry implements the target on which the fences of the execution ledger rely.
THEOREM TargetRefinement == DiscoverySpec => ImplementsTarget
<1>1. DiscoveryInv => RunTarget!TargetTypeOK
  <2> SUFFICES ASSUME DiscoveryInv PROVE RunTarget!TargetTypeOK
    OBVIOUS
  <2>1. member \in BOOLEAN /\ capability[Tool] \in Capabilities
    BY ToolAssumption DEF DiscoveryInv, CapabilitiesOK
  <2>2. capability[Tool].statusEpoch \in Nat /\ (capability[Tool].status = "enabled") \in BOOLEAN
    BY <2>1 DEF Capabilities
  <2>3. QED
    BY <2>1, <2>2, ConnectionFacts DEF RunTarget!TargetTypeOK, RunTarget!Lifecycles
<1>2. DiscoveryInit => RunTarget!TargetTypeOK
  BY <1>1, DiscoveryInitOK
<1>3. DiscoveryInv /\ [DiscoveryNext]_discoveryVars =>
        [RunTarget!TargetNext]_<<member, shownCapability, shownConnection>>
  BY TargetStep
<1>4. QED
  BY <1>2, <1>3, DiscoveryInvariant, PTL
     DEF DiscoverySpec, ImplementsTarget, RunTarget!TargetSpec, shownCapability, shownConnection
=============================================================================
