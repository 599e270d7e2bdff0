---------------------------- MODULE DaemonProofs ----------------------------
(***************************************************************************)
(* The inductive invariants of the local daemon and of what it serves: its *)
(* operations, relays, receipts, snapshots and skills, for any number of   *)
(* plans, keys, reloads and restarts.  DomainsProofs takes the theorems    *)
(* from them.                                                              *)
(***************************************************************************)
EXTENDS ControlPlane, Relay, LocalRelay, Onboarding, PersonalContext, Snapshots, Skills,
        PackageResolution, ResolverBackends, RemoteResolution,
        FiniteSetTheorems, SequenceTheorems, TLAPS

-----------------------------------------------------------------------------
(* ControlPlane: requests, operations and jobs. *)

\* An operation has one job.
OneJobEach == \A i, j \in jobs : i.op = j.op => i = j

ControlInv ==
    /\ ControlTypeOK /\ generation \in 0 .. MaxReloads /\ OneJobEach
    /\ OperationsTruthful /\ RunningHasJob /\ KeyMeansOne

\* Nothing is asked for at first.
LEMMA ControlStart == ASSUME ControlInit PROVE ControlInv
BY PlanShapes DEF ControlInit, ControlInv, ControlTypeOK, OneJobEach,
   OperationsTruthful, RunningHasJob, KeyMeansOne

\* The parts of an operation and its run.
LEMMA OperationParts ==
    /\ \A o \in OpIds : RunOf(o) \in RunIds /\ o[3] \in Keys /\ o # Free
    /\ \A p \in Plans, c \in Confirmations, k \in Keys :
          <<p, c, k>> \in OpIds /\ <<p, c, k>>[3] = k
BY DEF OpIds, RunIds, RunOf, Free

\* Taking a job away with the status of its operation keeps the two together.
LEMMA JobEnds ==
    ASSUME ControlInv, NEW j \in jobs, NEW s \in {"succeeded", "failed"},
           jobs' = jobs \ {j}, operations' = [operations EXCEPT ![j.op] = s],
           UNCHANGED keys
    PROVE  /\ operations' \in [OpIds -> {"none", "running", "succeeded", "failed"}]
           /\ OneJobEach' /\ RunningHasJob' /\ KeyMeansOne'
<1>1. j.op \in OpIds
  BY DEF ControlInv, ControlTypeOK
<1>2. operations[j.op] = "running"
  BY <1>1 DEF ControlInv, RunningHasJob
<1>3. QED
  BY <1>1, <1>2 DEF ControlInv, ControlTypeOK, OneJobEach, RunningHasJob, KeyMeansOne

\* A job that goes on stays the only one of its operation.
LEMMA JobMoves ==
    ASSUME ControlInv, NEW j \in jobs, NEW n, n.op = j.op,
           jobs' = (jobs \ {j}) \cup {n}, UNCHANGED <<keys, operations>>
    PROVE  OneJobEach' /\ RunningHasJob' /\ KeyMeansOne'
BY DEF ControlInv, OneJobEach, RunningHasJob, KeyMeansOne

\* Every step keeps keys, operations, jobs and receipts in agreement.
LEMMA ControlStep ==
    ASSUME ControlInv, [ControlNext]_controlVars
    PROVE  ControlInv'
<1> DEFINE Jobs == [op : OpIds, gen : 0 .. MaxReloads,
                    pc : {"reserved", "queued", "applying", "recovering"}]
<1>t. /\ ControlTypeOK /\ generation \in 0 .. MaxReloads /\ jobs \subseteq Jobs
      /\ MaxReloads \in Nat
  BY PlanShapes DEF ControlInv, ControlTypeOK
<1>o. \A j \in jobs : j.op \in OpIds /\ RunOf(j.op) \in RunIds
  BY <1>t, OperationParts
<1>1. ASSUME NEW p \in Plans, RegisterPlan(p) \/ AuthorityMoves(p) PROVE ControlInv'
  BY <1>1 DEF RegisterPlan, AuthorityMoves, ControlInv, ControlTypeOK, OneJobEach,
     OperationsTruthful, RunningHasJob, KeyMeansOne
<1>2. ASSUME NEW p \in Plans, NEW c \in Confirmations, NEW k \in Keys,
             NEW consent \in BOOLEAN, ReserveApply(p, c, k, consent)
      PROVE  ControlInv'
  <2> DEFINE o == <<p, c, k>>
             n == [op |-> o, pc |-> "reserved", gen |-> generation]
  <2>1. o \in OpIds /\ o[3] = k /\ o # Free
    BY OperationParts
  <2>2. /\ keys[k] = Free /\ keys' = [keys EXCEPT ![k] = o]
        /\ operations' = [operations EXCEPT ![o] = "running"]
        /\ jobs' = jobs \cup {n} /\ UNCHANGED <<planned, current, generation, runs>>
    BY <1>2 DEF ReserveApply, Unbound
  <2>3. \A q \in OpIds : q[3] = k => operations[q] = "none"
    BY <2>2, OperationParts DEF ControlInv, KeyMeansOne
  <2>4. ~ \E j \in jobs : j.op = o
    BY <2>1, <2>3 DEF ControlInv, RunningHasJob
  <2>5. n \in Jobs /\ n.op = o
    BY <1>t, <2>1
  <2>6. ControlTypeOK'
    BY <2>1, <2>2, <2>5, <1>t DEF ControlTypeOK
  <2>7. OneJobEach' /\ RunningHasJob'
    <3>1. OneJobEach'
      BY <2>2, <2>4, <2>5 DEF ControlInv, OneJobEach
    <3>2. ASSUME NEW q \in OpIds PROVE (operations'[q] = "running") <=> \E j \in jobs' : j.op = q
      <4>1. CASE q = o
        BY <1>t, <2>1, <2>2, <2>5, <4>1 DEF ControlTypeOK
      <4>2. CASE q # o
        <5>1. operations'[q] = operations[q]
          BY <1>t, <2>1, <2>2, <4>2 DEF ControlTypeOK
        <5>2. (\E j \in jobs' : j.op = q) <=> \E j \in jobs : j.op = q
          BY <2>2, <2>5, <4>2
        <5>3. QED
          BY <5>1, <5>2 DEF ControlInv, RunningHasJob
      <4>3. QED
        BY <4>1, <4>2
    <3>3. QED
      BY <3>1, <3>2 DEF RunningHasJob
  <2>8. KeyMeansOne'
    <3>1. SUFFICES ASSUME NEW q \in OpIds, operations'[q] # "none"
                   PROVE  keys'[q[3]] = q
      BY DEF KeyMeansOne
    <3>2. CASE q = o
      BY <1>t, <2>1, <2>2, <3>2 DEF ControlTypeOK
    <3>3. CASE q # o
      <4>1. operations[q] # "none"
        BY <1>t, <2>1, <2>2, <3>1, <3>3 DEF ControlTypeOK
      <4>2. q[3] # k /\ q[3] \in Keys /\ keys[q[3]] = q
        BY <2>3, <4>1, OperationParts DEF ControlInv, KeyMeansOne
      <4>3. QED
        BY <1>t, <2>2, <4>2 DEF ControlTypeOK
    <3>4. QED
      BY <3>2, <3>3
  <2>9. OperationsTruthful'
    BY <1>t, <2>1, <2>2 DEF ControlInv, ControlTypeOK, OperationsTruthful, RunOf
  <2>10. QED
    BY <1>t, <2>2, <2>6, <2>7, <2>8, <2>9 DEF ControlInv
<1>3. ASSUME NEW j \in jobs, BeginJob(j) PROVE ControlInv'
  <2>1. CASE ~ Dispatched(j.op[1])
    <3>1. /\ operations' = [operations EXCEPT ![j.op] = "failed"]
          /\ jobs' = jobs \ {j} /\ UNCHANGED <<planned, current, keys, generation, runs>>
      BY <1>3, <2>1 DEF BeginJob
    <3>2. QED
      BY <1>t, <1>o, <2>1, <3>1, JobEnds DEF ControlInv, ControlTypeOK, OperationsTruthful, RunOf
  <2>2. CASE Dispatched(j.op[1])
    <3> DEFINE n == [j EXCEPT !.pc = "queued", !.gen = generation]
    <3>1. jobs' = (jobs \ {j}) \cup {n}
          /\ UNCHANGED <<planned, current, keys, generation, runs, operations>>
      BY <1>3, <2>2 DEF BeginJob
    <3>2. n \in Jobs /\ n.op = j.op
      BY <1>t
    <3>3. OneJobEach' /\ RunningHasJob' /\ KeyMeansOne'
      BY <3>1, <3>2, JobMoves
    <3>4. QED
      BY <1>t, <3>1, <3>2, <3>3 DEF ControlInv, ControlTypeOK, OperationsTruthful, RunOf
  <2>3. QED
    BY <2>1, <2>2
<1>4. ASSUME NEW j \in jobs, TakeLock(j) PROVE ControlInv'
  <2> DEFINE r == RunOf(j.op)
  <2>0. UNCHANGED <<planned, current, keys, generation>> /\ runs[r] \in Terminals \cup {"applying", "none"}
    BY <1>4 DEF TakeLock
  <2>1. CASE /\ runs[r] \in Terminals /\ jobs' = jobs \ {j} /\ UNCHANGED runs
             /\ operations' = [operations EXCEPT ![j.op] = Outcome(runs[r])]
    <3>1. /\ Outcome(runs[r]) \in {"succeeded", "failed"}
          /\ Outcome(runs[r]) = "succeeded" => runs[r] = "succeeded"
      BY DEF Outcome
    <3>2. OneJobEach' /\ RunningHasJob' /\ KeyMeansOne'
          /\ operations' \in [OpIds -> {"none", "running", "succeeded", "failed"}]
      BY <2>0, <2>1, <3>1, JobEnds
    <3>3. OperationsTruthful'
      BY <1>t, <1>o, <2>1, <3>1 DEF ControlInv, ControlTypeOK, OperationsTruthful, RunOf
    <3>4. QED
      BY <1>t, <2>0, <2>1, <3>2, <3>3 DEF ControlInv, ControlTypeOK
  <2>2. ASSUME NEW pc \in {"recovering", "applying"},
               jobs' = (jobs \ {j}) \cup {[j EXCEPT !.pc = pc]}, UNCHANGED operations,
               UNCHANGED runs \/ (runs[r] = "none" /\ runs' = [runs EXCEPT ![r] = "applying"])
        PROVE  ControlInv'
    <3> DEFINE n == [j EXCEPT !.pc = pc]
    <3>1. n \in Jobs /\ n.op = j.op
      BY <1>t
    <3>2. OneJobEach' /\ RunningHasJob' /\ KeyMeansOne'
      BY <2>0, <2>2, <3>1, JobMoves
    <3>3. OperationsTruthful' /\ runs' \in [RunIds -> {"none", "applying"} \cup Terminals]
      BY <1>t, <1>o, <2>2, OperationParts DEF ControlInv, ControlTypeOK, OperationsTruthful
    <3>4. QED
      BY <1>t, <2>0, <2>2, <3>1, <3>2, <3>3 DEF ControlInv, ControlTypeOK
  <2>3. QED
    BY <1>4, <2>1, <2>2 DEF TakeLock
<1>5. ASSUME NEW j \in jobs, NEW outcome \in Terminals, EndRun(j, outcome) PROVE ControlInv'
  <2> DEFINE r == RunOf(j.op)
  <2>1. PICK s \in {"succeeded", "failed"} :
          /\ operations' = [operations EXCEPT ![j.op] = s]
          /\ \/ s = "failed" /\ UNCHANGED runs
             \/ /\ runs[r] = "applying" /\ runs' = [runs EXCEPT ![r] = outcome]
                /\ s = "succeeded" => outcome = "succeeded"
    BY <1>5 DEF EndRun, Outcome
  <2>2. jobs' = jobs \ {j} /\ UNCHANGED <<planned, current, keys, generation>>
    BY <1>5 DEF EndRun
  <2>3. OneJobEach' /\ RunningHasJob' /\ KeyMeansOne'
        /\ operations' \in [OpIds -> {"none", "running", "succeeded", "failed"}]
    BY <2>1, <2>2, JobEnds
  <2>4. runs' \in [RunIds -> {"none", "applying"} \cup Terminals]
    BY <1>t, <1>o, <2>1 DEF ControlTypeOK
  <2>5. OperationsTruthful'
    <3>1. SUFFICES ASSUME NEW o \in OpIds, operations'[o] = "succeeded"
                   PROVE  runs'[RunOf(o)] = "succeeded"
      BY DEF OperationsTruthful, RunOf
    <3>2. RunOf(o) \in RunIds
      BY OperationParts
    <3>3. CASE o = j.op
      BY <1>t, <1>o, <2>1, <3>1, <3>3 DEF ControlTypeOK
    <3>4. CASE o # j.op
      BY <1>t, <1>o, <2>1, <3>1, <3>2, <3>4 DEF ControlInv, ControlTypeOK, OperationsTruthful
    <3>5. QED
      BY <3>3, <3>4
  <2>6. QED
    BY <1>t, <2>2, <2>3, <2>4, <2>5 DEF ControlInv, ControlTypeOK
<1>6. ASSUME NEW j \in jobs, RunBreaks(j) PROVE ControlInv'
  BY <1>t, <1>o, <1>6, JobEnds DEF RunBreaks, ControlInv, ControlTypeOK, OperationsTruthful, RunOf
<1>7. CASE Reload
  BY <1>t, <1>7 DEF Reload, ControlInv, ControlTypeOK, OneJobEach, OperationsTruthful,
     RunningHasJob, KeyMeansOne, RunOf
<1>8. CASE KillDaemon
  BY <1>t, <1>8 DEF KillDaemon, ControlInv, ControlTypeOK, OneJobEach, OperationsTruthful,
     RunningHasJob, KeyMeansOne, RunOf
<1>9. ASSUME NEW outcome \in [RunIds -> Terminals], RecoverPending(outcome) PROVE ControlInv'
  <2>1. runs' \in [RunIds -> {"none", "applying"} \cup Terminals]
    BY <1>t, <1>9 DEF RecoverPending, ControlTypeOK
  <2>2. OperationsTruthful'
    BY <1>9, OperationParts DEF RecoverPending, ControlInv, OperationsTruthful
  <2>3. QED
    BY <1>t, <1>9, <2>1, <2>2 DEF RecoverPending, ControlInv, ControlTypeOK, OneJobEach,
       RunningHasJob, KeyMeansOne
<1>10. CASE UNCHANGED controlVars
  BY <1>10 DEF controlVars, ControlInv, ControlTypeOK, OneJobEach, OperationsTruthful,
     RunningHasJob, KeyMeansOne, RunOf
<1>11. QED
  BY <1>1, <1>2, <1>3, <1>4, <1>5, <1>6, <1>7, <1>8, <1>9, <1>10 DEF ControlNext

\* A receipt that is terminal is not written again.
LEMMA ControlKeeps ==
    ASSUME ControlInv, [ControlNext]_controlVars
    PROVE  AppliedOnce
<1>1. SUFFICES ASSUME ControlNext, NEW r \in RunIds, runs[r] \in Terminals
               PROVE  runs'[r] = runs[r]
  BY DEF AppliedOnce
<1>2. runs \in [RunIds -> {"none", "applying"} \cup Terminals]
  BY DEF ControlInv, ControlTypeOK
<1>3. \/ runs' = runs
      \/ \E q \in RunIds : \E v : runs[q] \notin Terminals /\ runs' = [runs EXCEPT ![q] = v]
      \/ \E outcome : runs' = [q \in RunIds |-> IF runs[q] = "applying" THEN outcome[q] ELSE runs[q]]
  <2>1. \A j \in jobs : RunOf(j.op) \in RunIds
    BY OperationParts DEF ControlInv, ControlTypeOK
  <2>2. ASSUME NEW j \in jobs, BeginJob(j) \/ TakeLock(j) \/ RunBreaks(j)
        PROVE  \/ runs' = runs
               \/ \E q \in RunIds : \E v : runs[q] \notin Terminals /\ runs' = [runs EXCEPT ![q] = v]
    BY <2>1, <2>2 DEF BeginJob, TakeLock, RunBreaks, Terminals
  <2>3. ASSUME NEW j \in jobs, NEW outcome \in Terminals, EndRun(j, outcome)
        PROVE  \/ runs' = runs
               \/ \E q \in RunIds : \E v : runs[q] \notin Terminals /\ runs' = [runs EXCEPT ![q] = v]
    BY <2>1, <2>3 DEF EndRun, Terminals
  <2>4. QED
    BY <1>1, <2>2, <2>3 DEF ControlNext, RegisterPlan, AuthorityMoves, ReserveApply,
       Reload, KillDaemon, RecoverPending
<1>4. QED
  BY <1>1, <1>2, <1>3 DEF Terminals

-----------------------------------------------------------------------------
(* ControlPlane: the event history. *)

\* The history holds consecutive ids, and a client follows a daemon that was.
RingConsecutive ==
    /\ ring \in Seq(Nat) /\ Len(ring) <= Capacity
    /\ \A i \in 1 .. Len(ring) : ring[i] >= 1 /\ ring[i] = ring[1] + i - 1

HubInv ==
    /\ RingConsecutive /\ cursor \in Nat /\ boot \in Nat /\ origin \in Nat
    /\ origin <= boot /\ NothingMissed

\* An empty history misses nothing.
LEMMA HubStart == ASSUME HubInit PROVE HubInv
BY HubBounds DEF HubInit, HubInv, RingConsecutive, NothingMissed

\* The history stays consecutive when an event is published and the oldest
\* one of a full history is dropped.
LEMMA PublishConsecutive ==
    ASSUME RingConsecutive, Publish
    PROVE  RingConsecutive'
<1> DEFINE kept == IF Len(ring) = Capacity THEN Tail(ring) ELSE ring
<1>1. Capacity \in Nat \ {0} /\ Len(ring) \in Nat /\ ring \in Seq(Nat)
  BY HubBounds DEF RingConsecutive
<1>2. NextId(ring) \in Nat /\ NextId(ring) >= 1
  BY <1>1 DEF NextId, RingConsecutive
<1>3. CASE ring = <<>>
  <2>1. ring' = <<1>>
    BY <1>1, <1>3 DEF Publish, NextId
  <2>2. QED
    BY <1>1, <2>1 DEF RingConsecutive
<1>4. CASE ring # <<>>
  <2>1. /\ Len(ring) >= 1 /\ ring[Len(ring)] = ring[1] + Len(ring) - 1
        /\ NextId(ring) = ring[1] + Len(ring) /\ ring[1] \in Nat
    BY <1>1, <1>4 DEF NextId, RingConsecutive
  <2>2. kept \in Seq(Nat) /\ ring' = Append(kept, NextId(ring))
    BY <1>1, <1>4 DEF Publish
  <2>3. CASE Len(ring) = Capacity
    <3>1. /\ Len(kept) = Len(ring) - 1
          /\ \A i \in 1 .. Len(kept) : kept[i] = ring[i + 1]
      BY <1>1, <1>4, <2>1, <2>3
    <3>2. \A i \in 1 .. Len(kept) : kept[i] = ring[1] + i
      BY <1>1, <3>1 DEF RingConsecutive
    <3>3. /\ Len(ring') = Len(ring) /\ ring' \in Seq(Nat)
          /\ \A i \in 1 .. Len(ring') : ring'[i] = ring[1] + i
      BY <1>1, <1>2, <2>1, <2>2, <3>1, <3>2
    <3>4. ring'[1] = ring[1] + 1 /\ ring'[1] \in Nat
      BY <1>1, <2>1, <3>3
    <3>5. ASSUME NEW i \in 1 .. Len(ring')
          PROVE  ring'[i] >= 1 /\ ring'[i] = ring'[1] + i - 1
      <4>1. ring'[i] = ring[1] + i /\ i \in Nat /\ i >= 1
        BY <1>1, <3>3
      <4>2. QED
        BY SMTT(60), <2>1, <3>4, <4>1
    <3>6. QED
      BY <1>1, <2>3, <3>3, <3>5 DEF RingConsecutive
  <2>4. CASE Len(ring) # Capacity
    <3>1. /\ Len(ring') = Len(ring) + 1 /\ ring' \in Seq(Nat)
          /\ \A i \in 1 .. Len(ring') : ring'[i] = ring[1] + i - 1
      <4>1. /\ ring' = Append(ring, NextId(ring)) /\ Len(ring') = Len(ring) + 1
            /\ ring' \in Seq(Nat)
        BY <1>1, <1>2, <2>2, <2>4
      <4>2. ASSUME NEW i \in 1 .. Len(ring') PROVE ring'[i] = ring[1] + i - 1
        <5>1. CASE i = Len(ring) + 1
          BY <1>1, <1>2, <2>1, <4>1, <5>1
        <5>2. CASE i # Len(ring) + 1
          <6>1. i \in 1 .. Len(ring) /\ ring'[i] = ring[i]
            BY <1>1, <1>2, <4>1, <4>2, <5>2
          <6>2. QED
            BY <6>1 DEF RingConsecutive
        <5>3. QED
          BY <5>1, <5>2
      <4>3. QED
        BY <4>1, <4>2
    <3>2. ring[1] >= 1
      BY <1>1, <2>1 DEF RingConsecutive
    <3>3. 1 \in 1 .. Len(ring') /\ ring'[1] = ring[1] + 1 - 1 /\ ring'[1] = ring[1]
      <4>1. 1 \in 1 .. Len(ring')
        BY <1>1, <3>1
      <4>2. ring'[1] = ring[1] + 1 - 1
        BY <3>1, <4>1
      <4>3. QED
        BY <2>1, <4>1, <4>2
    <3>c. Len(ring') <= Capacity
      BY <1>1, <2>4, <3>1 DEF RingConsecutive
    <3>4. ASSUME NEW i \in 1 .. Len(ring')
          PROVE  ring'[i] >= 1 /\ ring'[i] = ring'[1] + i - 1
      <4>1. ring'[i] = ring[1] + i - 1 /\ i \in Nat /\ i >= 1
        BY <1>1, <3>1
      <4>2. QED
        BY <2>1, <3>2, <3>3, <4>1
    <3>5. QED
      BY <3>1, <3>c, <3>4 DEF RingConsecutive
  <2>5. QED
    BY <2>3, <2>4
<1>5. QED
  BY <1>3, <1>4

\* Whatever lies after a cursor and before the last event is replayed, or
\* older than the history.
LEMMA ReplayComplete ==
    ASSUME RingConsecutive, ring # <<>>, NEW after \in Nat,
           NEW x \in 1 .. ring[Len(ring)], x > after
    PROVE  x \in Replayed(after) \/ x \in 1 .. (ring[1] - 1)
<1>1. /\ ring \in Seq(Nat) /\ Len(ring) \in Nat /\ Len(ring) >= 1 /\ ring[1] \in Nat
      /\ ring[Len(ring)] = ring[1] + Len(ring) - 1
  BY DEF RingConsecutive
<1>2. CASE x < ring[1]
  BY <1>1, <1>2
<1>3. CASE x >= ring[1]
  <2> DEFINE i == x - ring[1] + 1
  <2>1. x \in Nat /\ x <= ring[1] + Len(ring) - 1
    BY <1>1
  <2>2. PICK n \in Nat : n = Len(ring)
    BY <1>1
  <2>3. PICK f \in Nat : f = ring[1]
    BY <1>1
  <2>4. i \in 1 .. n /\ f + i - 1 = x
    BY <1>3, <2>1, <2>2, <2>3
  <2>5. i \in 1 .. Len(ring) /\ ring[i] = x
    BY <2>2, <2>3, <2>4 DEF RingConsecutive
  <2>6. QED
    BY SMTT(60), <1>1, <2>5 DEF Replayed
<1>4. QED
  BY <1>1, <1>2, <1>3

\* A client is given, or told that it lost, every event up to its cursor.
LEMMA HubStep ==
    ASSUME HubInv, [HubNext]_hubVars
    PROVE  HubInv'
<1>t. /\ RingConsecutive /\ cursor \in Nat /\ boot \in Nat /\ origin \in Nat
      /\ origin <= boot /\ ring \in Seq(Nat) /\ Len(ring) \in Nat
  BY DEF HubInv, RingConsecutive
<1>l. ring # <<>> => ring[Len(ring)] \in Nat /\ ring[1] \in Nat
  BY <1>t
<1>1. CASE Publish
  BY <1>1, PublishConsecutive DEF HubInv, Publish, NothingMissed
<1>2. CASE Poll
  <2>1. RingConsecutive' /\ UNCHANGED <<ring, boot, origin>>
    BY <1>t, <1>2 DEF Poll, RingConsecutive
  <2>2. CASE Replayed(cursor) = {}
    BY <1>t, <1>2, <2>1, <2>2 DEF Poll, HubInv, NothingMissed
  <2>3. CASE Replayed(cursor) # {}
    <3>1. ring # <<>> /\ cursor' = ring[Len(ring)] /\ cursor' \in Nat
      BY <1>t, <1>l, <1>2, <2>3 DEF Poll, Replayed
    <3>2. ASSUME origin = boot, NEW x \in 1 .. cursor' PROVE x \in seen' \cup skipped'
      <4>1. CASE x <= cursor
        BY <1>t, <1>2, <3>1, <3>2, <4>1 DEF HubInv, NothingMissed, Poll
      <4>2. CASE x > cursor /\ x \in Replayed(cursor)
        BY <1>2, <4>2 DEF Poll
      <4>3. CASE x > cursor /\ x \in 1 .. (ring[1] - 1)
        <5>1. Expired(cursor)
          BY <1>t, <1>l, <3>1, <4>3 DEF Expired
        <5>2. QED
          BY <1>2, <4>3, <5>1 DEF Poll
      <4>4. QED
        BY <1>t, <3>1, <4>1, <4>2, <4>3, ReplayComplete
    <3>3. QED
      BY <1>t, <2>1, <3>1, <3>2 DEF HubInv, NothingMissed
  <2>4. QED
    BY <2>2, <2>3
<1>3. CASE FirstPoll
  <2>1. /\ ring # <<>> /\ cursor' = ring[Len(ring)] /\ cursor' \in Nat
        /\ seen' = Replayed(0) /\ skipped' = 1 .. (ring[1] - 1) /\ origin' = boot
        /\ UNCHANGED <<ring, boot>>
    BY <1>l, <1>3 DEF FirstPoll
  <2>2. ASSUME NEW x \in 1 .. cursor' PROVE x \in seen' \cup skipped'
    BY <1>t, <2>1, ReplayComplete
  <2>3. QED
    BY <1>t, <2>1, <2>2 DEF HubInv, NothingMissed, RingConsecutive
<1>4. CASE NewDaemon
  <2>1. RingConsecutive'
    BY <1>4, HubBounds DEF NewDaemon, RingConsecutive
  <2>2. QED
    BY <1>t, <1>4, <2>1 DEF NewDaemon, HubInv, NothingMissed
<1>5. CASE UNCHANGED hubVars
  BY <1>5 DEF hubVars, HubInv, RingConsecutive, NothingMissed
<1>6. QED
  BY <1>1, <1>2, <1>3, <1>4, <1>5 DEF HubNext

-----------------------------------------------------------------------------
(* ControlPlane: the scheduled drift check. *)

Verdicts == {NoCheck, "healthy", "drifted", "degraded"}
StoredStates == [enabled : BOOLEAN, interval : Nat, last : Verdicts]
Checks == {Quiet}
          \cup [pc : {"wait"}, from : StoredStates]
          \cup [pc : {"done", "saved", "failed"}, verdict : Verdicts, from : StoredStates]

\* A worker is inside the checker exactly while the flag is set, and the
\* check in progress knows what it saved.
DriftInv ==
    /\ stored \in StoredStates /\ check \in Checks
    /\ (~ busy /\ workers = 0) \/ (busy /\ workers = 1)
    /\ check.pc = "wait" => workers = 1
    /\ check.pc = "saved" => check.verdict = stored.last
    /\ check.pc = "failed" => check.verdict = "degraded"
    /\ ~ alive => check = Quiet
    /\ ConfigAgrees /\ StatusPersisted

\* A check that waits, and one that is done, is a check.
LEMMA CheckForms ==
    ASSUME NEW s \in StoredStates
    PROVE  /\ [pc |-> "wait", from |-> s] \in Checks
           /\ \A v \in Verdicts : [pc |-> "done", verdict |-> v, from |-> s] \in Checks
<1>1. [pc |-> "wait", from |-> s] \in [pc : {"wait"}, from : StoredStates]
  OBVIOUS
<1>2. ASSUME NEW v \in Verdicts
      PROVE  [pc |-> "done", verdict |-> v, from |-> s]
               \in [pc : {"done", "saved", "failed"}, verdict : Verdicts, from : StoredStates]
  OBVIOUS
<1>3. QED
  BY <1>1, <1>2 DEF Checks

\* No check has run at first.
LEMMA DriftStart == ASSUME DriftInit PROVE DriftInv
<1>1. Shortest \in Nat
  BY IntervalBounds
<1>2. stored \in StoredStates /\ ConfigAgrees
  BY <1>1 DEF DriftInit, StoredStates, Verdicts, NoCheck, ConfigAgrees, ConfigOf, Default
<1>3. check = Quiet /\ check \in Checks /\ check.pc = "idle"
  BY DEF DriftInit, Checks, Quiet
<1>4. ~ busy /\ workers = 0 /\ alive /\ StatusPersisted
  BY DEF DriftInit, StatusPersisted, NoCheck
<1>5. check.pc # "wait" /\ check.pc # "saved" /\ check.pc # "failed"
  BY <1>3
<1>6. QED
  BY <1>2, <1>3, <1>4, <1>5 DEF DriftInv

\* The check in progress has the shape of its point.
LEMMA CheckShape ==
    ASSUME check \in Checks
    PROVE  /\ check.pc \in {"idle", "wait", "done", "saved", "failed"}
           /\ check.pc = "idle" <=> check = Quiet
           /\ check.pc \in {"wait", "done"} => check.from \in StoredStates
           /\ check.pc \in {"done", "saved", "failed"} =>
                check \in [pc : {"done", "saved", "failed"}, verdict : Verdicts,
                           from : StoredStates]
<1>1. CASE check = Quiet
  BY <1>1 DEF Quiet
<1>2. CASE check \in [pc : {"wait"}, from : StoredStates]
  BY <1>2 DEF Quiet
<1>3. CASE check \in [pc : {"done", "saved", "failed"}, verdict : Verdicts, from : StoredStates]
  BY <1>3 DEF Quiet
<1>4. QED
  BY <1>1, <1>2, <1>3 DEF Checks

\* Configurations, checks, timeouts and restarts keep the store, the watch
\* and the status in agreement.
LEMMA DriftStep ==
    ASSUME DriftInv, [DriftNext]_driftVars
    PROVE  DriftInv'
<1>s. Quiet \in Checks /\ Quiet.pc = "idle"
  BY DEF Checks, Quiet
<1>c. /\ check \in Checks /\ stored \in StoredStates
      /\ check.pc \in {"idle", "wait", "done", "saved", "failed"}
      /\ check.pc = "idle" <=> check = Quiet
      /\ check.pc \in {"wait", "done"} => check.from \in StoredStates
      /\ check.pc \in {"done", "saved", "failed"} =>
           check \in [pc : {"done", "saved", "failed"}, verdict : Verdicts, from : StoredStates]
  BY CheckShape DEF DriftInv
<1>w. (~ busy /\ workers = 0) \/ (busy /\ workers = 1)
  BY DEF DriftInv
<1>k. ASSUME UNCHANGED <<stored, watched, torn, alive>> PROVE ConfigAgrees'
  BY <1>k DEF DriftInv, ConfigAgrees, ConfigOf
<1>1. ASSUME NEW c \in Configs, SaveConfig(c) PROVE DriftInv'
  <2>1. c.enabled \in BOOLEAN /\ c.interval \in Nat
        /\ c = [enabled |-> c.enabled, interval |-> c.interval]
    BY IntervalBounds DEF Configs
  <2>2. /\ stored' \in StoredStates /\ stored'.last = stored.last
        /\ stored'.enabled = c.enabled /\ stored'.interval = c.interval
    BY <1>1, <1>c, <2>1 DEF SaveConfig, StoredStates
  <2>3. ConfigOf(stored') = c
    BY <2>1, <2>2 DEF ConfigOf
  <2>4. ConfigAgrees'
    BY <1>1, <2>3 DEF SaveConfig, ConfigAgrees, ConfigOf
  <2>5. QED
    BY <1>1, <2>2, <2>4 DEF SaveConfig, DriftInv, StatusPersisted
<1>2. CASE StartCheck
  <2>1. CASE busy
    <3>1. check' = [pc |-> "done", verdict |-> "degraded", from |-> stored]
          /\ UNCHANGED <<busy, workers>>
      BY <1>2, <2>1 DEF StartCheck
    <3>2. check' \in Checks
      BY <1>c, <3>1, CheckForms DEF Verdicts
    <3>3. /\ check'.pc # "wait" /\ check'.pc # "saved" /\ check'.pc # "failed"
          /\ check' # Quiet
      BY <1>s, <3>1
    <3>4. QED
      BY <1>2, <1>k, <3>1, <3>2, <3>3 DEF StartCheck, DriftInv, StatusPersisted
  <2>2. CASE ~ busy
    <3>1. check' = [pc |-> "wait", from |-> stored]
      BY <1>2, <2>2 DEF StartCheck
    <3>2. check' \in Checks
      BY <1>c, <3>1, CheckForms
    <3>3. /\ check'.pc # "saved" /\ check'.pc # "failed" /\ check' # Quiet
      BY <1>s, <3>1
    <3>4. workers' = workers + 1 /\ busy'
      BY <1>2, <2>2 DEF StartCheck
    <3>5. workers = 0
      BY <1>w, <2>2
    <3>6. workers' = 1
      BY <3>4, <3>5
    <3>7. QED
      BY <1>2, <1>k, <3>2, <3>3, <3>4, <3>6 DEF StartCheck, DriftInv, StatusPersisted
  <2>3. QED
    BY <2>1, <2>2
<1>3. ASSUME NEW clean \in BOOLEAN, NEW failed \in BOOLEAN, Answered(clean, failed)
      PROVE  DriftInv'
  <2>1. CheckTargets(clean, failed) \in Verdicts
    BY DEF CheckTargets, Verdicts
  <2>2. /\ check' = [pc |-> "done", verdict |-> CheckTargets(clean, failed), from |-> check.from]
        /\ check'.pc = "done" /\ check' \in Checks
    BY <1>3, <1>c, <2>1, CheckForms DEF Answered
  <2>3. ~ busy' /\ workers' = 0
    BY <1>3, <1>w DEF Answered, DriftInv
  <2>4. /\ check # Quiet /\ check' # Quiet
        /\ check'.pc # "wait" /\ check'.pc # "saved" /\ check'.pc # "failed"
    BY <1>3, <1>s, <2>2 DEF Answered
  <2>5. QED
    BY <1>3, <1>k, <2>2, <2>3, <2>4 DEF Answered, DriftInv, StatusPersisted
<1>4. CASE TimedOut
  <2>1. /\ check' = [pc |-> "done", verdict |-> "degraded", from |-> check.from]
        /\ check'.pc = "done" /\ check' \in Checks
    BY <1>4, <1>c, CheckForms DEF TimedOut, Verdicts
  <2>2. /\ check # Quiet /\ check' # Quiet
        /\ check'.pc # "wait" /\ check'.pc # "saved" /\ check'.pc # "failed"
    BY <1>4, <1>s, <2>1 DEF TimedOut
  <2>3. QED
    BY <1>4, <1>k, <2>1, <2>2 DEF TimedOut, DriftInv, StatusPersisted
<1>5. CASE WorkerEnds
  <2>1. ~ busy' /\ workers' = 0
    BY <1>5, <1>w DEF WorkerEnds
  <2>2. QED
    BY <1>5, <1>k, <2>1 DEF WorkerEnds, DriftInv, StatusPersisted
<1>6. CASE SaveCheck
  <2>1. check \in [pc : {"done", "saved", "failed"}, verdict : Verdicts, from : StoredStates]
    BY <1>6, <1>c DEF SaveCheck
  <2>2. /\ WithCheck(check.verdict) \in StoredStates
        /\ WithCheck(check.verdict).last = check.verdict
        /\ ConfigOf(WithCheck(check.verdict)) = ConfigOf(stored)
    BY <1>c, <2>1 DEF WithCheck, StoredStates, ConfigOf
  <2>3. /\ check' \in [pc : {"done", "saved", "failed"}, verdict : Verdicts, from : StoredStates]
        /\ check'.pc \in {"saved", "failed"}
        /\ check'.pc = "saved" => stored' = WithCheck(check.verdict) /\ check'.verdict = check.verdict
        /\ check'.pc = "failed" => check'.verdict = "degraded"
    BY <1>6, <2>1 DEF SaveCheck, Verdicts
  <2>c. check' \in Checks
    BY <2>3 DEF Checks
  <2>4. stored' \in {stored, WithCheck(check.verdict)}
    BY <1>6 DEF SaveCheck
  <2>5. stored' \in StoredStates /\ ConfigOf(stored') = ConfigOf(stored)
    BY <1>c, <2>2, <2>4
  <2>6. ConfigAgrees'
    BY <1>6, <2>5 DEF SaveCheck, ConfigAgrees, DriftInv, ConfigOf
  <2>7. check' # Quiet /\ check # Quiet
    BY <1>6, <1>s, <2>3 DEF SaveCheck
  <2>8. QED
    BY <1>6, <2>2, <2>3, <2>c, <2>5, <2>6, <2>7 DEF SaveCheck, DriftInv, StatusPersisted
<1>7. CASE Report
  <2>1. check' = Quiet /\ check'.pc = "idle" /\ check' \in Checks
    BY <1>7, <1>s DEF Report
  <2>2. status' = stored.last \/ status' = "degraded"
    BY <1>7 DEF Report, DriftInv
  <2>3. StatusPersisted'
    BY <1>7, <2>2 DEF Report, StatusPersisted
  <2>4. check'.pc # "wait" /\ check'.pc # "saved" /\ check'.pc # "failed"
    BY <2>1
  <2>5. QED
    BY <1>7, <1>k, <2>1, <2>3, <2>4 DEF Report, DriftInv
<1>8. CASE StopDaemon
  <2>1. check' = Quiet /\ check'.pc = "idle" /\ check' \in Checks
    BY <1>8, <1>s DEF StopDaemon
  <2>2. check'.pc # "wait" /\ check'.pc # "saved" /\ check'.pc # "failed"
    BY <2>1
  <2>3. QED
    BY <1>8, <2>1, <2>2 DEF StopDaemon, DriftInv, ConfigAgrees, StatusPersisted
<1>9. CASE StartDaemon
  BY <1>9, <1>s DEF StartDaemon, DriftInv, ConfigAgrees, ConfigOf, StatusPersisted
<1>10. CASE UNCHANGED driftVars
  BY <1>10 DEF driftVars, DriftInv, ConfigAgrees, ConfigOf, StatusPersisted
<1>11. QED
  BY <1>1, <1>2, <1>3, <1>4, <1>5, <1>6, <1>7, <1>8, <1>9, <1>10 DEF DriftNext

-----------------------------------------------------------------------------
(* PersonalContext: the receipts of a session. *)

\* A receipt is written under an identifier that was handed out.
ReceiptsNumbered ==
  /\ ctSequence \in Nat
  /\ \A i \in DOMAIN ctReceipts : i \in Nat /\ i <= ctSequence

\* There is no receipt at first.
LEMMA ContextStart == ASSUME ContextInit PROVE ReceiptsNumbered
BY DEF ContextInit, ReceiptsNumbered

\* What a step does to the receipts: nothing, or one more under the next identifier.
LEMMA ContextMoves ==
    ASSUME [ContextNext]_ctVars
    PROVE  \/ ctReceipts' = ctReceipts /\ ctSequence' \in {ctSequence, ctSequence + 1}
           \/ \E s \in ContextSessions, c \in ContextSections : NextContextId(s, c)
BY DEF ContextNext, ctVars, OwnerOpens, OwnerGrants, OwnerRevokes, ReplaceRuntimeState, SequenceAfterReplace,
   ContextTick, Search, ProposeRevision, Retrieve, RequestAccess, InspectReceipt

\* Identifiers are handed out once.
LEMMA ContextStep ==
    ASSUME ReceiptsNumbered, [ContextNext]_ctVars
    PROVE  ReceiptsNumbered'
<1>1. CASE ctReceipts' = ctReceipts /\ ctSequence' \in {ctSequence, ctSequence + 1}
  BY <1>1 DEF ReceiptsNumbered
<1>2. ASSUME NEW s \in ContextSessions, NEW c \in ContextSections, NextContextId(s, c) PROVE ReceiptsNumbered'
  <2>1. DOMAIN ctReceipts' = DOMAIN ctReceipts \cup {ctSequence + 1} /\ ctSequence' = ctSequence + 1
    BY <1>2 DEF NextContextId
  <2>2. QED
    BY <2>1 DEF ReceiptsNumbered
<1>3. QED
  BY <1>1, <1>2, ContextMoves

\* A receipt that was written stays.
LEMMA ContextKeeps ==
    ASSUME ReceiptsNumbered, [ContextNext]_ctVars
    PROVE  ReceiptsKept
<1>1. SUFFICES ASSUME NEW i \in DOMAIN ctReceipts
               PROVE  i \in DOMAIN ctReceipts' /\ ctReceipts'[i] = ctReceipts[i]
  BY DEF ReceiptsKept
<1>2. i # ctSequence + 1
  BY DEF ReceiptsNumbered
<1>3. QED
  BY <1>2, ContextMoves DEF NextContextId

-----------------------------------------------------------------------------
(* Onboarding: the attempts of portable_onboarding.rs. *)

AttemptStates == {"unknown", "planned", "remote_created", "orphaned", "registering",
                  "registered", "verifying", "completed"}
AttemptRecords == [state : AttemptStates, node : Nat, registration : Registrations \cup {"none"}]
Repositories == [node : Nat, private : BOOLEAN, ours : BOOLEAN]

\* The memory is the file while no write took effect unreported, and every
\* attempt on disk was begun for its own key.
AttemptsInv ==
  /\ roGitHub \in Repositories /\ roResult \in Repositories /\ roNodes \in Nat
  /\ roFile \in [OnboardingAttempts -> AttemptRecords]
  /\ roMemory \in [OnboardingAttempts -> AttemptRecords]
  /\ roUnsynced \in BOOLEAN
  /\ ~ roUnsynced => roMemory = roFile
  /\ ConnectedIsPrivate
  /\ OneAttemptPerKey

\* Nothing has been tried at first.
LEMMA AttemptsStart == ASSUME OnboardingStoreInit PROVE AttemptsInv
BY DEF OnboardingStoreInit, AttemptsInv, NoRepository, NoResult, Unknown, Repositories, AttemptRecords,
   AttemptStates, ConnectedIsPrivate, OneAttemptPerKey

\* What a request makes of one attempt: a record that keeps the node and the
\* registration it has, of an attempt that was begun or may be begun.
Changed(a, v) ==
  /\ v \in AttemptRecords
  /\ roMemory[a].node # 0 => v.node = roMemory[a].node
  /\ roMemory[a].registration # "none" => v.registration = roMemory[a].registration
  /\ roMemory[a] # Unknown \/ MayBegin(a)

\* Every request on an attempt changes that attempt only, and keeps what is bound.
LEMMA RequestsBind ==
    ASSUME AttemptsInv, NEW a \in OnboardingAttempts,
           \/ BeginAttempt(a) \/ MarkRemoteCreated(a)
           \/ \E to \in {"orphaned", "registering", "verifying"} : Mark(a, to)
           \/ \E r \in Registrations : MarkRegistered(a, r) \/ Complete(a, r)
    PROVE  \E v \in AttemptRecords : Changed(a, v) /\ Mutate([roMemory EXCEPT ![a] = v])
<1>0. /\ roMemory[a] \in AttemptRecords /\ roResult.node \in Nat
      /\ roMemory[a].node \in Nat /\ roMemory[a].registration \in Registrations \cup {"none"}
  BY DEF AttemptsInv, AttemptRecords, Repositories
<1>t. ASSUME NEW to \in AttemptStates \ {"unknown", "planned"},
             NEW n \in Nat, NEW g \in Registrations \cup {"none"}, Transition(a, to, n, g),
             roMemory[a].node # 0 => n = roMemory[a].node,
             roMemory[a].registration # "none" => g = roMemory[a].registration
      PROVE  \E v \in AttemptRecords : Changed(a, v) /\ Mutate([roMemory EXCEPT ![a] = v])
  <2> DEFINE v == [state |-> to, node |-> n, registration |-> g]
  <2>1. v \in AttemptRecords /\ v.node = n /\ v.registration = g
    BY DEF AttemptRecords
  <2>2. roMemory[a] # Unknown
    <3>1. roMemory[a].state # "unknown"
      BY <1>t DEF Transition, CanTransition, AttemptStates
    <3>2. QED
      BY <3>1 DEF Unknown
  <2>3. Mutate([roMemory EXCEPT ![a] = v])
    BY <1>t DEF Transition
  <2>4. QED
    BY <1>t, <2>1, <2>2, <2>3 DEF Changed
<1>1. CASE BeginAttempt(a)
  <2>1. PICK known \in {0, roResult.node} :
          Mutate([roMemory EXCEPT ![a] = [state |-> "planned", node |-> known, registration |-> "none"]])
    BY <1>1 DEF BeginAttempt
  <2> DEFINE v == [state |-> "planned", node |-> known, registration |-> "none"]
  <2>2. v \in AttemptRecords
    BY <1>0 DEF AttemptRecords, AttemptStates
  <2>3. roMemory[a].node = 0 /\ roMemory[a].registration = "none" /\ MayBegin(a)
    BY <1>1 DEF BeginAttempt, MayBegin, Unknown
  <2>4. QED
    BY <2>1, <2>2, <2>3 DEF Changed
<1>2. CASE MarkRemoteCreated(a)
  BY <1>0, <1>2, <1>t DEF MarkRemoteCreated, SameNode, AttemptStates
<1>3. ASSUME NEW to \in {"orphaned", "registering", "verifying"}, Mark(a, to)
      PROVE  \E v \in AttemptRecords : Changed(a, v) /\ Mutate([roMemory EXCEPT ![a] = v])
  BY <1>0, <1>3, <1>t DEF Mark, AttemptStates
<1>4. ASSUME NEW r \in Registrations, MarkRegistered(a, r)
      PROVE  \E v \in AttemptRecords : Changed(a, v) /\ Mutate([roMemory EXCEPT ![a] = v])
  BY <1>0, <1>4, <1>t DEF MarkRegistered, SameRegistration, AttemptStates
<1>5. ASSUME NEW r \in Registrations, Complete(a, r)
      PROVE  \E v \in AttemptRecords : Changed(a, v) /\ Mutate([roMemory EXCEPT ![a] = v])
  BY <1>0, <1>5, <1>t DEF Complete, AttemptStates
<1>6. QED
  BY <1>1, <1>2, <1>3, <1>4, <1>5

\* A step outside the store leaves the file, and the memory or takes it from the file.
LEMMA OutsideRequests ==
    ASSUME \/ InspectAndPlan \/ ApplyConnects \/ ApplyFindsNothing \/ OthersChange \/ OpenAgain
           \/ \E answered \in BOOLEAN : ApplyCreates(answered)
           \/ UNCHANGED roVars
    PROVE  /\ UNCHANGED <<roFile, roUnsynced>>
           /\ roMemory' \in {roMemory, roFile}
BY DEF InspectAndPlan, ApplyConnects, ApplyFindsNothing, OthersChange, OpenAgain, ApplyCreates, roVars

\* GitHub, the plan and the store keep a repository private and an attempt alone with its key.
LEMMA AttemptsStep ==
    ASSUME AttemptsInv, [OnboardingStoreNext]_roVars
    PROVE  AttemptsInv'
<1>0. /\ roGitHub \in Repositories /\ roResult \in Repositories /\ roNodes \in Nat
      /\ roFile \in [OnboardingAttempts -> AttemptRecords]
      /\ roMemory \in [OnboardingAttempts -> AttemptRecords]
      /\ roUnsynced \in BOOLEAN
      /\ ~ roUnsynced => roMemory = roFile
      /\ roResult.node # 0 => roResult.private /\ roResult.ours
  BY DEF AttemptsInv, ConnectedIsPrivate
<1>g. NoRepository \in Repositories /\ NoResult \in Repositories /\ NoResult.node = 0
  BY DEF NoRepository, NoResult, Repositories
<1>n. ASSUME NEW p \in BOOLEAN, NEW o \in BOOLEAN, NewRepository(p, o)
      PROVE  roGitHub' \in Repositories /\ roNodes' \in Nat /\ roGitHub'.private = p /\ roGitHub'.ours = o
  BY <1>0, <1>n DEF NewRepository, Repositories
<1>1. ASSUME NEW a \in OnboardingAttempts, NEW v \in AttemptRecords, Changed(a, v),
             Mutate([roMemory EXCEPT ![a] = v])
      PROVE  AttemptsInv'
  <2> DEFINE after == [roMemory EXCEPT ![a] = v]
  <2>1. after \in [OnboardingAttempts -> AttemptRecords]
    BY <1>0
  <2>2. roFile' \in {roFile, after} /\ roMemory' \in {roMemory, after} /\ roUnsynced' \in BOOLEAN
    BY <1>0, <1>1 DEF Mutate
  <2>3. ~ roUnsynced' => ~ roUnsynced /\ roMemory' = roFile' /\ (roFile' = roFile \/ roFile' = after)
    BY <1>0, <1>1 DEF Mutate
  <2>4. ASSUME ~ roUnsynced, OneAttemptPerKey,
               NEW x \in OnboardingAttempts, NEW y \in OnboardingAttempts,
               after[x] # Unknown, after[y] # Unknown, KeyOf(x) = KeyOf(y)
        PROVE  x = y
    <3>0. roMemory = roFile /\ \A z \in OnboardingAttempts : z # a => after[z] = roMemory[z]
      BY <1>0, <2>4
    <3>1. CASE MayBegin(a)
      BY <2>4, <3>0, <3>1 DEF MayBegin, OneAttemptPerKey
    <3>2. CASE roMemory[a] # Unknown
      BY <2>4, <3>0, <3>2 DEF OneAttemptPerKey
    <3>3. QED
      BY <1>1, <3>1, <3>2 DEF Changed
  <2>5. OneAttemptPerKey'
    BY <2>3, <2>4 DEF OneAttemptPerKey, AttemptsInv
  <2>6. UNCHANGED <<roGitHub, roNodes, roResult>>
    BY <1>1 DEF Mutate, githubVars
  <2>7. QED
    BY <1>0, <2>1, <2>2, <2>3, <2>5, <2>6 DEF AttemptsInv, ConnectedIsPrivate
<1>2. CASE \/ InspectAndPlan \/ ApplyConnects \/ ApplyFindsNothing \/ OthersChange \/ OpenAgain
           \/ \E answered \in BOOLEAN : ApplyCreates(answered)
           \/ UNCHANGED roVars
  <2>1. roGitHub' \in Repositories /\ roNodes' \in Nat
    <3>1. CASE OthersChange
      <4>1. CASE roGitHub' = [roGitHub EXCEPT !.private = FALSE] /\ UNCHANGED roNodes
        BY <1>0, <4>1 DEF Repositories
      <4>2. QED
        BY <1>0, <1>g, <1>n, <3>1, <4>1 DEF OthersChange
    <3>2. ASSUME NEW answered \in BOOLEAN, ApplyCreates(answered) PROVE roGitHub' \in Repositories /\ roNodes' \in Nat
      BY <1>0, <1>n, <3>2 DEF ApplyCreates, githubVars
    <3>3. QED
      BY <1>0, <1>2, <3>1, <3>2 DEF InspectAndPlan, ApplyConnects, ApplyFindsNothing, OpenAgain, roVars, githubVars
  <2>2. roResult' \in Repositories /\ (roResult'.node # 0 => roResult'.private /\ roResult'.ours)
    <3>1. CASE ApplyConnects
      BY <1>0, <1>g, <3>1 DEF ApplyConnects, ValidObservation
    <3>2. ASSUME NEW answered \in BOOLEAN, ApplyCreates(answered)
          PROVE  roResult' \in Repositories /\ (roResult'.node # 0 => roResult'.private /\ roResult'.ours)
      BY <1>0, <1>g, <1>n, <3>2 DEF ApplyCreates
    <3>3. QED
      BY <1>0, <1>g, <1>2, <3>1, <3>2 DEF InspectAndPlan, ApplyFindsNothing, OthersChange, OpenAgain, roVars
  <2>3. UNCHANGED <<roFile, roUnsynced>> /\ roMemory' \in {roMemory, roFile}
    BY <1>2, OutsideRequests
  <2>4. OneAttemptPerKey'
    BY <2>3 DEF AttemptsInv, OneAttemptPerKey
  <2>5. QED
    BY <1>0, <2>1, <2>2, <2>3, <2>4 DEF AttemptsInv, ConnectedIsPrivate
<1>3. QED
  BY <1>1, <1>2, RequestsBind DEF OnboardingStoreNext

\* What is recorded of an attempt on disk is not replaced.
LEMMA AttemptsKeep ==
    ASSUME AttemptsInv, [OnboardingStoreNext]_roVars
    PROVE  NodeBoundOnce /\ RegistrationBoundOnce
<1>1. SUFFICES ASSUME ~ roUnsynced', NEW b \in OnboardingAttempts
               PROVE  /\ roFile[b].node # 0 => roFile'[b].node = roFile[b].node
                      /\ roFile[b].registration # "none" => roFile'[b].registration = roFile[b].registration
  BY DEF NodeBoundOnce, RegistrationBoundOnce
<1>2. ASSUME NEW a \in OnboardingAttempts, NEW v \in AttemptRecords, Changed(a, v),
             Mutate([roMemory EXCEPT ![a] = v])
      PROVE  /\ roFile[b].node # 0 => roFile'[b].node = roFile[b].node
             /\ roFile[b].registration # "none" => roFile'[b].registration = roFile[b].registration
  <2>1. roFile' \in {roFile, [roMemory EXCEPT ![a] = v]} /\ roMemory = roFile
    BY <1>1, <1>2 DEF Mutate, AttemptsInv
  <2>2. roMemory \in [OnboardingAttempts -> AttemptRecords]
    BY DEF AttemptsInv
  <2>3. QED
    BY <1>2, <2>1, <2>2 DEF Changed
<1>3. CASE roFile' = roFile
  BY <1>3
<1>4. QED
  BY <1>2, <1>3, RequestsBind, OutsideRequests DEF OnboardingStoreNext

-----------------------------------------------------------------------------
(* Relay: the servers CommonKit does not manage. *)

\* A reconcile drops only servers that it manages.
LEMMA CatalogKeeps ==
    ASSUME [CatalogNext]_catalogVars
    PROVE  UnmanagedKept
<1>1. SUFFICES ASSUME CatalogNext, NEW s \in DOMAIN catalog, ~ catalog[s].managed
               PROVE  s \in DOMAIN catalog'
  BY DEF UnmanagedKept
<1>2. ASSUME NEW D \in SUBSET Servers, NEW desired \in [D -> Entries], NEW prune \in BOOLEAN,
             ReconcileCatalog(desired, prune)
      PROVE  s \in DOMAIN catalog'
  <2> DEFINE merged == Prepared(desired)
  <2>1. catalog' = Pruned(merged, desired, prune)
    BY <1>2 DEF ReconcileCatalog
  <2>2. /\ s \in DOMAIN merged
        /\ s \notin DOMAIN desired => merged[s] = catalog[s]
    BY DEF Prepared
  <2>3. s \in {r \in DOMAIN merged : merged[r].managed => r \in DOMAIN desired}
    BY <1>1, <2>2
  <2> HIDE DEF merged
  <2>4. CASE prune
    <3> DEFINE kept == {r \in DOMAIN merged : merged[r].managed => r \in DOMAIN desired}
    <3>1. catalog' = [r \in kept |-> merged[r]]
      BY <2>1, <2>4 DEF Pruned
    <3>2. QED
      BY <2>3, <3>1
  <2>5. CASE ~ prune
    BY <2>1, <2>2, <2>5 DEF Pruned
  <2>6. QED
    BY <2>4, <2>5
<1>3. ASSUME NEW t \in Servers, RefreshServer(t) PROVE DOMAIN catalog' = DOMAIN catalog
  BY <1>3 DEF RefreshServer
<1>4. QED
  BY <1>1, <1>2, <1>3 DEF CatalogNext, TakeNotifications, OfferChanges

-----------------------------------------------------------------------------
(* Relay: the configuration file under the plan executor. *)

RelayFiles == {NoFile} \cup RelayConfigs

\* What the run, the restart request and the runtime hold was in the file.
RelayInv ==
  /\ relayFile \in RelayFiles /\ relayFile \in onDisk
  /\ reviewed \in [before : RelayFiles, after : RelayFiles, reread : RelayFiles]
  /\ RuntimeWasFile /\ RelayRecoverable
  /\ relayRun = "reload" => reviewed.after \in onDisk
  /\ relayRun = "reinstall" => reviewed.reread \in onDisk
  /\ restart = "none" \/ restart \in onDisk

\* The relay starts without a runtime and without a run.
LEMMA RelayStart == ASSUME RelayInit PROVE RelayInv
BY DEF RelayInit, RelayInv, RelayFiles, NoOperation, RuntimeWasFile, RelayRecoverable, Mutating

\* Plans, crashes, edits and restarts keep the file first and the backup true.
LEMMA RelayKeeps ==
    ASSUME RelayInv, [RelayNext]_relayVars
    PROVE  RelayInv'
<1> USE DEF RelayInv, RuntimeWasFile, RelayRecoverable, Mutating
<1>1. CASE PrepareRelay \/ VerifyRelay \/ RecoverRelay \/ RelayDaemonDies \/ UNCHANGED relayVars
  BY <1>1 DEF PrepareRelay, VerifyRelay, RecoverRelay, RelayDaemonDies, relayVars
<1>2. CASE ReplaceFile \/ RestoreLive
  BY <1>2 DEF ReplaceFile, RestoreLive, WriteLive
<1>3. CASE ReloadRuntime \/ ReinstallRuntime
  BY <1>3 DEF ReloadRuntime, ReinstallRuntime, ReloadWith
<1>4. CASE RereadLive
  <2>1. /\ reviewed' \in [before : RelayFiles, after : RelayFiles, reread : RelayFiles]
        /\ reviewed'.before = reviewed.before /\ reviewed'.reread = relayFile
    BY <1>4 DEF RereadLive
  <2>2. QED
    BY <1>4, <2>1 DEF RereadLive
<1>5. CASE RestartReads \/ RestartInstalls
  BY <1>5 DEF RestartReads, RestartInstalls
<1>6. ASSUME NEW c \in RelayConfigs, PlanRelay(c) \/ OwnerEditsRelay(c) \/ UpstreamChanges(c)
      PROVE  RelayInv'
  BY <1>6 DEF PlanRelay, OwnerEditsRelay, UpstreamChanges, WriteLive, RelayFiles, RunEnded
<1>7. QED
  BY <1>1, <1>2, <1>3, <1>4, <1>5, <1>6 DEF RelayNext, RelayStep

-----------------------------------------------------------------------------
(* Relay: the catalog of tools. *)

ToolSets == Offers \cup {Down, {}}
CatalogEntries == [managed : BOOLEAN, enabled : BOOLEAN, tools : ToolSets]
Catalogs == UNION {[D -> CatalogEntries] : D \in SUBSET Servers}

\* The catalog has no two tools of one name, and clients have it or a notice.
CatalogInv ==
  /\ catalog \in Catalogs /\ offer \in [Servers -> Offers \cup {Down}]
  /\ toolNotice \in BOOLEAN
  /\ ~ Collides(catalog) /\ ClientsTold

\* A catalog has finitely many tools.
LEMMA PairsFinite ==
    ASSUME NEW c \in Catalogs
    PROVE  IsFiniteSet(Pairs(c))
<1>1. PICK D \in SUBSET Servers : c \in [D -> CatalogEntries]
  BY DEF Catalogs
<1>2. IsFiniteSet(D)
  BY CatalogBounds, FS_Subset
<1>3. \A s \in D : IsFiniteSet(c[s].tools)
  <2>1. \A s \in D : c[s].tools \in ToolSets
    BY <1>1 DEF CatalogEntries
  <2>2. IsFiniteSet(Down) /\ IsFiniteSet({})
    BY FS_Singleton, FS_EmptySet DEF Down
  <2>3. QED
    BY <2>1, <2>2, CatalogBounds DEF ToolSets
<1> DEFINE sets == {c[s].tools : s \in D}
           each == [s \in D |-> c[s].tools]
<1>4. each \in Surjection(D, sets)
  BY DEF Surjection
<1>5. IsFiniteSet(sets)
  BY <1>2, <1>4, FS_Surjection
<1>6. IsFiniteSet(UNION sets)
  BY <1>3, <1>5, FS_UNION
<1>7. IsFiniteSet(D \X UNION sets)
  BY <1>2, <1>6, FS_Product
<1>8. Pairs(c) \subseteq D \X UNION sets
  BY <1>1 DEF Pairs
<1>9. QED
  BY <1>7, <1>8, FS_Subset

\* A catalog without a collision gives every name one tool.
LEMMA NamesAreUnique ==
    ASSUME CatalogInv
    PROVE  OneTool
<1> DEFINE P == Pairs(catalog)
           name == [p \in P |-> Local(p[1], p[2])]
<1>1. IsFiniteSet(P)
  BY PairsFinite DEF CatalogInv
<1>2. name \in Surjection(P, LocalizedTools(catalog))
  BY DEF Surjection, LocalizedTools
<1>3. Cardinality(P) = Cardinality(LocalizedTools(catalog))
  BY DEF CatalogInv, Collides
<1>4. name \in Injection(P, LocalizedTools(catalog))
  BY <1>1, <1>2, <1>3, FS_SurjSameCardinalityImpliesInj
<1>5. ASSUME NEW n \in LocalizedTools(catalog) PROVE Cardinality(Resolves(n)) = 1
  <2>1. PICK p \in P : n = Local(p[1], p[2])
    BY DEF LocalizedTools
  <2>2. ASSUME NEW q \in Resolves(n) PROVE q = p
    <3>1. q \in P /\ name[q] = name[p]
      BY <2>1, <2>2 DEF Resolves
    <3>2. QED
      BY <1>4, <3>1 DEF Injection, IsInjective
  <2>3. Resolves(n) = {p}
    BY <2>1, <2>2 DEF Resolves
  <2>4. QED
    BY <2>3, FS_Singleton
<1>6. QED
  BY <1>5 DEF OneTool

\* The catalog is empty at first.
LEMMA CatalogStart == ASSUME CatalogInit PROVE CatalogInv
<1>1. catalog \in [{} -> CatalogEntries] /\ {} \in SUBSET Servers
  BY DEF CatalogInit
<1>2. catalog \in Catalogs
  BY <1>1 DEF Catalogs
<1>3. Pairs(catalog) = {} /\ LocalizedTools(catalog) = {}
  BY <1>1 DEF Pairs, LocalizedTools
<1>4. QED
  BY <1>2, <1>3 DEF CatalogInit, CatalogInv, Collides, ClientsTold

\* Reconciles and refreshes admit no collision and leave a notice.
LEMMA CatalogStep ==
    ASSUME CatalogInv, [CatalogNext]_catalogVars
    PROVE  CatalogInv'
<1>0. PICK D \in SUBSET Servers : catalog \in [D -> CatalogEntries]
  BY DEF CatalogInv, Catalogs
<1>o. offer \in [Servers -> Offers \cup {Down}]
  BY DEF CatalogInv
<1>n. toolNotice \in BOOLEAN /\ (~ toolNotice => clientList = LocalizedTools(catalog))
  BY DEF CatalogInv, ClientsTold
<1>1. ASSUME NEW E \in SUBSET Servers, NEW desired \in [E -> Entries], NEW prune \in BOOLEAN,
             ReconcileCatalog(desired, prune)
      PROVE  CatalogInv'
  <2> DEFINE candidate == Pruned(Prepared(desired), desired, prune)
  <2>1. Prepared(desired) \in [E \cup D -> CatalogEntries]
    <3>1. ASSUME NEW s \in E
          PROVE  [managed |-> desired[s].managed, enabled |-> desired[s].enabled,
                  tools |-> IF desired[s].enabled THEN offer[s] ELSE {}] \in CatalogEntries
      <4>1. (IF desired[s].enabled THEN offer[s] ELSE {}) \in ToolSets
        BY <1>o DEF ToolSets
      <4>2. desired[s].managed \in BOOLEAN /\ desired[s].enabled \in BOOLEAN
        BY DEF Entries
      <4>3. QED
        BY <4>1, <4>2 DEF CatalogEntries
    <3>2. QED
      BY <1>0, <3>1 DEF Prepared
  <2>2. candidate \in Catalogs
    <3>1. CASE prune
      <4> DEFINE kept == {r \in DOMAIN Prepared(desired) : Prepared(desired)[r].managed => r \in DOMAIN desired}
      <4>1. candidate = [r \in kept |-> Prepared(desired)[r]]
        BY <3>1 DEF Pruned
      <4>2. kept \in SUBSET Servers /\ candidate \in [kept -> CatalogEntries]
        BY <2>1, <4>1
      <4>3. QED
        BY <4>2 DEF Catalogs
    <3>2. CASE ~ prune
      <4>1. candidate = Prepared(desired) /\ E \cup D \in SUBSET Servers
        BY <3>2 DEF Pruned
      <4>2. QED
        BY <2>1, <4>1 DEF Catalogs
    <3>3. QED
      BY <3>1, <3>2
  <2> HIDE DEF candidate
  <2>3. /\ catalog' = candidate /\ ~ Collides(candidate) /\ UNCHANGED <<offer, clientList>>
        /\ toolNotice' = (toolNotice \/ LocalizedTools(catalog) # LocalizedTools(candidate))
    BY <1>1 DEF ReconcileCatalog, NoticeList, NoticeIf, candidate
  <2>4. ~ Collides(catalog') /\ ClientsTold' /\ toolNotice' \in BOOLEAN
    BY <1>n, <2>3 DEF ClientsTold
  <2>5. QED
    BY <1>o, <2>2, <2>3, <2>4 DEF CatalogInv, Collides, Pairs, LocalizedTools
<1>2. ASSUME NEW s \in Servers, RefreshServer(s) PROVE CatalogInv'
  <2> DEFINE candidate == [catalog EXCEPT ![s].tools = offer[s]]
  <2>1. s \in D /\ UNCHANGED <<offer, clientList>>
    BY <1>0, <1>2 DEF RefreshServer
  <2>2. CASE UNCHANGED <<catalog, toolNotice>>
    BY <2>1, <2>2 DEF CatalogInv, ClientsTold, Collides, Pairs, LocalizedTools
  <2>3. CASE /\ catalog' = candidate /\ ~ Collides(candidate)
             /\ toolNotice' = (toolNotice \/ catalog[s].tools # offer[s])
    <3>1. candidate \in [D -> CatalogEntries]
      BY <1>0, <1>o, <2>1 DEF CatalogEntries, ToolSets
    <3>2. catalog' \in Catalogs /\ toolNotice' \in BOOLEAN
      BY <1>n, <2>3, <3>1 DEF Catalogs
    <3>3. CASE catalog[s].tools = offer[s]
      <4>1. candidate = catalog
        BY <1>0, <2>1, <3>3 DEF CatalogEntries
      <4>2. ClientsTold'
        BY <1>n, <2>1, <2>3, <3>3, <4>1 DEF ClientsTold
      <4>3. QED
        BY <1>o, <2>1, <2>3, <3>2, <4>2 DEF CatalogInv, Collides, Pairs, LocalizedTools
    <3>4. CASE catalog[s].tools # offer[s]
      <4>1. toolNotice'
        BY <2>3, <3>4
      <4>2. QED
        BY <1>o, <2>1, <2>3, <3>2, <4>1 DEF CatalogInv, ClientsTold, Collides, Pairs, LocalizedTools
    <3>5. QED
      BY <3>3, <3>4
  <2>4. QED
    BY <1>2, <2>2, <2>3 DEF RefreshServer, Acceptable, NoticeIf
<1>3. CASE TakeNotifications
  <2>1. UNCHANGED <<catalog, offer>> /\ toolNotice' \in BOOLEAN
    BY <1>3 DEF TakeNotifications
  <2>2. ClientsTold'
    BY <1>3 DEF TakeNotifications, ClientsTold, LocalizedTools, Pairs
  <2>3. QED
    BY <2>1, <2>2 DEF CatalogInv, Collides, Pairs, LocalizedTools
<1>4. ASSUME NEW s \in Servers, NEW o \in Offers \cup {Down}, OfferChanges(s, o) PROVE CatalogInv'
  BY <1>o, <1>4 DEF OfferChanges, CatalogInv, ClientsTold, Collides, Pairs, LocalizedTools
<1>5. CASE UNCHANGED catalogVars
  BY <1>5 DEF catalogVars, CatalogInv, ClientsTold, Collides, Pairs, LocalizedTools
<1>6. QED
  BY <1>1, <1>2, <1>3, <1>4, <1>5 DEF CatalogNext

-----------------------------------------------------------------------------
(* LocalRelay: the timers and the map of one id. *)

RelayStates == [enabled : BOOLEAN, timer : BOOLEAN, lapsed : BOOLEAN]
RelayTasks == [kind : Kinds \cup {"none"}, obj : 0 .. MaxStates, on : BOOLEAN,
               at : {"none", "refresh", "save"}]
\* A handler that will arm the timer of the mapped object.
WillArm(j) ==
  /\ lrJob[j].obj = lrMapped
  /\ \/ lrJob[j].kind = "update"
     \/ lrJob[j].kind \in {"enable", "auto", "first"} /\ lrJob[j].at = "refresh"
Warm ==
  lrMapped # 0 /\ lrObj[lrMapped].enabled =>
    lrObj[lrMapped].timer \/ lrObj[lrMapped].lapsed \/ \E j \in RelayJobs : WillArm(j)

LocalTypes ==
  /\ lrMapped \in 0 .. MaxStates /\ lrObj \in [Objects -> RelayStates]
  /\ lrJob \in [RelayJobs -> RelayTasks]
\* A handler has the object it will come back to.
TasksHaveObjects ==
  \A j \in RelayJobs :
    /\ lrJob[j].at = "refresh" => lrJob[j].obj \in Objects
    /\ lrJob[j].at = "save" /\ lrJob[j].kind \in {"add", "update"} => lrJob[j].obj \in Objects
    /\ lrJob[j].at = "none" => lrJob[j] = IdleJob

LocalRelayInv ==
  /\ LocalTypes /\ TasksHaveObjects
  /\ TimerMeansEnabled /\ Warm /\ ConfiguredIsServed

\* A server that is kept warm has a timer or a handler in flight.
LEMMA WarmIsKept == ASSUME LocalRelayInv PROVE KeptWarm
BY DEF LocalRelayInv, Warm, WillArm, KeptWarm

\* What an idle handler is.
LEMMA IdleShape ==
    /\ IdleJob \in RelayTasks
    /\ IdleJob.kind = "none" /\ IdleJob.obj = 0 /\ IdleJob.at = "none"
<1>1. 0 \in 0 .. MaxStates
  BY LocalRelayBounds
<1>2. QED
  BY <1>1 DEF IdleJob, RelayTasks

\* The first refresh of an enabled server is in flight at the start.
LEMMA LocalRelayStart == ASSUME LocalRelayInit PROVE LocalRelayInv
<1>1. MaxStates \in Nat /\ MaxStates >= 1 /\ 1 \in Objects /\ 1 \in 0 .. MaxStates /\ 0 \in 0 .. MaxStates
  BY LocalRelayBounds DEF Objects
<1>2. PICK k \in RelayJobs : k = CHOOSE x \in RelayJobs : TRUE
  BY LocalRelayBounds
<1> DEFINE first == [IdleJob EXCEPT !.kind = "first", !.obj = 1, !.at = "refresh"]
<1>3. first \in RelayTasks /\ first.obj = 1 /\ first.kind = "first" /\ first.at = "refresh"
  BY <1>1, IdleShape DEF RelayTasks, Kinds
<1>4. lrJob = [j \in RelayJobs |-> IF lrConfig = <<TRUE>> /\ j = k THEN first ELSE IdleJob]
  BY <1>2 DEF LocalRelayInit
<1> HIDE DEF first
<1>5. ASSUME NEW on \in BOOLEAN PROVE NewState(on) \in RelayStates /\ ~ NewState(on).timer /\ NewState(on).enabled = on
  BY DEF NewState, RelayStates
<1>6. CASE lrConfig = <<>>
  <2>1. lrMapped = 0 /\ lrConfig # <<TRUE>> /\ lrJob = [j \in RelayJobs |-> IdleJob]
    BY <1>4, <1>6 DEF LocalRelayInit
  <2>2. lrObj = [o \in Objects |-> NewState(FALSE)]
    BY <1>6 DEF LocalRelayInit
  <2>3. LocalTypes
    BY <1>1, <1>5, <1>6, <2>1, <2>2, IdleShape DEF LocalTypes
  <2>4. TasksHaveObjects
    BY <2>1, IdleShape DEF TasksHaveObjects
  <2>5. TimerMeansEnabled
    BY <1>5, <2>2 DEF TimerMeansEnabled
  <2>6. QED
    BY <1>6, <2>1, <2>3, <2>4, <2>5 DEF LocalRelayInv, Warm, ConfiguredIsServed
<1>7. CASE lrConfig # <<>>
  <2>1. PICK on \in BOOLEAN : lrConfig = <<on>>
    BY <1>7 DEF LocalRelayInit
  <2>2. lrConfig[Len(lrConfig)] = on /\ (lrConfig = <<TRUE>> <=> on = TRUE)
    <3>1. Len(<<on>>) = 1 /\ <<on>>[1] = on /\ <<TRUE>>[1] = TRUE
      OBVIOUS
    <3>2. QED
      BY <2>1, <3>1
  <2>3. lrMapped = 1 /\ lrObj = [o \in Objects |-> NewState(on)]
    BY <1>7, <2>2 DEF LocalRelayInit
  <2>4. LocalTypes
    BY <1>1, <1>3, <1>4, <1>5, <2>2, <2>3, IdleShape DEF LocalTypes
  <2>5. TasksHaveObjects
    BY <1>1, <1>3, <1>4, IdleShape DEF TasksHaveObjects
  <2>6. TimerMeansEnabled
    BY <1>5, <2>3 DEF TimerMeansEnabled
  <2>7. Warm
    <3>1. CASE on = TRUE
      BY <1>2, <1>3, <1>4, <2>2, <2>3, <3>1 DEF Warm, WillArm
    <3>2. CASE on = FALSE
      BY <1>1, <1>5, <2>3, <3>2 DEF Warm
    <3>3. QED
      BY <3>1, <3>2
  <2>8. QED
    BY <2>3, <2>4, <2>5, <2>6, <2>7 DEF LocalRelayInv, ConfiguredIsServed
<1>8. QED
  BY <1>6, <1>7

\* A task replaced in the table of one handler.
LEMMA TaskChange ==
    ASSUME LocalRelayInv, NEW j \in RelayJobs, NEW v \in RelayTasks,
           v.at = "refresh" => v.obj \in Objects,
           v.at = "save" /\ v.kind \in {"add", "update"} => v.obj \in Objects,
           v.at = "none" => v = IdleJob,
           lrJob' = [lrJob EXCEPT ![j] = v]
    PROVE  /\ lrJob' \in [RelayJobs -> RelayTasks] /\ TasksHaveObjects'
           /\ lrJob'[j] = v /\ \A k \in RelayJobs \ {j} : lrJob'[k] = lrJob[k]
<1>1. lrJob \in [RelayJobs -> RelayTasks] /\ TasksHaveObjects
  BY DEF LocalRelayInv, LocalTypes
<1>2. /\ lrJob' \in [RelayJobs -> RelayTasks]
      /\ lrJob'[j] = v /\ \A k \in RelayJobs \ {j} : lrJob'[k] = lrJob[k]
  BY <1>1
<1>3. TasksHaveObjects'
  BY <1>1, <1>2 DEF TasksHaveObjects
<1>4. QED
  BY <1>2, <1>3

\* A handler that ends, or goes on to save.
LEMMA TaskEnds ==
    ASSUME LocalRelayInv, NEW j \in RelayJobs
    PROVE  /\ Ends(j) => /\ lrJob' \in [RelayJobs -> RelayTasks] /\ TasksHaveObjects'
                         /\ \A k \in RelayJobs \ {j} : lrJob'[k] = lrJob[k]
           /\ Saves(j) /\ lrJob[j].at = "refresh" =>
                         /\ lrJob' \in [RelayJobs -> RelayTasks] /\ TasksHaveObjects'
                         /\ lrJob'[j].at = "save" /\ lrJob'[j].kind = lrJob[j].kind
                         /\ lrJob'[j].obj = lrJob[j].obj
                         /\ \A k \in RelayJobs \ {j} : lrJob'[k] = lrJob[k]
<1>1. ASSUME Ends(j)
      PROVE  /\ lrJob' \in [RelayJobs -> RelayTasks] /\ TasksHaveObjects'
             /\ \A k \in RelayJobs \ {j} : lrJob'[k] = lrJob[k]
  <2>1. lrJob' = [lrJob EXCEPT ![j] = IdleJob]
    BY <1>1 DEF Ends
  <2>2. QED
    BY <2>1, IdleShape, TaskChange
<1>2. ASSUME Saves(j), lrJob[j].at = "refresh"
      PROVE  /\ lrJob' \in [RelayJobs -> RelayTasks] /\ TasksHaveObjects'
             /\ lrJob'[j].at = "save" /\ lrJob'[j].kind = lrJob[j].kind
             /\ lrJob'[j].obj = lrJob[j].obj
             /\ \A k \in RelayJobs \ {j} : lrJob'[k] = lrJob[k]
  <2> DEFINE v == [lrJob[j] EXCEPT !.at = "save"]
  <2>1. lrJob[j] \in RelayTasks /\ lrJob[j].obj \in Objects /\ lrJob \in [RelayJobs -> RelayTasks]
    BY <1>2 DEF LocalRelayInv, LocalTypes, TasksHaveObjects
  <2>2. v \in RelayTasks /\ v.at = "save" /\ v.kind = lrJob[j].kind /\ v.obj = lrJob[j].obj
    BY <2>1 DEF RelayTasks
  <2>3. lrJob' = [lrJob EXCEPT ![j] = v]
    BY <1>2, <2>1 DEF Saves
  <2> HIDE DEF v
  <2>4. v.at # "none" /\ v.at # "refresh"
    BY <2>2
  <2>5. QED
    BY <2>1, <2>2, <2>3, <2>4, TaskChange
<1>3. QED
  BY <1>1, <1>2

\* An idle handler that begins with an object.
LEMMA TaskBegins ==
    ASSUME LocalRelayInv, NEW j \in RelayJobs, NEW kind \in Kinds, NEW o \in Objects, NEW on \in BOOLEAN,
           Begin(j, kind, o, on, "refresh")
    PROVE  /\ lrJob' \in [RelayJobs -> RelayTasks] /\ TasksHaveObjects'
           /\ lrJob'[j].kind = kind /\ lrJob'[j].obj = o /\ lrJob'[j].at = "refresh"
           /\ \A k \in RelayJobs \ {j} : lrJob'[k] = lrJob[k]
<1> DEFINE v == [kind |-> kind, obj |-> o, on |-> on, at |-> "refresh"]
<1>0. o \in 0 .. MaxStates
  BY LocalRelayBounds DEF Objects
<1>1. v \in RelayTasks /\ v.kind = kind /\ v.obj = o /\ v.at = "refresh"
  BY <1>0 DEF RelayTasks
<1>2. lrJob' = [lrJob EXCEPT ![j] = v]
  BY DEF Begin
<1> HIDE DEF v
<1>3. v.at # "none" /\ v.at # "save"
  BY <1>1
<1>4. QED
  BY <1>1, <1>2, <1>3, TaskChange

\* An idle handler that only saves.
LEMMA TaskSavesOnly ==
    ASSUME LocalRelayInv, NEW j \in RelayJobs, NEW kind \in {"remove", "disable"},
           lrJob' = [lrJob EXCEPT ![j] = [IdleJob EXCEPT !.kind = kind, !.at = "save"]]
    PROVE  /\ lrJob' \in [RelayJobs -> RelayTasks] /\ TasksHaveObjects'
           /\ \A k \in RelayJobs \ {j} : lrJob'[k] = lrJob[k]
<1> DEFINE v == [IdleJob EXCEPT !.kind = kind, !.at = "save"]
<1>1. v \in RelayTasks /\ v.kind = kind /\ v.at = "save"
  BY IdleShape DEF RelayTasks, Kinds
<1> HIDE DEF v
<1>2. lrJob' = [lrJob EXCEPT ![j] = v]
  BY DEF v
<1>3. v.at # "none" /\ v.at # "refresh" /\ v.kind \notin {"add", "update"}
  BY <1>1
<1>4. QED
  BY <1>1, <1>2, <1>3, TaskChange

\* The timer of a scheduled object runs exactly when it is enabled.
LEMMA ScheduledShape ==
    ASSUME NEW s \in RelayStates
    PROVE  /\ Scheduled(s) \in RelayStates
           /\ Scheduled(s).enabled = s.enabled /\ Scheduled(s).timer = s.enabled
BY DEF Scheduled, RelayStates

\* Handlers and timers interleave without leaving a server cold, a disabled
\* one warm, or a configured one out of the map.
LEMMA LocalRelayKeeps ==
    ASSUME LocalRelayInv, [LocalRelayNext]_lrVars
    PROVE  LocalRelayInv'
<1>0. /\ lrMapped \in 0 .. MaxStates /\ lrObj \in [Objects -> RelayStates]
      /\ lrJob \in [RelayJobs -> RelayTasks] /\ TasksHaveObjects
  BY DEF LocalRelayInv, LocalTypes
<1>m. lrMapped # 0 => lrMapped \in Objects
  BY <1>0, LocalRelayBounds DEF Objects
<1>z. \A o \in Objects : o # 0 /\ o \in 0 .. MaxStates
  BY LocalRelayBounds DEF Objects
<1>s. \A o \in Objects : lrObj[o] \in RelayStates /\ lrObj[o].enabled \in BOOLEAN /\ lrObj[o].timer \in BOOLEAN
  BY <1>0 DEF RelayStates
<1>n. \A on \in BOOLEAN : NewState(on) \in RelayStates /\ ~ NewState(on).timer
  BY DEF NewState, RelayStates
<1>t. \A o \in Objects : lrObj[o].timer => lrObj[o].enabled
  BY DEF LocalRelayInv, TimerMeansEnabled
<1>i. ASSUME NEW j \in RelayJobs, IdleState(j)
      PROVE  ~ WillArm(j) /\ lrJob[j].kind # "add" /\ lrJob[j].at = "none"
  <2>1. lrJob[j].kind = "none" /\ lrJob[j].at = "none"
    BY <1>i, IdleShape DEF IdleState
  <2>2. QED
    BY <2>1 DEF WillArm
<1>e. ASSUME NEW on \in BOOLEAN, [i \in DOMAIN lrConfig |-> on] # <<>> PROVE lrConfig # <<>>
  BY <1>e
<1>1. ASSUME NEW j \in RelayJobs, AddServer(j) PROVE LocalRelayInv'
  <2>1. PICK on \in BOOLEAN, o \in Objects :
          lrObj' = [lrObj EXCEPT ![o] = NewState(on)] /\ Begin(j, "add", o, on, "refresh")
    BY <1>1 DEF AddServer, Unused
  <2>2. /\ lrJob' \in [RelayJobs -> RelayTasks] /\ TasksHaveObjects'
        /\ \A k \in RelayJobs \ {j} : lrJob'[k] = lrJob[k]
    BY <2>1, TaskBegins DEF Kinds
  <2>3. IdleState(j) /\ lrMapped = 0 /\ UNCHANGED <<lrMapped, lrConfig, lrFailed>>
    BY <1>1 DEF AddServer
  <2>4. LocalTypes' /\ TimerMeansEnabled'
    BY <1>0, <1>n, <1>t, <2>1, <2>2, <2>3 DEF LocalTypes, TimerMeansEnabled
  <2>5. ConfiguredIsServed'
    BY <1>i, <2>2, <2>3 DEF LocalRelayInv, ConfiguredIsServed
  <2>6. QED
    BY <2>2, <2>3, <2>4, <2>5 DEF LocalRelayInv, Warm
<1>2. ASSUME NEW j \in RelayJobs, UpdateServer(j) PROVE LocalRelayInv'
  <2>1. PICK on \in BOOLEAN :
          lrObj' = [lrObj EXCEPT ![lrMapped] = NewState(on)] /\ Begin(j, "update", lrMapped, on, "refresh")
    BY <1>2 DEF UpdateServer
  <2>2. lrMapped \in Objects /\ lrMapped # 0 /\ UNCHANGED <<lrMapped, lrConfig, lrFailed>>
    BY <1>2, <1>m DEF UpdateServer
  <2>3. /\ lrJob' \in [RelayJobs -> RelayTasks] /\ TasksHaveObjects'
        /\ lrJob'[j].kind = "update" /\ lrJob'[j].obj = lrMapped
    BY <2>1, <2>2, TaskBegins DEF Kinds
  <2>4. LocalTypes' /\ TimerMeansEnabled'
    BY <1>0, <1>n, <1>t, <2>1, <2>2, <2>3 DEF LocalTypes, TimerMeansEnabled
  <2>5. QED
    BY <2>2, <2>3, <2>4 DEF LocalRelayInv, Warm, WillArm, ConfiguredIsServed
<1>3. ASSUME NEW j \in RelayJobs, RemoveServer(j) PROVE LocalRelayInv'
  <2> DEFINE new == [lrObj[lrMapped] EXCEPT !.timer = FALSE]
  <2>1. /\ lrMapped' = 0 /\ lrConfig' = <<>> /\ lrMapped \in Objects
        /\ lrObj' = [lrObj EXCEPT ![lrMapped] = new]
    BY <1>0, <1>3, <1>m DEF RemoveServer
  <2>2. lrJob' \in [RelayJobs -> RelayTasks] /\ TasksHaveObjects'
    BY <1>3, TaskSavesOnly DEF RemoveServer
  <2>3. new \in RelayStates /\ ~ new.timer
    BY <1>s, <2>1 DEF RelayStates
  <2> HIDE DEF new
  <2>4. lrMapped' \in 0 .. MaxStates
    BY <2>1, LocalRelayBounds
  <2>5. LocalTypes' /\ TimerMeansEnabled'
    BY <1>0, <1>t, <2>1, <2>2, <2>3, <2>4 DEF LocalTypes, TimerMeansEnabled
  <2>6. QED
    BY <2>1, <2>2, <2>5 DEF LocalRelayInv, Warm, ConfiguredIsServed
<1>4. ASSUME NEW j \in RelayJobs, NEW on \in BOOLEAN, SetEnabled(j, on) PROVE LocalRelayInv'
  <2> DEFINE new == [lrObj[lrMapped] EXCEPT !.enabled = on, !.timer = on /\ @]
  <2>1. /\ lrMapped \in Objects /\ lrMapped # 0 /\ UNCHANGED <<lrMapped, lrFailed>> /\ IdleState(j)
        /\ lrConfig' = [i \in DOMAIN lrConfig |-> on]
    BY <1>4, <1>m DEF SetEnabled
  <2>2. lrObj' = [lrObj EXCEPT ![lrMapped] = new]
    BY <1>0, <1>4, <2>1 DEF SetEnabled
  <2>3. new \in RelayStates /\ new.enabled = on /\ new.timer = (on /\ lrObj[lrMapped].timer)
    BY <1>s, <2>1 DEF RelayStates
  <2> HIDE DEF new
  <2>4. TimerMeansEnabled' /\ lrObj' \in [Objects -> RelayStates] /\ lrObj'[lrMapped] = new
    BY <1>0, <1>t, <2>1, <2>2, <2>3 DEF TimerMeansEnabled
  <2>5. CASE on
    <3>1. Begin(j, "enable", lrMapped, TRUE, "refresh")
      BY <1>4, <2>5 DEF SetEnabled
    <3>2. /\ lrJob' \in [RelayJobs -> RelayTasks] /\ TasksHaveObjects'
          /\ lrJob'[j].kind = "enable" /\ lrJob'[j].obj = lrMapped /\ lrJob'[j].at = "refresh"
      BY <2>1, <3>1, TaskBegins DEF Kinds
    <3>3. WillArm(j)'
      BY <2>1, <3>2 DEF WillArm
    <3>4. QED
      BY <1>0, <2>1, <2>4, <3>2, <3>3 DEF LocalRelayInv, LocalTypes, Warm, ConfiguredIsServed
  <2>6. CASE ~ on
    <3>1. lrJob' \in [RelayJobs -> RelayTasks] /\ TasksHaveObjects'
      BY <1>4, <2>6, TaskSavesOnly DEF SetEnabled
    <3>2. ~ lrObj'[lrMapped].enabled
      BY <2>3, <2>4, <2>6
    <3>3. QED
      BY <1>0, <2>1, <2>4, <3>1, <3>2 DEF LocalRelayInv, LocalTypes, Warm, ConfiguredIsServed
  <2>7. QED
    BY <2>5, <2>6
<1>5. ASSUME NEW j \in RelayJobs, NEW o \in Objects, AutoRefresh(j, o) PROVE LocalRelayInv'
  <2> DEFINE new == [lrObj[o] EXCEPT !.timer = FALSE]
  <2>1. IdleState(j) /\ UNCHANGED <<lrMapped, lrConfig, lrFailed>> /\ lrObj' = [lrObj EXCEPT ![o] = new]
    BY <1>0, <1>5 DEF AutoRefresh
  <2>2. new \in RelayStates /\ ~ new.timer /\ new.enabled = lrObj[o].enabled
    BY <1>s DEF RelayStates
  <2> HIDE DEF new
  <2>3. /\ TimerMeansEnabled' /\ lrObj' \in [Objects -> RelayStates] /\ lrObj'[o] = new
        /\ \A p \in Objects : p # o => lrObj'[p] = lrObj[p]
    BY <1>0, <1>t, <2>1, <2>2 DEF TimerMeansEnabled
  <2>4. CASE lrMapped = o /\ lrObj[o].enabled
    <3>1. Begin(j, "auto", o, TRUE, "refresh")
      BY <1>5, <2>4 DEF AutoRefresh
    <3>2. /\ lrJob' \in [RelayJobs -> RelayTasks] /\ TasksHaveObjects'
          /\ lrJob'[j].kind = "auto" /\ lrJob'[j].obj = o /\ lrJob'[j].at = "refresh"
      BY <3>1, TaskBegins DEF Kinds
    <3>3. WillArm(j)'
      BY <2>1, <2>4, <3>2 DEF WillArm
    <3>4. lrMapped # 0
      BY <1>z, <2>4
    <3>5. QED
      BY <1>0, <2>1, <2>3, <3>2, <3>3, <3>4 DEF LocalRelayInv, LocalTypes, Warm, ConfiguredIsServed
  <2>5. CASE ~ (lrMapped = o /\ lrObj[o].enabled)
    <3>1. lrJob' = lrJob
      BY <1>5, <2>5 DEF AutoRefresh
    <3>2. Warm'
      <4>1. CASE lrMapped = o
        BY <2>1, <2>2, <2>3, <2>5, <4>1 DEF Warm
      <4>2. CASE lrMapped # o
        BY <1>m, <2>1, <2>3, <3>1, <4>2 DEF LocalRelayInv, Warm, WillArm
      <4>3. QED
        BY <4>1, <4>2
    <3>3. QED
      BY <1>0, <2>1, <2>3, <3>1, <3>2 DEF LocalRelayInv, LocalTypes, TasksHaveObjects, ConfiguredIsServed
  <2>6. QED
    BY <2>4, <2>5
<1>6. ASSUME NEW j \in RelayJobs, ListedTools(j) PROVE LocalRelayInv'
  <2>1. /\ lrJob[j].at = "refresh" /\ lrJob[j].kind \in {"add", "update"}
        /\ Saves(j) /\ UNCHANGED <<lrMapped, lrObj, lrFailed>>
    BY <1>6 DEF ListedTools
  <2>2. /\ lrJob' \in [RelayJobs -> RelayTasks] /\ TasksHaveObjects'
        /\ lrJob'[j].at = "save" /\ lrJob'[j].kind = lrJob[j].kind
        /\ lrJob'[j].obj = lrJob[j].obj
        /\ \A k \in RelayJobs \ {j} : lrJob'[k] = lrJob[k]
    BY <2>1, TaskEnds
  <2>3. LocalTypes' /\ TimerMeansEnabled'
    BY <1>0, <2>1, <2>2 DEF LocalTypes, TimerMeansEnabled, LocalRelayInv
  <2>4. \A k \in RelayJobs : WillArm(k) => WillArm(k)'
    BY <2>1, <2>2 DEF WillArm
  <2>5. Warm'
    BY <2>1, <2>4 DEF LocalRelayInv, Warm
  <2>6. ConfiguredIsServed'
    <3>1. CASE lrJob[j].kind = "add"
      BY <2>2, <3>1 DEF ConfiguredIsServed
    <3>2. CASE lrJob[j].kind = "update"
      <4>1. lrConfig' = [i \in DOMAIN lrConfig |-> lrJob[j].on]
        BY <1>6, <3>2 DEF ListedTools
      <4>2. lrJob[j].on \in BOOLEAN
        BY <1>0 DEF RelayTasks
      <4>3. lrConfig' # <<>> => lrConfig # <<>>
        BY <1>e, <4>1, <4>2
      <4>4. lrJob[j].kind # "add"
        BY <3>2
      <4>5. QED
        BY <2>1, <2>2, <4>3, <4>4 DEF LocalRelayInv, ConfiguredIsServed
    <3>3. QED
      BY <2>1, <3>1, <3>2
  <2>7. QED
    BY <2>2, <2>3, <2>5, <2>6 DEF LocalRelayInv
<1>7. ASSUME NEW j \in RelayJobs, ListFails(j) PROVE LocalRelayInv'
  <2>1. /\ lrJob[j].at = "refresh" /\ lrJob[j].kind \in {"add", "update"} /\ lrJob[j].obj \in Objects
        /\ Ends(j) /\ UNCHANGED <<lrMapped, lrConfig, lrFailed>>
    BY <1>0, <1>7 DEF ListFails, TasksHaveObjects
  <2>2. /\ lrJob' \in [RelayJobs -> RelayTasks] /\ TasksHaveObjects'
        /\ \A k \in RelayJobs \ {j} : lrJob'[k] = lrJob[k]
    BY <2>1, TaskEnds
  <2>3. ConfiguredIsServed'
    BY <2>1, <2>2 DEF LocalRelayInv, ConfiguredIsServed
  <2>4. \A k \in RelayJobs \ {j} : WillArm(k) => WillArm(k)'
    BY <2>1, <2>2 DEF WillArm
  <2>5. CASE lrJob[j].kind = "add"
    <3>1. lrObj' = lrObj /\ ~ WillArm(j)
      BY <1>7, <2>5 DEF ListFails, WillArm
    <3>2. Warm'
      BY <2>1, <2>4, <3>1 DEF LocalRelayInv, Warm
    <3>3. QED
      BY <1>0, <2>1, <2>2, <2>3, <3>1, <3>2 DEF LocalRelayInv, LocalTypes, TimerMeansEnabled
  <2>6. CASE lrJob[j].kind = "update"
    <3> DEFINE o == lrJob[j].obj
               new == [lrObj[o] EXCEPT !.lapsed = TRUE]
    <3>1. lrObj' = [lrObj EXCEPT ![o] = new]
      BY <1>0, <1>7, <2>1, <2>6 DEF ListFails
    <3>2. /\ new \in RelayStates /\ new.lapsed /\ new.timer = lrObj[o].timer
          /\ new.enabled = lrObj[o].enabled
      BY <1>s, <2>1 DEF RelayStates
    <3> HIDE DEF new
    <3>3. /\ TimerMeansEnabled' /\ lrObj' \in [Objects -> RelayStates] /\ lrObj'[o] = new
          /\ \A p \in Objects : p # o => lrObj'[p] = lrObj[p]
      BY <1>0, <1>t, <2>1, <3>1, <3>2 DEF TimerMeansEnabled
    <3>4. Warm'
      <4>1. CASE lrMapped = o
        BY <2>1, <3>2, <3>3, <4>1 DEF Warm
      <4>2. CASE lrMapped # o
        <5>1. ~ WillArm(j)
          BY <4>2 DEF WillArm
        <5>2. QED
          BY <1>m, <2>1, <2>4, <3>3, <4>2, <5>1 DEF LocalRelayInv, Warm
      <4>3. QED
        BY <4>1, <4>2
    <3>5. QED
      BY <1>0, <2>1, <2>2, <2>3, <3>3, <3>4 DEF LocalRelayInv, LocalTypes
  <2>7. QED
    BY <2>1, <2>5, <2>6
<1>8. ASSUME NEW j \in RelayJobs, Refreshed(j) PROVE LocalRelayInv'
  <2> DEFINE o == lrJob[j].obj
             new == Scheduled(lrObj[o])
  <2>1. /\ lrJob[j].at = "refresh" /\ lrJob[j].kind \in {"enable", "auto", "first"} /\ o \in Objects
        /\ Ends(j) \/ Saves(j)
        /\ UNCHANGED <<lrMapped, lrConfig, lrFailed>>
    BY <1>0, <1>8 DEF Refreshed, TasksHaveObjects
  <2>2. /\ lrJob' \in [RelayJobs -> RelayTasks] /\ TasksHaveObjects'
        /\ \A k \in RelayJobs \ {j} : lrJob'[k] = lrJob[k]
    BY <2>1, TaskEnds
  <2>3. ConfiguredIsServed'
    <3>1. lrJob[j].kind # "add"
      BY <2>1
    <3>2. QED
      BY <2>1, <2>2, <3>1 DEF LocalRelayInv, ConfiguredIsServed
  <2>4. \A k \in RelayJobs \ {j} : WillArm(k) => WillArm(k)'
    BY <2>1, <2>2 DEF WillArm
  <2>5. CASE lrObj' = lrObj /\ lrMapped # o
    <3>1. ~ WillArm(j)
      BY <2>5 DEF WillArm
    <3>2. Warm'
      BY <2>1, <2>4, <2>5, <3>1 DEF LocalRelayInv, Warm
    <3>3. QED
      BY <1>0, <2>1, <2>2, <2>3, <2>5, <3>2 DEF LocalRelayInv, LocalTypes, TimerMeansEnabled
  <2>6. CASE lrObj' = [lrObj EXCEPT ![o] = new]
    <3>1. new \in RelayStates /\ new.enabled = lrObj[o].enabled /\ new.timer = lrObj[o].enabled
      BY <1>s, <2>1, ScheduledShape
    <3> HIDE DEF new
    <3>2. /\ TimerMeansEnabled' /\ lrObj' \in [Objects -> RelayStates] /\ lrObj'[o] = new
          /\ \A p \in Objects : p # o => lrObj'[p] = lrObj[p]
      BY <1>0, <1>t, <2>1, <2>6, <3>1 DEF TimerMeansEnabled
    <3>3. Warm'
      <4>1. CASE lrMapped = o
        BY <2>1, <3>1, <3>2, <4>1 DEF Warm
      <4>2. CASE lrMapped # o
        <5>1. ~ WillArm(j)
          BY <4>2 DEF WillArm
        <5>2. QED
          BY <1>m, <2>1, <2>4, <3>2, <4>2, <5>1 DEF LocalRelayInv, Warm
      <4>3. QED
        BY <4>1, <4>2
    <3>4. QED
      BY <1>0, <2>1, <2>2, <2>3, <3>2, <3>3 DEF LocalRelayInv, LocalTypes
  <2>7. QED
    BY <1>8, <2>5, <2>6 DEF Refreshed
<1>9. ASSUME NEW j \in RelayJobs, Saved(j) PROVE LocalRelayInv'
  <2> DEFINE o == lrJob[j].obj
             new == Scheduled(lrObj[o])
  <2>1. lrJob[j].at = "save" /\ Ends(j) /\ UNCHANGED <<lrConfig, lrFailed>>
    BY <1>9 DEF Saved
  <2>2. /\ lrJob' \in [RelayJobs -> RelayTasks] /\ TasksHaveObjects'
        /\ \A k \in RelayJobs \ {j} : lrJob'[k] = lrJob[k]
    BY <2>1, TaskEnds
  <2>3. CASE lrJob[j].kind \in {"add", "update"}
    <3>1. o \in Objects /\ lrObj' = [lrObj EXCEPT ![o] = new]
      BY <1>0, <1>9, <2>1, <2>3 DEF Saved, TasksHaveObjects
    <3>2. new \in RelayStates /\ new.enabled = lrObj[o].enabled /\ new.timer = lrObj[o].enabled
      BY <1>s, <3>1, ScheduledShape
    <3> HIDE DEF new
    <3>3. /\ TimerMeansEnabled' /\ lrObj' \in [Objects -> RelayStates] /\ lrObj'[o] = new
          /\ \A p \in Objects : p # o => lrObj'[p] = lrObj[p]
      BY <1>0, <1>t, <3>1, <3>2 DEF TimerMeansEnabled
    <3>4. CASE lrJob[j].kind = "add"
      <4>1. lrMapped' = o /\ o # 0 /\ o \in 0 .. MaxStates
        BY <1>9, <1>z, <3>1, <3>4 DEF Saved
      <4>2. QED
        BY <2>2, <3>2, <3>3, <4>1 DEF LocalRelayInv, LocalTypes, Warm, ConfiguredIsServed
    <3>5. CASE lrJob[j].kind = "update"
      <4>1. lrMapped' = lrMapped /\ lrJob[j].kind # "add"
        BY <1>9, <3>5 DEF Saved
      <4>2. \A k \in RelayJobs \ {j} : WillArm(k) => WillArm(k)'
        BY <2>2, <4>1 DEF WillArm
      <4>3. Warm'
        <5>1. CASE lrMapped = o
          BY <3>2, <3>3, <4>1, <5>1 DEF Warm
        <5>2. CASE lrMapped # o
          <6>1. ~ WillArm(j)
            BY <5>2 DEF WillArm
          <6>2. QED
            BY <1>m, <3>3, <4>1, <4>2, <5>2, <6>1 DEF LocalRelayInv, Warm
        <5>3. QED
          BY <5>1, <5>2
      <4>4. ConfiguredIsServed'
        BY <2>1, <2>2, <4>1 DEF LocalRelayInv, ConfiguredIsServed
      <4>5. QED
        BY <1>0, <2>2, <3>3, <4>1, <4>3, <4>4 DEF LocalRelayInv, LocalTypes
    <3>6. QED
      BY <2>3, <3>4, <3>5
  <2>4. CASE lrJob[j].kind \notin {"add", "update"}
    <3>1. lrObj' = lrObj /\ lrMapped' = lrMapped
      BY <1>9, <2>4 DEF Saved
    <3>2. ~ WillArm(j) /\ lrJob[j].kind # "add"
      BY <2>1, <2>4 DEF WillArm
    <3>3. \A k \in RelayJobs \ {j} : WillArm(k) => WillArm(k)'
      BY <2>2, <3>1 DEF WillArm
    <3>4. Warm'
      BY <3>1, <3>2, <3>3 DEF LocalRelayInv, Warm
    <3>5. ConfiguredIsServed'
      BY <2>1, <2>2, <3>1, <3>2 DEF LocalRelayInv, ConfiguredIsServed
    <3>6. QED
      BY <1>0, <2>2, <3>1, <3>4, <3>5 DEF LocalRelayInv, LocalTypes, TimerMeansEnabled
  <2>5. QED
    BY <2>3, <2>4
<1>10. ASSUME NEW j \in RelayJobs, SaveFails(j) PROVE LocalRelayInv'
  <2> DEFINE o == lrJob[j].obj
             new == [lrObj[o] EXCEPT !.lapsed = TRUE]
  <2>1. lrJob[j].at = "save" /\ Ends(j) /\ lrFailed' = TRUE /\ UNCHANGED <<lrMapped, lrConfig>>
    BY <1>10 DEF SaveFails
  <2>2. /\ lrJob' \in [RelayJobs -> RelayTasks] /\ TasksHaveObjects'
        /\ \A k \in RelayJobs \ {j} : lrJob'[k] = lrJob[k]
    BY <2>1, TaskEnds
  <2>3. ConfiguredIsServed'
    BY <2>1 DEF ConfiguredIsServed
  <2>4. \A k \in RelayJobs \ {j} : WillArm(k) => WillArm(k)'
    BY <2>1, <2>2 DEF WillArm
  <2>5. CASE lrJob[j].kind = "update"
    <3>1. o \in Objects /\ lrObj' = [lrObj EXCEPT ![o] = new]
      BY <1>0, <1>10, <2>1, <2>5 DEF SaveFails, TasksHaveObjects
    <3>2. /\ new \in RelayStates /\ new.lapsed /\ new.timer = lrObj[o].timer
          /\ new.enabled = lrObj[o].enabled
      BY <1>s, <3>1 DEF RelayStates
    <3> HIDE DEF new
    <3>3. /\ TimerMeansEnabled' /\ lrObj' \in [Objects -> RelayStates] /\ lrObj'[o] = new
          /\ \A p \in Objects : p # o => lrObj'[p] = lrObj[p]
      BY <1>0, <1>t, <3>1, <3>2 DEF TimerMeansEnabled
    <3>4. Warm'
      <4>1. CASE lrMapped = o
        BY <2>1, <3>2, <3>3, <4>1 DEF Warm
      <4>2. CASE lrMapped # o
        <5>1. ~ WillArm(j)
          BY <4>2 DEF WillArm
        <5>2. QED
          BY <1>m, <2>1, <2>4, <3>3, <4>2, <5>1 DEF LocalRelayInv, Warm
      <4>3. QED
        BY <4>1, <4>2
    <3>5. QED
      BY <1>0, <2>1, <2>2, <2>3, <3>3, <3>4 DEF LocalRelayInv, LocalTypes
  <2>6. CASE lrJob[j].kind # "update"
    <3>1. lrObj' = lrObj /\ ~ WillArm(j)
      BY <1>10, <2>1, <2>6 DEF SaveFails, WillArm
    <3>2. Warm'
      BY <2>1, <2>4, <3>1 DEF LocalRelayInv, Warm
    <3>3. QED
      BY <1>0, <2>1, <2>2, <2>3, <3>1, <3>2 DEF LocalRelayInv, LocalTypes, TimerMeansEnabled
  <2>7. QED
    BY <2>5, <2>6
<1>11. CASE UNCHANGED lrVars
  BY <1>11 DEF lrVars, LocalRelayInv, LocalTypes, TasksHaveObjects, TimerMeansEnabled, Warm, WillArm,
     ConfiguredIsServed
<1>12. QED
  BY <1>1, <1>2, <1>3, <1>4, <1>5, <1>6, <1>7, <1>8, <1>9, <1>10, <1>11 DEF LocalRelayNext

-----------------------------------------------------------------------------
(* Snapshots: the restore of a snapshot over a live database. *)

RestoreWork == {"planned", "staged", "prepared", "stop", "remove", "install", "swapped",
  "verify", "start", "done", "undo", "undo_remove", "undo_install", "undo_start",
  "redo", "redo_remove", "redo_install", "redo_start"}
Resuming == [pc |-> "recover"]
AtWork == [pc : RestoreWork, run : Runs]

\* A run that start-up will roll back, and that can be rolled back.
Undoable(r) == receipt[r] \in {"swapping", "swapped"} /\ preimage[r] # NoImage

\* A run keeps its preimage and an undoable receipt from the stop of the
\* service on; the file is only missing where the next step, or start-up, puts
\* one there.
RestoreInv ==
  /\ live \in Contents \cup {Gone} /\ service \in BOOLEAN
  /\ receipt \in [Runs -> RestoreStates]
  /\ preimage \in [Runs -> Contents \cup {NoImage}]
  /\ restorer \in {Awake, Stopped, Resuming} \cup AtWork
  /\ service => live # Gone
  /\ live = Gone =>
       /\ \E r \in Runs : Undoable(r)
       /\ restorer.pc \in {"install", "undo_install", "off", "recover", "redo", "redo_remove", "redo_install"}
  /\ restorer.pc = "prepared" => preimage[restorer.run] # NoImage
  /\ restorer.pc \in {"stop", "remove", "install", "swapped", "verify", "start", "done",
                      "undo", "undo_remove", "undo_install"} => Undoable(restorer.run)
  /\ restorer.pc \in {"recover", "redo", "redo_remove", "redo_install", "redo_start"} =>
       \A r \in Runs : receipt[r] # "plan_only"
  /\ restorer.pc \in {"redo", "redo_remove", "redo_install"} => receipt[restorer.run] \in {"swapping", "swapped"}
  /\ restorer.pc \in {"redo_remove", "redo_install"} => preimage[restorer.run] # NoImage
  /\ restorer.pc \in {"remove", "install", "undo_remove", "undo_install", "redo_remove", "redo_install"} => ~service

\* There is a database at first, and its service runs.
LEMMA RestoreStart == ASSUME RestoreInit PROVE RestoreInv
BY RestoreRuns DEF RestoreInit, RestoreInv, Runs, Awake, Gone, NoImage, RestoreStates

\* What the invariant says of the properties.
LEMMA RestoreSafe == ASSUME RestoreInv
  PROVE RestoreTypeOK /\ MissingRecoverable /\ RunningHasDatabase /\ ServingHasDatabase
<1>1. RestoreTypeOK
  BY DEF RestoreInv, RestoreTypeOK, Awake, Stopped, Resuming, AtWork
<1>2. MissingRecoverable
  BY DEF RestoreInv, MissingRecoverable, Undoable, Unfinished
<1>3. RunningHasDatabase
  BY DEF RestoreInv, RunningHasDatabase
<1>4. ServingHasDatabase
  BY DEF RestoreInv, ServingHasDatabase, Awake
<1>5. QED
  BY <1>1, <1>2, <1>3, <1>4

\* Each step of a restore keeps it.
LEMMA RestoreStep == ASSUME RestoreInv, [RestoreNext]_restoreVars PROVE RestoreInv'
<1> USE DEF Runs, At, Awake, Stopped, Resuming, Gone, NoImage, AtWork
<1>m. Gone \notin Contents /\ NoImage \notin Contents
  BY RestoreRuns
<1>1. ASSUME NEW r \in Runs, WritePlan(r) PROVE RestoreInv'
  BY <1>m, <1>1, RestoreRuns DEF WritePlan, Write, RestoreInv, Undoable, RestoreStates, RestoreWork, Unfinished
<1>2. ASSUME NEW r \in Runs, WritePlanned(r) PROVE RestoreInv'
  BY <1>m, <1>2, RestoreRuns DEF WritePlanned, Write, RestoreInv, Undoable, RestoreStates, RestoreWork, Unfinished
<1>3. ASSUME NEW r \in Runs, KeepPreimage(r) PROVE RestoreInv'
  BY <1>m, <1>3, RestoreRuns DEF KeepPreimage, Write, RestoreInv, Undoable, RestoreStates, RestoreWork, Unfinished
<1>4. ASSUME NEW r \in Runs, StagingFails(r) PROVE RestoreInv'
  BY <1>m, <1>4, RestoreRuns DEF StagingFails, Write, RestoreInv, Undoable, RestoreStates, RestoreWork, Unfinished
<1>5. ASSUME NEW r \in Runs, WriteSwapping(r) PROVE RestoreInv'
  BY <1>m, <1>5, RestoreRuns DEF WriteSwapping, Write, RestoreInv, Undoable, RestoreStates, RestoreWork, Unfinished
<1>6. ASSUME NEW r \in Runs, StopService(r) PROVE RestoreInv'
  <2>1. CASE service' = FALSE /\ restorer' = At("remove", r)
    BY <1>m, <1>6, <2>1 DEF StopService, Write, RestoreInv, Undoable, RestoreStates, RestoreWork, Unfinished
  <2>2. CASE restorer' = Awake /\ UNCHANGED service
    BY <1>m, <1>6, <2>2 DEF StopService, Write, RestoreInv, Undoable, RestoreStates, RestoreWork, Unfinished
  <2>3. QED
    BY <1>6, <2>1, <2>2 DEF StopService
<1>7. ASSUME NEW r \in Runs, RemoveLive(r) PROVE RestoreInv'
  BY <1>m, <1>7, RestoreRuns DEF RemoveLive, Write, RestoreInv, Undoable, RestoreStates, RestoreWork, Unfinished
<1>8. ASSUME NEW r \in Runs, InstallSnapshot(r) PROVE RestoreInv'
  BY <1>m, <1>8, RestoreRuns DEF InstallSnapshot, Write, RestoreInv, Undoable, RestoreStates, RestoreWork, Unfinished
<1>9. ASSUME NEW r \in Runs, WriteSwapped(r) PROVE RestoreInv'
  BY <1>m, <1>9, RestoreRuns DEF WriteSwapped, Write, RestoreInv, Undoable, RestoreStates, RestoreWork, Unfinished
<1>10. ASSUME NEW r \in Runs, VerifyLive(r) PROVE RestoreInv'
  BY <1>m, <1>10, RestoreRuns DEF VerifyLive, Write, RestoreInv, Undoable, RestoreStates, RestoreWork, Unfinished
<1>11. ASSUME NEW r \in Runs, StartService(r) PROVE RestoreInv'
  <2>1. CASE service' = TRUE /\ restorer' = At("done", r)
    BY <1>m, <1>11, <2>1 DEF StartService, Write, RestoreInv, Undoable, RestoreStates, RestoreWork, Unfinished
  <2>2. CASE restorer' = Awake /\ UNCHANGED service
    BY <1>m, <1>11, <2>2 DEF StartService, Write, RestoreInv, Undoable, RestoreStates, RestoreWork, Unfinished
  <2>3. QED
    BY <1>11, <2>1, <2>2 DEF StartService
<1>12. ASSUME NEW r \in Runs, WriteVerified(r) PROVE RestoreInv'
  BY <1>m, <1>12, RestoreRuns DEF WriteVerified, Write, RestoreInv, Undoable, RestoreStates, RestoreWork, Unfinished
<1>13. ASSUME NEW r \in Runs, RollbackStops(r) PROVE RestoreInv'
  <2>1. CASE restorer = At("undo", r) /\ service' = FALSE /\ restorer' = At("undo_remove", r)
    BY <1>m, <1>13, <2>1 DEF RollbackStops, Write, RestoreInv, Undoable, RestoreStates, RestoreWork, Unfinished
  <2>2. CASE restorer = At("redo", r) /\ service' = FALSE /\ restorer' = At("redo_remove", r)
    BY <1>m, <1>13, <2>2 DEF RollbackStops, Write, RestoreInv, Undoable, RestoreStates, RestoreWork, Unfinished
  <2>3. CASE restorer = At("undo", r) /\ restorer' = Awake /\ UNCHANGED service
    BY <1>m, <1>13, <2>3 DEF RollbackStops, Write, RestoreInv, Undoable, RestoreStates, RestoreWork, Unfinished
  <2>4. CASE restorer = At("redo", r) /\ restorer' = Stopped /\ UNCHANGED service
    BY <1>m, <1>13, <2>4 DEF RollbackStops, Write, RestoreInv, Undoable, RestoreStates, RestoreWork, Unfinished
  <2>5. restorer = At("undo", r) => restorer.pc = "undo"
    OBVIOUS
  <2>6. restorer = At("redo", r) => restorer.pc # "undo"
    OBVIOUS
  <2>7. QED
    BY <1>13, <2>1, <2>2, <2>3, <2>4, <2>5, <2>6, Zenon DEF RollbackStops
<1>14. ASSUME NEW r \in Runs, RollbackRemoves(r) PROVE RestoreInv'
  BY <1>m, <1>14, RestoreRuns DEF RollbackRemoves, Write, RestoreInv, Undoable, RestoreStates, RestoreWork, Unfinished
<1>15. ASSUME NEW r \in Runs, RollbackInstalls(r) PROVE RestoreInv'
  BY <1>m, <1>15, RestoreRuns DEF RollbackInstalls, Write, RestoreInv, Undoable, RestoreStates, RestoreWork, Unfinished
<1>16. ASSUME NEW r \in Runs, RollbackStarts(r) PROVE RestoreInv'
  <2>1. CASE restorer = At("undo_start", r) /\ service' = TRUE /\ Write(r, "rolled_back") /\ restorer' = Awake
    BY <1>m, <1>16, <2>1 DEF RollbackStarts, Write, RestoreInv, Undoable, RestoreStates, RestoreWork, Unfinished
  <2>2. CASE restorer = At("redo_start", r) /\ service' = TRUE /\ Write(r, "rolled_back") /\ restorer' = Resuming
    BY <1>m, <1>16, <2>2 DEF RollbackStarts, Write, RestoreInv, Undoable, RestoreStates, RestoreWork, Unfinished
  <2>3. CASE restorer = At("undo_start", r) /\ restorer' = Awake /\ UNCHANGED <<service, receipt>>
    BY <1>m, <1>16, <2>3 DEF RollbackStarts, Write, RestoreInv, Undoable, RestoreStates, RestoreWork, Unfinished
  <2>4. CASE restorer = At("redo_start", r) /\ restorer' = Stopped /\ UNCHANGED <<service, receipt>>
    BY <1>m, <1>16, <2>4 DEF RollbackStarts, Write, RestoreInv, Undoable, RestoreStates, RestoreWork, Unfinished
  <2>5. restorer = At("undo_start", r) => restorer.pc = "undo_start"
    OBVIOUS
  <2>6. restorer = At("redo_start", r) => restorer.pc # "undo_start"
    OBVIOUS
  <2>7. QED
    BY <1>16, <2>1, <2>2, <2>3, <2>4, <2>5, <2>6, Zenon DEF RollbackStarts
<1>17. ASSUME NEW r \in Runs, RecoverRestore(r) PROVE RestoreInv'
  <2>1. CASE receipt[r] \in {"planned", "prepared"} /\ Write(r, "rolled_back") /\ UNCHANGED restorer
    BY <1>m, <1>17, <2>1 DEF RecoverRestore, Write, RestoreInv, Undoable, RestoreStates, RestoreWork, Unfinished
  <2>2. CASE receipt[r] \notin {"planned", "prepared"} /\ restorer' = At("redo", r) /\ UNCHANGED receipt
    BY <1>m, <1>17, <2>2 DEF RecoverRestore, Write, RestoreInv, Undoable, RestoreStates, RestoreWork, Unfinished
  <2>3. QED
    BY <1>17, <2>1, <2>2 DEF RecoverRestore
<1>18. CASE DaemonDies
  BY <1>m, <1>18 DEF DaemonDies, RestoreInv, Undoable, RestoreStates, RestoreWork, Unfinished
<1>19. CASE DaemonStarts
  BY <1>m, <1>19 DEF DaemonStarts, RestoreInv, Undoable, RestoreStates, RestoreWork, Unfinished
<1>20. CASE Serve
  BY <1>m, <1>20 DEF Serve, RestoreInv, Undoable, RestoreStates, RestoreWork, Unfinished
<1>21. ASSUME NEW c \in Contents, ServiceWrites(c) PROVE RestoreInv'
  BY <1>m, <1>21 DEF ServiceWrites, RestoreInv, Undoable
<1>22. CASE UNCHANGED restoreVars
  BY <1>22 DEF restoreVars, RestoreInv, Undoable
<1>23. QED
  BY <1>1, <1>2, <1>3, <1>4, <1>5, <1>6, <1>7, <1>8, <1>9, <1>10, <1>11, <1>12, <1>13, <1>14, <1>15, <1>16, <1>17, <1>18, <1>19, <1>20, <1>21, <1>22 DEF RestoreNext

-----------------------------------------------------------------------------
(* Snapshots: the authority record, its history and the descriptors. *)

CreatorForms == [pc : {"described", "intended", "recorded", "pointed", "anchored"},
                 next : Seq(Descriptor)]
ListerForms == [pc : {"found", "point", "remove"}, next : Seq(Descriptor)]
Creating == creator \notin {Resting, Off}

\* Record k continues record h.
Continues(h, k) == Len(h) <= Len(k) /\ \A i \in 1 .. Len(h) : h[i] = k[i]

\* The descriptors of a record are all there.
Covered(h) == \A i \in 1 .. Len(h) : h[i] \in described

StoreTypes ==
  /\ image \in Images /\ sealed \in 0 .. MaxSnapshots
  /\ described \subseteq Descriptor /\ acked \subseteq Descriptor
  /\ pointer \in Seq(Descriptor) /\ trust \in Seq(Descriptor)
  /\ history \subseteq Seq(Descriptor)
  /\ intent \in Seq(Descriptor)
  /\ guard \in BOOLEAN
  /\ creator \in {Resting, Off} \cup CreatorForms
  /\ lister \in {Resting} \cup ListerForms

\* The history is one line of records with the pointer and the anchor in it;
\* what was acknowledged is in some record of it.
HistoryLine ==
  /\ pointer \in history /\ trust \in history
  /\ \A h, k \in history : Len(h) <= Len(k) => Continues(h, k)
  /\ \A h \in history : \A i \in 1 .. Len(h) : h[i].id <= sealed
  /\ \A d \in acked : /\ d.id <= sealed /\ d \in described
                      /\ \E h \in history : \E i \in 1 .. Len(h) : h[i] = d
  /\ Covered(pointer) /\ Covered(intent)

\* What list repairs is a record of the history.
ListerHolds == lister # Resting => lister.next \in history /\ Covered(lister.next)

\* The record that create builds ends in a descriptor nobody else has, and
\* continues every record there is from the intent on; once its intent is
\* gone, no list is at work that could know it.
CreatorHolds ==
  /\ Creating =>
       /\ Len(creator.next) >= 1 /\ Covered(creator.next)
       /\ Latest.id <= sealed
       /\ \A i \in 1 .. Len(creator.next) - 1 : creator.next[i].id < Latest.id
       /\ \A d \in acked : d.id < Latest.id
  /\ creator.pc = "described" =>
       /\ intent = None
       /\ \A h \in history : \A i \in 1 .. Len(h) : h[i].id < Latest.id
  /\ creator.pc = "intended" =>
       \A h \in history : Continues(h, creator.next) /\ Len(h) < Len(creator.next)
  /\ creator.pc \in {"recorded", "pointed", "anchored"} =>
       /\ creator.next \in history
       /\ \A h \in history : Continues(h, creator.next)
  /\ creator.pc \in {"intended", "recorded", "pointed", "anchored"} /\ intent = None => lister = Resting

StoreInv == StoreTypes /\ HistoryLine /\ ListerHolds /\ CreatorHolds

\* The store starts empty.
LEMMA StoreStart == ASSUME SnapshotInit PROVE StoreInv
<1>0. <<>> \in Seq(Descriptor) /\ {<<>>} \subseteq Seq(Descriptor) /\ 0 \in 0 .. MaxSnapshots
  BY SnapshotBounds
<1>1. StoreTypes
  BY <1>0 DEF SnapshotInit, StoreTypes, None
<1>2. HistoryLine /\ ListerHolds
  BY DEF SnapshotInit, HistoryLine, ListerHolds, None, Continues, Covered
<1>3. CreatorHolds
  BY DEF SnapshotInit, CreatorHolds, Creating, Resting
<1>4. QED
  BY <1>1, <1>2, <1>3 DEF StoreInv

\* Continuing a record is what the code compares.
LEMMA ContinuesIsPrefix ==
  ASSUME NEW S, NEW h \in Seq(S), NEW k \in Seq(S), Continues(h, k)
  PROVE h = SubSeq(k, 1, Len(h)) /\ (Len(h) = Len(k) => h = k)
<1>1. SubSeq(k, 1, Len(h)) \in Seq(S) /\ Len(SubSeq(k, 1, Len(h))) = Len(h)
  BY DEF Continues
<1>2. \A i \in 1 .. Len(h) : SubSeq(k, 1, Len(h))[i] = h[i]
  BY DEF Continues
<1>3. h = SubSeq(k, 1, Len(h))
  BY <1>1, <1>2, SeqEqual
<1>4. Len(h) = Len(k) => h = k
  BY SeqEqual DEF Continues
<1>5. QED
  BY <1>3, <1>4

\* The invariant implies the properties.
LEMMA StoreSafe == ASSUME StoreInv
  PROVE SnapshotTypeOK /\ HistoryUnforked /\ AckedKept /\ AcceptedDescribed
<1>1. SnapshotTypeOK
  BY DEF StoreInv, StoreTypes, SnapshotTypeOK
<1>2. HistoryUnforked
  BY ContinuesIsPrefix DEF StoreInv, StoreTypes, HistoryLine, HistoryUnforked
<1>3. AckedKept
  <2>1. SUFFICES ASSUME NEW d \in acked PROVE /\ d \in described
                   /\ \A h \in history : Tip(h) => \E i \in DOMAIN h : h[i] = d
    BY DEF AckedKept
  <2>2. d \in described
    BY DEF StoreInv, HistoryLine
  <2>3. PICK k \in history : \E i \in 1 .. Len(k) : k[i] = d
    BY DEF StoreInv, HistoryLine
  <2>4. ASSUME NEW h \in history, Tip(h) PROVE \E i \in DOMAIN h : h[i] = d
    <3>1. Continues(k, h)
      BY <2>4 DEF StoreInv, HistoryLine, Tip
    <3>2. h \in Seq(Descriptor) /\ k \in Seq(Descriptor)
      BY DEF StoreInv, StoreTypes
    <3>3. QED
      BY <2>3, <3>1, <3>2 DEF Continues
  <2>5. QED
    BY <2>2, <2>4
<1>4. AcceptedDescribed
  BY DEF StoreInv, StoreTypes, HistoryLine, AcceptedDescribed, Covered
<1>5. QED
  BY <1>1, <1>2, <1>3, <1>4

\* A record that reads back ends the history.
LEMMA ReadsBackTip ==
  ASSUME StoreTypes, NEW h \in Seq(Descriptor), ReadsBack(h)
  PROVE h \in history /\ \A k \in history : Len(k) <= Len(h) /\ (k # h => Len(k) < Len(h))
BY DEF ReadsBack, Tip

\* Each write of create, list and the operator keeps the types.
LEMMA StoreTyped == ASSUME StoreInv, SnapshotNext PROVE StoreTypes'
<1> USE DEF StoreInv, StoreTypes, None
<1>1. ASSUME Create PROVE StoreTypes'
  <2> DEFINE h == Settled(pointer)
  <2>1. h \in Seq(Descriptor) /\ <<>> \in Seq(Descriptor)
    BY DEF Settled
  <2>2. CASE image \in AcceptedHead(h)
    BY <1>1, <2>1, <2>2 DEF Create
  <2>3. CASE image \notin AcceptedHead(h)
    <3>1. Sealed \in Descriptor /\ sealed + 1 \in 0 .. MaxSnapshots
      BY <1>1, SnapshotBounds DEF Create, Sealed, Descriptor
    <3>2. Append(h, Sealed) \in Seq(Descriptor)
      BY <2>1, <3>1
    <3>3. [pc |-> "described", next |-> Append(h, Sealed)] \in CreatorForms
      BY <3>2 DEF CreatorForms
    <3>4. QED
      BY <1>1, <2>1, <2>3, <3>1, <3>3 DEF Create
  <2>4. QED
    BY <2>2, <2>3
<1>2. ASSUME NEW p \in {"intended", "recorded", "pointed", "anchored"}, creator \in CreatorForms
      PROVE [creator EXCEPT !.pc = p] \in CreatorForms /\ creator.next \in Seq(Descriptor)
  BY <1>2 DEF CreatorForms
<1>3. creator.pc \in {"described", "intended", "recorded", "pointed", "anchored"} => creator \in CreatorForms
  BY DEF Resting, Off
<1>4. CASE Intend
  BY <1>2, <1>3, <1>4 DEF Intend
<1>5. CASE WriteHistory
  BY <1>2, <1>3, <1>5 DEF WriteHistory
<1>6. CASE WritePointer
  BY <1>2, <1>3, <1>6 DEF WritePointer
<1>7. CASE WriteAnchor
  BY <1>2, <1>3, <1>7 DEF WriteAnchor
<1>8. ASSUME Created, Creating => Len(creator.next) >= 1 PROVE StoreTypes'
  <2>1. Latest \in Descriptor
    BY <1>3, <1>8 DEF Created, Latest, CreatorForms, Creating, Resting, Off
  <2>2. <<>> \in Seq(Descriptor)
    OBVIOUS
  <2>3. QED
    BY <1>8, <2>1, <2>2 DEF Created
<1>9. CASE CreateFails
  BY <1>9 DEF CreateFails, Loses
<1>10. ASSUME NEW p \in {"found", "point", "remove"}, lister \in ListerForms
       PROVE [lister EXCEPT !.pc = p] \in ListerForms /\ lister.next \in Seq(Descriptor)
  BY <1>10 DEF ListerForms
<1>11. lister.pc \in {"found", "point", "remove"} => lister \in ListerForms
  BY DEF Resting
<1>12. CASE ListFinds
  BY <1>12 DEF ListFinds, ListerForms
<1>13. CASE ListPoints
  BY <1>10, <1>11, <1>13 DEF ListPoints
<1>14. CASE ListAnchors
  BY <1>10, <1>11, <1>14 DEF ListAnchors
<1>15. CASE ListRemoves
  BY <1>15 DEF ListRemoves
<1>16. CASE CrashStore
  BY <1>16 DEF CrashStore
<1>17. CASE OpenStore
  <2>1. Settled(pointer) \in Seq(Descriptor) /\ <<>> \in Seq(Descriptor)
    BY DEF Settled
  <2>2. QED
    BY <1>17, <2>1 DEF OpenStore
<1>18. CASE OperatorRemovesLock
  BY <1>18 DEF OperatorRemovesLock
<1>19. ASSUME NEW i \in Images, ApplicationWrites(i) PROVE StoreTypes'
  BY <1>19 DEF ApplicationWrites
<1>20. QED
  BY <1>1, <1>4, <1>5, <1>6, <1>7, <1>8, <1>9, <1>12, <1>13, <1>14, <1>15, <1>16, <1>17, <1>18,
     <1>19 DEF SnapshotNext, CreatorHolds

StoreRest == HistoryLine /\ ListerHolds /\ CreatorHolds

\* The state of create, and what it says of the record it builds.
LEMMA CreatorStates == ASSUME StoreInv
  PROVE /\ Creating => creator \in CreatorForms
        /\ creator.pc \in {"described", "intended", "recorded", "pointed", "anchored"} => Creating
        /\ Creating => Len(creator.next) \in Nat /\ Len(creator.next) >= 1 /\ Latest \in Descriptor
BY DEF StoreInv, StoreTypes, CreatorHolds, Creating, CreatorForms, Resting, Off, Latest

\* The ids of descriptors are numbers.
LEMMA DescriptorIds == \A d \in Descriptor : d.id \in Nat
BY DEF Descriptor

\* A record is made of descriptors.
LEMMA RecordEntries == ASSUME StoreTypes, NEW k \in history, NEW i \in 1 .. Len(k)
  PROVE k[i] \in Descriptor /\ k[i].id \in Nat
<1>1. k \in Seq(Descriptor)
  BY DEF StoreTypes
<1>2. QED
  BY <1>1, DescriptorIds

\* create repairs, reads back, and describes the database.
LEMMA CreateKeeps == ASSUME StoreInv, Create, StoreTypes' PROVE StoreRest'
<1> DEFINE h == Settled(pointer)
<1>1. h \in Seq(Descriptor) /\ Covered(h)
  BY DEF Settled, StoreInv, StoreTypes, HistoryLine
<1>2. h \in history
  BY <1>1, ReadsBackTip DEF Create, StoreInv
<1>3. ASSUME NEW k \in Seq(Descriptor), Covered(k) PROVE Covered(k)'
  BY <1>3 DEF Create, Covered
<1> HIDE DEF h
<1>4. HistoryLine'
  <2>1. pointer' = h /\ trust' = h /\ intent' = <<>> /\ sealed <= sealed' /\ described \subseteq described'
    BY DEF Create, h, None, StoreInv, StoreTypes
  <2>2. Covered(pointer)' /\ Covered(intent)'
    BY <1>1, <1>3, <2>1 DEF Covered
  <2>3. history' = history /\ acked' = acked
    BY DEF Create
  <2>4. \A k \in history : \A i \in 1 .. Len(k) : k[i].id \in Nat
    BY RecordEntries DEF StoreInv
  <2>5. \A d \in acked : d.id \in Nat
    BY DEF StoreInv, StoreTypes, Descriptor
  <2>6. sealed \in Nat /\ sealed' \in Nat
    BY DEF StoreInv, StoreTypes
  <2>7. \A i, j \in history' : Len(i) <= Len(j) => Continues(i, j)
    BY <2>3 DEF HistoryLine, StoreInv
  <2>8. \A k \in history' : \A i \in 1 .. Len(k) : k[i].id <= sealed'
    BY <2>1, <2>3, <2>4, <2>6 DEF HistoryLine, StoreInv
  <2>9. \A d \in acked' : d.id <= sealed' /\ d \in described'
    BY <2>1, <2>3, <2>5, <2>6 DEF HistoryLine, StoreInv
  <2>10. \A d \in acked' : \E k \in history' : \E i \in 1 .. Len(k) : k[i] = d
    BY <2>3 DEF HistoryLine, StoreInv
  <2>11. pointer' \in history' /\ trust' \in history'
    BY <1>2, <2>1, <2>3
  <2>12. QED
    BY <2>2, <2>7, <2>8, <2>9, <2>10, <2>11 DEF HistoryLine, Continues
<1>5. ListerHolds'
  <2>1. lister' = lister /\ history' = history
    BY DEF Create
  <2>2. lister # Resting => lister.next \in Seq(Descriptor)
    BY DEF StoreInv, StoreTypes, ListerForms
  <2>3. QED
    BY <1>3, <2>1, <2>2 DEF ListerHolds, StoreInv, Covered
<1>6. CreatorHolds'
  <2>1. CASE image \in AcceptedHead(h)
    <3>1. creator' = Resting
      BY <2>1 DEF Create, h
    <3>2. QED
      BY <3>1 DEF CreatorHolds, Creating, Resting
  <2>2. CASE image \notin AcceptedHead(h)
    <3>1. /\ creator' = [pc |-> "described", next |-> Append(h, Sealed)]
          /\ described' = described \cup {Sealed} /\ sealed' = sealed + 1
          /\ intent' = None /\ history' = history /\ acked' = acked
      BY <2>2 DEF Create, h
    <3>2. Sealed \in Descriptor /\ Sealed.id = sealed + 1 /\ sealed \in Nat
      BY SnapshotBounds DEF Create, Sealed, Descriptor, StoreInv, StoreTypes
    <3>3. /\ Len(Append(h, Sealed)) = Len(h) + 1 /\ Len(h) \in Nat
          /\ \A i \in 1 .. Len(h) : Append(h, Sealed)[i] = h[i]
          /\ Append(h, Sealed)[Len(h) + 1] = Sealed
      BY <1>1, <3>2
    <3>4. creator'.next = Append(h, Sealed) /\ creator'.pc = "described"
      BY <3>1
    <3>5. Latest' = Sealed
      BY <3>3, <3>4 DEF Latest
    <3>6. Covered(creator.next)'
      BY <1>1, <3>1, <3>3, <3>4 DEF Covered
    <3>7. \A k \in history : \A i \in 1 .. Len(k) : k[i].id \in Nat /\ k[i].id <= sealed
      BY RecordEntries DEF StoreInv, HistoryLine
    <3>8. \A d \in acked : d.id \in Nat /\ d.id <= sealed
      BY DEF StoreInv, StoreTypes, HistoryLine, Descriptor
    <3>9. \A i \in 1 .. Len(creator.next)' - 1 : creator'.next[i].id < Sealed.id
      BY <1>2, <3>2, <3>3, <3>4, <3>7
    <3>10. QED
      BY <3>1, <3>2, <3>3, <3>4, <3>5, <3>6, <3>7, <3>8, <3>9 DEF CreatorHolds
  <2>3. QED
    BY <2>1, <2>2
<1>7. QED
  BY <1>4, <1>5, <1>6 DEF StoreRest

\* The intent names a record that continues the whole history.
LEMMA IntendKeeps == ASSUME StoreInv, Intend, StoreTypes' PROVE StoreRest'
<1>1. Creating /\ creator \in CreatorForms
  BY CreatorStates DEF Intend
<1> DEFINE k == creator.next
<1>2. k \in Seq(Descriptor) /\ Len(k) >= 1
  BY <1>1 DEF CreatorForms, StoreInv, CreatorHolds
<1>3. creator'.next = k /\ creator'.pc = "intended" /\ Creating'
  BY <1>1 DEF Intend, CreatorForms, Creating, Resting, Off
<1>4. UNCHANGED <<described, sealed, pointer, history, trust, lister, acked>> /\ intent' = k
  BY DEF Intend
<1>5. HistoryLine' /\ ListerHolds'
  BY <1>1, <1>4 DEF StoreInv, HistoryLine, ListerHolds, CreatorHolds, Covered
<1>6. Latest' = Latest
  BY <1>3 DEF Latest
<1>7. ASSUME NEW h \in history PROVE Continues(h, k) /\ Len(h) < Len(k)
  <2>1. pointer \in Seq(Descriptor) /\ h \in Seq(Descriptor) /\ ReadsBack(pointer)
    BY DEF StoreInv, StoreTypes, Intend
  <2>2. pointer = SubSeq(k, 1, Len(k) - 1)
    BY DEF Intend
  <2>3. Len(pointer) = Len(k) - 1 /\ \A i \in 1 .. Len(pointer) : pointer[i] = k[i]
    BY <1>2, <2>2
  <2>4. Continues(h, pointer)
    BY <2>1, ReadsBackTip DEF StoreInv, HistoryLine
  <2>5. QED
    BY <1>2, <2>1, <2>3, <2>4 DEF Continues
<1>8. CreatorHolds'
  BY <1>1, <1>2, <1>3, <1>4, <1>6, <1>7 DEF StoreInv, CreatorHolds, Covered, None
<1>9. QED
  BY <1>5, <1>8 DEF StoreRest

\* The record joins the history as its end.
LEMMA HistoryKeeps == ASSUME StoreInv, WriteHistory, StoreTypes' PROVE StoreRest'
<1>1. Creating /\ creator \in CreatorForms
  BY CreatorStates DEF WriteHistory
<1> DEFINE k == creator.next
<1>2. k \in Seq(Descriptor) /\ Len(k) >= 1
  BY <1>1 DEF CreatorForms, StoreInv, CreatorHolds
<1>3. creator'.next = k /\ creator'.pc = "recorded" /\ Creating'
  BY <1>1 DEF WriteHistory, CreatorForms, Creating, Resting, Off
<1>4. UNCHANGED <<described, sealed, pointer, intent, trust, lister, acked>> /\ history' = history \cup {k}
  BY DEF WriteHistory
<1>5. \A h \in history : Continues(h, k) /\ Len(h) < Len(k) /\ Len(h) \in Nat
  BY DEF StoreInv, StoreTypes, CreatorHolds, WriteHistory
<1>6. Continues(k, k)
  BY <1>2 DEF Continues
<1>7. \A i \in 1 .. Len(k) : k[i].id <= sealed
  <2>1. Latest.id <= sealed /\ \A i \in 1 .. Len(k) - 1 : k[i].id < Latest.id
    BY <1>1 DEF StoreInv, CreatorHolds
  <2>2. Latest = k[Len(k)] /\ sealed \in Nat
    BY DEF Latest, StoreInv, StoreTypes
  <2>3. \A i \in 1 .. Len(k) : k[i].id \in Nat
    BY <1>2, DescriptorIds
  <2>4. QED
    BY SMTT(60), <1>2, <2>1, <2>2, <2>3
<1>8. HistoryLine'
  <2>1. \A h, g \in history' : Len(h) <= Len(g) => Continues(h, g)
    BY <1>2, <1>4, <1>5, <1>6 DEF StoreInv, HistoryLine
  <2>2. QED
    BY <1>4, <1>7, <2>1 DEF StoreInv, HistoryLine, Covered
<1>9. ListerHolds'
  BY <1>4 DEF StoreInv, ListerHolds, Covered
<1>10. CreatorHolds'
  <2>1. Latest' = Latest
    BY <1>3 DEF Latest
  <2>2. QED
    BY <1>1, <1>3, <1>4, <1>5, <1>6, <2>1 DEF StoreInv, CreatorHolds, Covered, WriteHistory
<1>11. QED
  BY <1>8, <1>9, <1>10 DEF StoreRest

\* The pointer and the anchor move to it.
LEMMA PointerKeeps == ASSUME StoreInv, WritePointer \/ WriteAnchor, StoreTypes' PROVE StoreRest'
<1>1. Creating /\ creator \in CreatorForms
  BY CreatorStates DEF WritePointer, WriteAnchor
<1>2. creator'.next = creator.next /\ creator'.pc \in {"pointed", "anchored"} /\ Creating'
  BY <1>1 DEF WritePointer, WriteAnchor, CreatorForms, Creating, Resting, Off
<1>3. UNCHANGED <<described, sealed, intent, history, lister, acked>>
  BY DEF WritePointer, WriteAnchor
<1>4. creator.next \in history /\ Covered(creator.next)
  BY <1>1 DEF StoreInv, CreatorHolds, WritePointer, WriteAnchor
<1>5. pointer' \in {pointer, creator.next} /\ trust' \in {trust, creator.next}
  BY DEF WritePointer, WriteAnchor
<1>6. HistoryLine' /\ ListerHolds'
  BY <1>3, <1>4, <1>5 DEF StoreInv, HistoryLine, ListerHolds, Covered
<1>7. Latest' = Latest
  BY <1>2 DEF Latest
<1>8. creator.pc \in {"recorded", "pointed"}
  BY DEF WritePointer, WriteAnchor
<1>9. CreatorHolds'
  BY <1>1, <1>2, <1>3, <1>7, <1>8 DEF StoreInv, CreatorHolds, Covered
<1>10. QED
  BY <1>6, <1>9 DEF StoreRest

\* The caller is told of a snapshot in the history.
LEMMA CreatedKeeps == ASSUME StoreInv, Created, StoreTypes' PROVE StoreRest'
<1>1. Creating /\ creator \in CreatorForms /\ Latest \in Descriptor
  BY CreatorStates DEF Created
<1> DEFINE k == creator.next
<1>2. k \in Seq(Descriptor) /\ Len(k) >= 1 /\ k \in history
  BY <1>1 DEF CreatorForms, StoreInv, CreatorHolds, Created
<1>3. Latest.id <= sealed /\ Latest \in described /\ Latest = k[Len(k)]
  BY <1>1, <1>2 DEF StoreInv, CreatorHolds, Latest, Covered
<1>4. /\ UNCHANGED <<described, sealed, pointer, history, trust, lister>>
      /\ acked' = acked \cup {Latest} /\ intent' = None /\ creator' = Resting
  BY DEF Created
<1>5. \E i \in 1 .. Len(k) : k[i] = Latest
  BY <1>2, <1>3
<1>6. HistoryLine' /\ ListerHolds'
  BY <1>2, <1>3, <1>4, <1>5 DEF StoreInv, HistoryLine, ListerHolds, Covered, None
<1>7. CreatorHolds'
  BY <1>4 DEF CreatorHolds, Creating, Resting
<1>8. QED
  BY <1>6, <1>7 DEF StoreRest

\* A create that fails takes back a descriptor that no record in use names.
LEMMA FailsKeeps == ASSUME StoreInv, CreateFails, StoreTypes' PROVE StoreRest'
<1>1. Creating /\ creator \in CreatorForms /\ Latest \in Descriptor /\ Len(creator.next) >= 1
  BY CreatorStates DEF CreateFails
<1> DEFINE k == creator.next
<1>2. k \in Seq(Descriptor) /\ Latest = k[Len(k)] /\ Latest.id \in Nat /\ sealed \in Nat
  BY <1>1, DescriptorIds DEF CreatorForms, Latest, StoreInv, StoreTypes
<1>3. /\ UNCHANGED <<sealed, pointer, history, intent, trust, lister, acked>>
      /\ creator' = Resting /\ described' \in {described, described \ {Latest}}
  BY DEF CreateFails, Loses
<1>4. CreatorHolds'
  BY <1>3 DEF CreatorHolds, Creating, Resting
<1>5. \A d \in acked : d # Latest
  <2>1. \A d \in acked : d.id \in Nat /\ d.id < Latest.id
    BY <1>1, DescriptorIds DEF StoreInv, StoreTypes, CreatorHolds
  <2>2. QED
    BY <1>2, <2>1
<1>6. creator.pc \in {"pointed", "anchored"} => Advances(k)
  <2>1. SUFFICES ASSUME creator.pc \in {"pointed", "anchored"} PROVE Advances(k)
    OBVIOUS
  <2>2. Continues(trust, k) /\ trust \in Seq(Descriptor)
    BY <2>1 DEF StoreInv, StoreTypes, HistoryLine, CreatorHolds
  <2>3. QED
    BY <1>2, <2>2, ContinuesIsPrefix DEF Advances, Continues
<1>7. CASE creator.pc = "described"
  <2>1. \A h \in history : \A i \in 1 .. Len(h) : h[i] # Latest
    <3>1. \A h \in history : \A i \in 1 .. Len(h) : h[i].id \in Nat /\ h[i].id < Latest.id
      BY <1>7, RecordEntries DEF StoreInv, CreatorHolds
    <3>2. QED
      BY <1>2, <3>1
  <2>2. intent = <<>>
    BY <1>7 DEF StoreInv, CreatorHolds, None
  <2>3. HistoryLine' /\ ListerHolds'
    BY <1>3, <1>5, <2>1, <2>2 DEF StoreInv, HistoryLine, ListerHolds, Covered
  <2>4. QED
    BY <1>4, <2>3 DEF StoreRest
<1>8. CASE creator.pc = "anchored" /\ intent = None
  <2>1. lister = Resting
    BY <1>8 DEF StoreInv, CreatorHolds
  <2>2. k \in history /\ \A h \in history : Continues(h, k) /\ h \in Seq(Descriptor)
    BY <1>8 DEF StoreInv, StoreTypes, CreatorHolds
  <2>3. \A i \in 1 .. Len(k) - 1 : k[i] # Latest
    <3>1. \A i \in 1 .. Len(k) - 1 : k[i].id \in Nat /\ k[i].id < Latest.id
      BY <1>1, <1>2, DescriptorIds DEF StoreInv, CreatorHolds
    <3>2. QED
      BY <1>2, <3>1
  <2>4. pointer \in Seq(Descriptor) /\ Continues(pointer, k)
    BY <2>2 DEF StoreInv, HistoryLine
  <2>5. Covered(pointer)'
    <3>1. CASE \A i \in 1 .. Len(pointer) : pointer[i] # Latest
      BY <1>3, <3>1 DEF StoreInv, HistoryLine, Covered
    <3>2. CASE pointer = k
      <4>1. Repairable /\ Settled(pointer) = k
        BY <1>8, <3>2 DEF Repairable, Settled
      <4>2. \A h \in history \ {k} : Len(h) < Len(k)
        BY <1>2, <2>2, ContinuesIsPrefix DEF Continues
      <4>3. Tip(k)
        BY <1>2, <2>2, <4>2 DEF Tip, Continues
      <4>4. k[Len(k)] \in described
        BY <1>1, <1>2 DEF StoreInv, CreatorHolds, Covered
      <4>5. ReadsBack(k)
        BY <1>6, <1>8, <4>2, <4>3, <4>4 DEF ReadsBack, Advances
      <4>6. described' = described
        BY <1>2, <4>1, <4>5 DEF CreateFails, Loses
      <4>7. QED
        BY <1>3, <4>6 DEF StoreInv, HistoryLine, Covered
    <3>3. CASE \E i \in 1 .. Len(pointer) : pointer[i] = Latest
      <4>1. PICK i \in 1 .. Len(pointer) : pointer[i] = Latest
        BY <3>3
      <4>2. i = Len(k) /\ Len(pointer) = Len(k)
        BY <1>1, <1>2, <2>3, <2>4, <4>1 DEF Continues
      <4>3. pointer = k
        BY <1>2, <2>4, <4>2, ContinuesIsPrefix
      <4>4. QED
        BY <3>2, <4>3
    <3>4. QED
      BY <3>1, <3>3
  <2>6. HistoryLine'
    BY <1>3, <1>5, <1>8, <2>5 DEF StoreInv, HistoryLine, Covered, None
  <2>7. ListerHolds'
    BY <1>3, <2>1 DEF ListerHolds
  <2>8. QED
    BY <1>4, <2>6, <2>7 DEF StoreRest
<1>9. QED
  BY <1>6, <1>7, <1>8 DEF CreateFails

\* list only moves the pointer and the anchor to records of the history.
LEMMA ListKeeps == ASSUME StoreInv, ListFinds \/ ListPoints \/ ListAnchors \/ ListRemoves, StoreTypes'
  PROVE StoreRest'
<1>1. UNCHANGED <<described, sealed, history, creator, acked>>
  BY DEF ListFinds, ListPoints, ListAnchors, ListRemoves
<1>2. Latest' = Latest /\ Creating' = Creating
  BY <1>1 DEF Latest, Creating
<1>3. CASE ListFinds
  <2>1. lister'.next = intent /\ intent \in history /\ intent # <<>>
    BY <1>3 DEF ListFinds, Repairable, None
  <2>2. UNCHANGED <<pointer, trust, intent>>
    BY <1>3 DEF ListFinds
  <2>3. HistoryLine' /\ ListerHolds'
    BY <1>1, <2>1, <2>2 DEF StoreInv, HistoryLine, ListerHolds, Covered
  <2>4. CreatorHolds'
    BY <1>1, <1>2, <2>1, <2>2 DEF StoreInv, CreatorHolds, Covered, None
  <2>5. QED
    BY <2>3, <2>4 DEF StoreRest
<1>4. CASE ListPoints \/ ListAnchors
  <2>1. lister # Resting /\ lister \in ListerForms
    BY <1>4 DEF ListPoints, ListAnchors, Resting, StoreInv, StoreTypes
  <2>2. lister.next \in history /\ Covered(lister.next)
    BY <2>1 DEF StoreInv, ListerHolds
  <2>3. lister' = Resting \/ lister'.next = lister.next
    BY <1>4, <2>1 DEF ListPoints, ListAnchors, ListerForms
  <2>4. pointer' \in {pointer, lister.next} /\ trust' \in {trust, lister.next} /\ intent' = intent
    BY <1>4 DEF ListPoints, ListAnchors
  <2>5. HistoryLine' /\ ListerHolds'
    BY <1>1, <2>2, <2>3, <2>4 DEF StoreInv, HistoryLine, ListerHolds, Covered
  <2>6. CreatorHolds'
    BY <1>1, <1>2, <2>1, <2>4 DEF StoreInv, CreatorHolds, Covered
  <2>7. QED
    BY <2>5, <2>6 DEF StoreRest
<1>5. CASE ListRemoves
  <2>1. lister' = Resting /\ intent' = None /\ UNCHANGED <<pointer, trust>>
    BY <1>5 DEF ListRemoves
  <2>2. HistoryLine' /\ ListerHolds'
    BY <1>1, <2>1 DEF StoreInv, HistoryLine, ListerHolds, Covered, None
  <2>3. CreatorHolds'
    BY <1>1, <1>2, <2>1 DEF StoreInv, CreatorHolds, Covered
  <2>4. QED
    BY <2>2, <2>3 DEF StoreRest
<1>6. QED
  BY <1>3, <1>4, <1>5

\* Crashes, starts, the operator and the application leave the records alone.
LEMMA OutsideKeeps ==
  ASSUME StoreInv, CrashStore \/ OpenStore \/ OperatorRemovesLock \/ \E i \in Images : ApplicationWrites(i),
         StoreTypes'
  PROVE StoreRest'
<1>1. CASE CrashStore
  BY <1>1 DEF CrashStore, StoreInv, StoreRest, HistoryLine, ListerHolds, CreatorHolds, Creating, Covered, Off, Resting
<1>2. CASE OpenStore
  <2>1. Settled(pointer) \in Seq(Descriptor) /\ Covered(Settled(pointer))
    BY DEF Settled, StoreInv, StoreTypes, HistoryLine
  <2>2. Settled(pointer) \in history
    BY <1>2, <2>1, ReadsBackTip DEF OpenStore, StoreInv
  <2>3. /\ pointer' = Settled(pointer) /\ trust' = Settled(pointer) /\ intent' = <<>> /\ creator' = Resting
        /\ UNCHANGED <<described, sealed, history, lister, acked>>
    BY <1>2 DEF OpenStore, None
  <2>4. HistoryLine' /\ ListerHolds'
    BY <2>1, <2>2, <2>3 DEF StoreInv, HistoryLine, ListerHolds, Covered
  <2>5. CreatorHolds'
    BY <2>3 DEF CreatorHolds, Creating, Resting
  <2>6. QED
    BY <2>4, <2>5 DEF StoreRest
<1>3. CASE OperatorRemovesLock
  BY <1>3 DEF OperatorRemovesLock, StoreInv, StoreRest, HistoryLine, ListerHolds, CreatorHolds, Creating, Covered, Latest
<1>4. CASE \E i \in Images : ApplicationWrites(i)
  BY <1>4 DEF ApplicationWrites, StoreInv, StoreRest, HistoryLine, ListerHolds, CreatorHolds, Creating, Covered, Latest
<1>5. QED
  BY <1>1, <1>2, <1>3, <1>4

\* Each step of the store keeps the invariant.
LEMMA StoreStep == ASSUME StoreInv, [SnapshotNext]_snapVars PROVE StoreInv'
<1>1. CASE SnapshotNext
  <2>1. StoreTypes'
    BY <1>1, StoreTyped
  <2>2. StoreRest'
    BY <1>1, <2>1, CreateKeeps, IntendKeeps, HistoryKeeps, PointerKeeps, CreatedKeeps, FailsKeeps,
       ListKeeps, OutsideKeeps DEF SnapshotNext
  <2>3. QED
    BY <2>1, <2>2 DEF StoreInv, StoreRest
<1>2. CASE UNCHANGED snapVars
  BY <1>2 DEF snapVars, StoreInv, StoreTypes, HistoryLine, ListerHolds, CreatorHolds, Creating, Covered, Latest
<1>3. QED
  BY <1>1, <1>2

-----------------------------------------------------------------------------
(* Skills: candidates, plans, promotions and their receipts. *)

SkillTexts == {"original", "edited", "none"} \cup Proposals
SkillContexts == [head : Int, policy : Int]
CandidateForms == [parent : SkillTexts, after : SkillTexts, passed : BOOLEAN, context : SkillContexts]
SkillPcs == {"idle", "provider", "harness", "stage", "checked", "replaced", "verified", "recording", "undo", "undone"}
ReceiptForms == [cand : CandidateForms, state : {"promoted", "torn", "rolled_back"}]
WorkerForms == [pc : SkillPcs, cand : CandidateForms \cup {Nobody}, alive : BOOLEAN]

SkillTypes ==
  /\ skillFile \in SkillTexts /\ context \in SkillContexts
  /\ candidates \subseteq CandidateForms
  /\ promotions \subseteq ReceiptForms
  /\ skillServing \in [SkillWorkers -> WorkerForms]
  /\ \A w \in SkillWorkers : skillServing[w].pc # "idle" => skillServing[w].cand \in CandidateForms

\* What is planned, being promoted or written was judged and reviewed.
SkillInv ==
  /\ SkillTypes
  /\ approved \subseteq candidates /\ \A c \in approved : c.passed
  /\ \A w \in SkillWorkers :
       Busy(w, "checked") \/ Promoting(w) => skillServing[w].cand \in approved
  /\ HeldOutUnseen /\ PromotedWasApproved /\ PromotionUndoable

\* Nothing is proposed at first.
LEMMA SkillStart == ASSUME SkillInit PROVE SkillInv
<1>1. Unserved \in WorkerForms /\ Unserved.pc = "idle" /\ Unserved.alive = FALSE
  BY DEF Unserved, WorkerForms, SkillPcs
<1>2. context \in SkillContexts
  BY DEF SkillInit, SkillContexts
<1>3. QED
  BY <1>1, <1>2 DEF SkillInit, SkillInv, SkillTypes, SkillTexts, HeldOutUnseen, PromotedWasApproved,
     PromotionUndoable, Busy, Promoting

\* The worker is done with its request.
LEMMA FinishKeeps ==
  ASSUME SkillInv, NEW w \in SkillWorkers, Finish(w), UNCHANGED <<context, approved>>,
         skillFile' \in SkillTexts, candidates \subseteq candidates', candidates' \subseteq CandidateForms,
         promotions' \subseteq ReceiptForms,
         \A c : SkillReceipt(c, "promoted") \in promotions => SkillReceipt(c, "promoted") \in promotions',
         \A c \in cutShort : c \in cutShort' \/ SkillReceipt(c, "promoted") \in promotions',
         \/ written' = Nobody
         \/ /\ written' = written
            /\ \/ ~Promoting(w)
               \/ skillServing[w].cand \in cutShort'
               \/ SkillReceipt(skillServing[w].cand, "promoted") \in promotions'
  PROVE SkillInv'
<1>1. Unserved \in WorkerForms /\ Unserved.pc = "idle" /\ Unserved.alive = FALSE
  BY DEF WorkerForms, Unserved, SkillPcs
<1>2. skillServing' = [skillServing EXCEPT ![w] = Unserved]
  BY DEF Finish
<1> HIDE DEF Unserved
<1>3. skillServing' \in [SkillWorkers -> WorkerForms]
  BY <1>1, <1>2 DEF SkillInv, SkillTypes
<1>4. \A v \in SkillWorkers : v # w => skillServing'[v] = skillServing[v]
  BY <1>2 DEF SkillInv, SkillTypes
<1>5. skillServing'[w] = Unserved
  BY <1>2 DEF SkillInv, SkillTypes
<1>6. SkillTypes'
  BY <1>1, <1>3, <1>4, <1>5 DEF SkillInv, SkillTypes
<1>7. PromotionUndoable'
  <2>1. \A v \in SkillWorkers : v # w /\ Promoting(v) => Promoting(v)' /\ skillServing'[v] = skillServing[v]
    BY <1>4 DEF Promoting
  <2>2. \A c : SkillReceipt(c, "promoted")' = SkillReceipt(c, "promoted")
    BY DEF SkillReceipt
  <2>3. QED
    BY <2>1, <2>2 DEF SkillInv, PromotionUndoable
<1>8. PromotedWasApproved'
  BY DEF SkillInv, PromotedWasApproved
<1>9. HeldOutUnseen'
  BY <1>1, <1>4, <1>5 DEF SkillInv, HeldOutUnseen, Busy
<1>10. \A v \in SkillWorkers :
       (Busy(v, "checked") \/ Promoting(v))' => skillServing'[v].cand \in approved'
  BY <1>1, <1>4, <1>5 DEF SkillInv, Busy, Promoting
<1>11. QED
  BY <1>6, <1>7, <1>8, <1>9, <1>10 DEF SkillInv

\* The worker goes on with a candidate.
LEMMA GoesKeeps ==
  ASSUME SkillInv, NEW w \in SkillWorkers, NEW p \in SkillPcs \ {"idle"}, NEW c \in CandidateForms, Goes(w, p, c),
         p \in {"checked", "replaced", "verified", "recording"} => c \in approved,
         UNCHANGED <<context, approved, candidates, cutShort>>,
         promotions \subseteq promotions', promotions' \subseteq ReceiptForms,
         skillFile' \in SkillTexts,
         \/ written' = Nobody
         \/ written' = c /\ p \in {"replaced", "verified", "recording"}
         \/ /\ written' = written
            /\ \/ ~Promoting(w)
               \/ skillServing[w].cand = c /\ p \in {"replaced", "verified", "recording"}
  PROVE SkillInv'
<1> DEFINE new == [pc |-> p, cand |-> c, alive |-> FALSE]
<1>1. new \in WorkerForms /\ new.pc = p /\ new.cand = c /\ new.alive = FALSE
  BY DEF WorkerForms
<1>2. skillServing' = [skillServing EXCEPT ![w] = new]
  BY DEF Goes
<1> HIDE DEF new
<1>3. skillServing' \in [SkillWorkers -> WorkerForms]
  BY <1>1, <1>2 DEF SkillInv, SkillTypes
<1>4. \A v \in SkillWorkers : v # w => skillServing'[v] = skillServing[v]
  BY <1>2 DEF SkillInv, SkillTypes
<1>5. skillServing'[w] = new
  BY <1>2 DEF SkillInv, SkillTypes
<1>6. SkillTypes'
  BY <1>1, <1>3, <1>4, <1>5 DEF SkillInv, SkillTypes
<1>7. PromotionUndoable'
  <2>1. \A v \in SkillWorkers : v # w /\ Promoting(v) => Promoting(v)' /\ skillServing'[v] = skillServing[v]
    BY <1>4 DEF Promoting
  <2>2. p \in {"replaced", "verified", "recording"} => Promoting(w)' /\ skillServing'[w].cand = c
    BY <1>1, <1>5 DEF Promoting
  <2>3. \A d : SkillReceipt(d, "promoted")' = SkillReceipt(d, "promoted")
    BY DEF SkillReceipt
  <2>4. QED
    BY <2>1, <2>2, <2>3 DEF SkillInv, PromotionUndoable
<1>8. PromotedWasApproved'
  BY DEF SkillInv, PromotedWasApproved
<1>9. HeldOutUnseen'
  BY <1>1, <1>4, <1>5 DEF SkillInv, HeldOutUnseen, Busy
<1>10. \A v \in SkillWorkers :
       (Busy(v, "checked") \/ Promoting(v))' => skillServing'[v].cand \in approved'
  BY <1>1, <1>4, <1>5 DEF SkillInv, Busy, Promoting
<1>11. QED
  BY <1>6, <1>7, <1>8, <1>9, <1>10 DEF SkillInv

\* Each request, the owner and the end of the daemon keep it.
LEMMA SkillStep == ASSUME SkillInv, [SkillNext]_skillVars PROVE SkillInv'
<1> USE DEF Busy
<1>0. \A w \in SkillWorkers : skillServing[w].pc # "idle" => skillServing[w].cand \in CandidateForms
  BY DEF SkillInv, SkillTypes
<1>1. ASSUME NEW w \in SkillWorkers, StartOptimize(w) PROVE SkillInv'
  <2> DEFINE c == [parent |-> skillFile, after |-> "none", passed |-> FALSE, context |-> context]
             new == [pc |-> "provider", alive |-> TRUE, cand |-> c]
  <2>1. c \in CandidateForms
    BY DEF CandidateForms, SkillInv, SkillTypes, SkillTexts
  <2>2. new \in WorkerForms /\ new.pc = "provider" /\ new.cand \in CandidateForms
    BY <2>1 DEF WorkerForms, SkillPcs
  <2>3. skillServing' = [skillServing EXCEPT ![w] = new]
    BY <1>1 DEF StartOptimize
  <2> HIDE DEF new
  <2>4. skillServing' \in [SkillWorkers -> WorkerForms]
    BY <2>2, <2>3 DEF SkillInv, SkillTypes
  <2>5. skillServing'[w] = new /\ \A v \in SkillWorkers : v # w => skillServing'[v] = skillServing[v]
    BY <2>3 DEF SkillInv, SkillTypes
  <2>6. UNCHANGED <<skillFile, context, candidates, approved, promotions, cutShort, written>>
    BY <1>1 DEF StartOptimize
  <2>7. SkillTypes'
    BY <2>2, <2>4, <2>5, <2>6 DEF SkillInv, SkillTypes
  <2>8. PromotionUndoable'
    BY <1>1, <2>5, <2>6 DEF StartOptimize, SkillInv, PromotionUndoable, Promoting, SkillReceipt
  <2>9. QED
    BY <2>2, <2>5, <2>6, <2>7, <2>8 DEF SkillInv, HeldOutUnseen, PromotedWasApproved, Promoting
<1>2. ASSUME NEW w \in SkillWorkers, NEW p \in Proposals \cup {"none"}, ProviderEnds(w, p) PROVE SkillInv'
  <2>1. UNCHANGED <<skillFile, context, candidates, approved, promotions, cutShort, written>>
    BY <1>2 DEF ProviderEnds
  <2>2. CASE p = "none"
    <3>1. Finish(w) /\ skillServing[w].pc = "provider"
      BY <1>2, <2>2 DEF ProviderEnds
    <3>2. QED
      BY <2>1, <3>1, FinishKeeps DEF SkillInv, SkillTypes, Promoting
  <2>3. CASE p # "none"
    <3> DEFINE old == skillServing[w]
               c == [old.cand EXCEPT !.after = p]
               a1 == [old EXCEPT !.pc = "harness"]
               a2 == [a1 EXCEPT !.cand = c]
               new == [a2 EXCEPT !.alive = FALSE]
    <3>1. old \in WorkerForms /\ old.pc = "provider" /\ old.cand \in CandidateForms
      BY <1>0, <1>2 DEF ProviderEnds, SkillInv, SkillTypes
    <3>2. c \in CandidateForms
      BY <3>1 DEF CandidateForms, SkillTexts
    <3>3. a1 \in WorkerForms /\ a1.pc = "harness"
      BY <3>1 DEF WorkerForms, SkillPcs
    <3>4. skillServing' = [skillServing EXCEPT ![w] = new]
      BY <1>2, <2>3, <3>1 DEF ProviderEnds, Reap, WorkerForms
    <3> HIDE DEF c
    <3>5. a2 \in WorkerForms /\ a2.pc = "harness" /\ a2.cand = c
      <4> HIDE DEF a1
      <4>1. QED
        BY <3>2, <3>3 DEF WorkerForms
    <3>6. new \in WorkerForms /\ new.pc = "harness" /\ new.cand = c /\ new.alive = FALSE
      <4> HIDE DEF a2
      <4>1. QED
        BY <3>5 DEF WorkerForms
    <3> HIDE DEF new
    <3>7. skillServing' \in [SkillWorkers -> WorkerForms]
      BY <3>4, <3>6 DEF SkillInv, SkillTypes
    <3>8. skillServing'[w] = new /\ \A v \in SkillWorkers : v # w => skillServing'[v] = skillServing[v]
      BY <3>4 DEF SkillInv, SkillTypes
    <3>9. SkillTypes'
      BY <2>1, <3>2, <3>6, <3>7, <3>8 DEF SkillInv, SkillTypes
    <3>10. PromotionUndoable'
      BY <2>1, <3>1, <3>8 DEF SkillInv, PromotionUndoable, Promoting, SkillReceipt
    <3>11. QED
      BY <2>1, <3>6, <3>8, <3>9, <3>10 DEF SkillInv, HeldOutUnseen, PromotedWasApproved, Promoting
  <2>4. QED
    BY <2>2, <2>3
<1>3. ASSUME NEW w \in SkillWorkers, NEW j, HarnessEnds(w, j) PROVE SkillInv'
  <2>1. /\ UNCHANGED <<skillFile, context, candidates, approved, promotions, cutShort, written>>
        /\ skillServing[w].pc = "harness" /\ skillServing[w].cand \in CandidateForms
    BY <1>0, <1>3 DEF HarnessEnds
  <2>2. CASE j = "unusable"
    BY <1>3, <2>1, <2>2, FinishKeeps DEF HarnessEnds, SkillInv, SkillTypes, Promoting
  <2>3. CASE j # "unusable"
    <3> DEFINE c == [skillServing[w].cand EXCEPT !.passed = (j = "passed")]
    <3>1. c \in CandidateForms
      BY <2>1 DEF CandidateForms
    <3>2. Goes(w, "stage", c)
      BY <1>3, <2>3 DEF HarnessEnds
    <3> HIDE DEF c
    <3>3. "stage" \in SkillPcs \ {"idle"}
      BY DEF SkillPcs
    <3>4. QED
      BY <2>1, <3>1, <3>2, <3>3, GoesKeeps DEF SkillInv, SkillTypes, Promoting
  <2>4. QED
    BY <2>2, <2>3
<1>4. ASSUME NEW w \in SkillWorkers, StageCandidate(w) PROVE SkillInv'
  <2>1. /\ UNCHANGED <<skillFile, context, approved, promotions, cutShort, written>>
        /\ skillServing[w].pc = "stage" /\ skillServing[w].cand \in CandidateForms /\ Finish(w)
        /\ candidates' \in {candidates, candidates \cup {skillServing[w].cand}}
    BY <1>0, <1>4 DEF StageCandidate
  <2>2. candidates' \subseteq CandidateForms /\ candidates \subseteq candidates'
    BY <2>1 DEF SkillInv, SkillTypes
  <2>3. QED
    BY <2>1, <2>2, FinishKeeps DEF SkillInv, SkillTypes, Promoting
<1>5. ASSUME NEW w \in SkillWorkers, NEW c \in approved, ApplyPromotion(w, c) PROVE SkillInv'
  <2>1. c \in CandidateForms /\ "checked" \in SkillPcs \ {"idle"}
    BY DEF SkillInv, SkillTypes, SkillPcs
  <2>2. QED
    BY <1>5, <2>1, GoesKeeps DEF ApplyPromotion, SkillInv, SkillTypes, Promoting
<1>6. ASSUME NEW w \in SkillWorkers, ReplaceSource(w) PROVE SkillInv'
  <2> DEFINE c == skillServing[w].cand
  <2>1. c \in CandidateForms /\ c \in approved /\ "replaced" \in SkillPcs \ {"idle"} /\ c.after \in SkillTexts
    BY <1>0, <1>6 DEF ReplaceSource, SkillInv, SkillPcs, CandidateForms
  <2>2. QED
    BY <1>6, <2>1, GoesKeeps DEF ReplaceSource, SkillInv, SkillTypes, Promoting
<1>7. ASSUME NEW w \in SkillWorkers, VerifyPromotion(w) PROVE SkillInv'
  <2> DEFINE c == skillServing[w].cand
  <2>1. c \in CandidateForms /\ c \in approved /\ "verified" \in SkillPcs \ {"idle"} /\ c.parent \in SkillTexts
    BY <1>0, <1>7 DEF VerifyPromotion, SkillInv, SkillPcs, CandidateForms, Promoting
  <2>2. CASE skillFile = c.after
    BY <1>7, <2>1, <2>2, GoesKeeps DEF VerifyPromotion, SkillInv, SkillTypes, Promoting
  <2>3. CASE skillFile # c.after
    BY <1>7, <2>1, <2>3, FinishKeeps DEF VerifyPromotion, SkillInv, SkillTypes
  <2>4. QED
    BY <2>2, <2>3
<1>8. ASSUME NEW w \in SkillWorkers, RecordPromotion(w) PROVE SkillInv'
  <2> DEFINE c == skillServing[w].cand
             r == SkillReceipt(c, "torn")
  <2>1. c \in CandidateForms /\ c \in approved
    BY <1>0, <1>8 DEF RecordPromotion, SkillInv, Promoting
  <2>2. CASE promotions' = promotions \cup {r} /\ Goes(w, "recording", c) /\ UNCHANGED cutShort
    <3>1. r \in ReceiptForms /\ "recording" \in SkillPcs \ {"idle"}
      BY <2>1 DEF ReceiptForms, SkillReceipt, SkillPcs
    <3> HIDE DEF r
    <3>2. promotions' \subseteq ReceiptForms /\ promotions \subseteq promotions'
      BY <2>2, <3>1 DEF SkillInv, SkillTypes
    <3>3. QED
      BY <1>8, <2>1, <2>2, <3>1, <3>2, GoesKeeps DEF RecordPromotion, SkillInv, SkillTypes
  <2>3. CASE /\ SkillReceipt(c, "promoted") \in promotions /\ UNCHANGED promotions
             /\ cutShort' = cutShort \ {c} /\ Finish(w)
    <3>1. \A d \in cutShort : d \in cutShort' \/ SkillReceipt(d, "promoted") \in promotions'
      BY <2>3
    <3>2. QED
      BY <1>8, <2>3, <3>1, FinishKeeps DEF RecordPromotion, SkillInv, SkillTypes
  <2>4. QED
    BY <1>8, <2>2, <2>3 DEF RecordPromotion
<1>17. ASSUME NEW w \in SkillWorkers, WriteReceipt(w) PROVE SkillInv'
  <2> DEFINE c == skillServing[w].cand
             r == SkillReceipt(c, "promoted")
             t == SkillReceipt(c, "torn")
  <2>1. c \in CandidateForms
    BY <1>0, <1>17 DEF WriteReceipt
  <2>2. r \in ReceiptForms
    BY <2>1 DEF ReceiptForms, SkillReceipt
  <2>3. \A d : SkillReceipt(d, "promoted") # t
    BY DEF SkillReceipt
  <2>4. /\ promotions' = (promotions \ {t}) \cup {r} /\ cutShort' = cutShort \ {c} /\ Finish(w)
        /\ UNCHANGED <<skillFile, context, candidates, approved, written>>
    BY <1>17 DEF WriteReceipt
  <2>5. promotions' \subseteq ReceiptForms
    BY <2>2, <2>4 DEF SkillInv, SkillTypes
  <2>6. /\ \A d : SkillReceipt(d, "promoted") \in promotions => SkillReceipt(d, "promoted") \in promotions'
        /\ SkillReceipt(c, "promoted") \in promotions'
    BY <2>3, <2>4
  <2>7. \A d \in cutShort : d \in cutShort' \/ SkillReceipt(d, "promoted") \in promotions'
    BY <2>4, <2>6
  <2>8. QED
    BY <2>4, <2>5, <2>6, <2>7, FinishKeeps DEF SkillInv, SkillTypes
<1>18. ASSUME NEW w \in SkillWorkers, PromotionFails(w) \/ RollbackFails(w) PROVE SkillInv'
  <2>1. /\ Finish(w) /\ UNCHANGED <<skillFile, context, candidates, approved, promotions, written>>
        /\ \A d \in cutShort : d \in cutShort'
        /\ ~Promoting(w) \/ skillServing[w].cand \in cutShort'
    BY <1>18 DEF PromotionFails, RollbackFails, Promoting
  <2>2. QED
    BY <2>1, FinishKeeps DEF SkillInv, SkillTypes
<1>9. ASSUME NEW w \in SkillWorkers, NEW r \in promotions, RollbackPromotion(w, r) PROVE SkillInv'
  <2>1. r \in ReceiptForms
    BY DEF SkillInv, SkillTypes
  <2>2. r.cand \in CandidateForms
    BY <2>1 DEF ReceiptForms
  <2>3. "undo" \in SkillPcs \ {"idle"} /\ "undo" \notin {"checked", "replaced", "verified", "recording"}
    BY DEF SkillPcs
  <2>4. QED
    BY <1>9, <2>2, <2>3, GoesKeeps DEF RollbackPromotion, SkillInv, SkillTypes, Promoting
<1>10. ASSUME NEW w \in SkillWorkers, RestoreSource(w) PROVE SkillInv'
  <2>1. /\ skillServing[w].cand \in CandidateForms /\ "undone" \in SkillPcs \ {"idle"}
        /\ "undone" \notin {"checked", "replaced", "verified", "recording"}
        /\ skillServing[w].cand.parent \in SkillTexts
    BY <1>0, <1>10 DEF RestoreSource, SkillPcs, CandidateForms
  <2>2. QED
    BY <1>10, <2>1, GoesKeeps DEF RestoreSource, SkillInv, SkillTypes, Promoting
<1>11. ASSUME NEW w \in SkillWorkers, RecordRollback(w) PROVE SkillInv'
  <2> DEFINE r == SkillReceipt(skillServing[w].cand, "rolled_back")
  <2>1. r \in ReceiptForms
    BY <1>0, <1>11 DEF RecordRollback, ReceiptForms, SkillReceipt
  <2>2. promotions' \in {promotions, promotions \cup {r}}
    BY <1>11 DEF RecordRollback
  <2> HIDE DEF r
  <2>3. promotions' \subseteq ReceiptForms /\ promotions \subseteq promotions'
    BY <2>1, <2>2 DEF SkillInv, SkillTypes
  <2>4. QED
    BY <1>11, <2>3, FinishKeeps DEF RecordRollback, SkillInv, SkillTypes, Promoting
<1>12. ASSUME NEW c \in candidates, PlanPromotion(c) PROVE SkillInv'
  BY <1>12 DEF PlanPromotion, Approvable, SkillInv, SkillTypes, HeldOutUnseen, PromotedWasApproved, PromotionUndoable,
     Promoting, SkillReceipt
<1>13. CASE OwnerMoves
  <2>1. UNCHANGED <<candidates, approved, promotions, skillServing, cutShort>> /\ written' \in {Nobody, written}
    BY <1>13 DEF OwnerMoves
  <2>2. skillFile' \in SkillTexts
    BY <1>13 DEF OwnerMoves, SkillInv, SkillTypes, SkillTexts
  <2>3. context' \in SkillContexts
    <3>1. CASE UNCHANGED context
      BY <3>1 DEF SkillInv, SkillTypes
    <3>2. CASE context' = [context EXCEPT !["head"] = 3 - @]
      BY <3>2 DEF SkillInv, SkillTypes, SkillContexts
    <3>3. CASE context' = [context EXCEPT !["policy"] = 3 - @]
      BY <3>3 DEF SkillInv, SkillTypes, SkillContexts
    <3>4. QED
      BY <1>13, <3>1, <3>2, <3>3 DEF OwnerMoves
  <2>4. QED
    BY <2>1, <2>2, <2>3 DEF SkillInv, SkillTypes, HeldOutUnseen, PromotedWasApproved, PromotionUndoable,
     Promoting, SkillReceipt
<1>14. CASE SkillDaemonDies
  <2>1. Unserved \in WorkerForms /\ Unserved.pc = "idle" /\ Unserved.alive = FALSE
    BY DEF WorkerForms, Unserved, SkillPcs
  <2>2. /\ skillServing' = [w \in SkillWorkers |-> Unserved]
        /\ UNCHANGED <<skillFile, context, candidates, approved, promotions, written>>
    BY <1>14 DEF SkillDaemonDies
  <2> HIDE DEF Unserved
  <2>3. \A w \in SkillWorkers : skillServing'[w] = Unserved
    BY <2>2
  <2>4. SkillTypes'
    BY <2>1, <2>2, <2>3 DEF SkillInv, SkillTypes
  <2>5. PromotionUndoable'
    BY <1>14, <2>2 DEF SkillDaemonDies, SkillInv, PromotionUndoable, SkillReceipt
  <2>6. QED
    BY <2>1, <2>2, <2>3, <2>4, <2>5 DEF SkillInv, HeldOutUnseen, PromotedWasApproved, Promoting
<1>15. CASE UNCHANGED skillVars
  BY <1>15 DEF skillVars, SkillInv, SkillTypes, HeldOutUnseen, PromotedWasApproved, PromotionUndoable,
     Promoting, SkillReceipt
<1>16. QED
  BY <1>1, <1>2, <1>3, <1>4, <1>5, <1>6, <1>7, <1>8, <1>9, <1>10, <1>11, <1>12, <1>13, <1>14, <1>15,
     <1>17, <1>18 DEF SkillNext

-----------------------------------------------------------------------------
(* Skills: the upgrade of an optimizer provider. *)

UpgradeStages == {"none", "made", "synced", "checked", "tried", "moved", "reported"}

\* What is past the trial was tried; only what is under way, was abandoned or
\* was reported has a directory.
UpgradeInv ==
  /\ upRoot \in [ProviderLocks -> UpgradeStages]
  /\ finalEnv \in [ProviderLocks -> {"none", "fresh", "changed"}]
  /\ \A v \in ProviderLocks : upRoot[v] \in {"tried", "moved", "reported"} => v \in tried
  /\ reports \subseteq tried
  /\ InstalledTried /\ UpgradeRepeatable

\* No upgrade has begun at first.
LEMMA UpgradeStart == ASSUME UpgradeInit PROVE UpgradeInv
BY DEF UpgradeInit, UpgradeInv, UpgradeStages, InstalledTried, UpgradeRepeatable

\* Each step of an upgrade, an edit and the end of the daemon keep it.
LEMMA UpgradeStep == ASSUME UpgradeInv, [UpgradeNext]_upgradeVars PROVE UpgradeInv'
<1> USE DEF UpgradeInv, UpgradeStages, InstalledTried, UpgradeRepeatable
<1>1. ASSUME NEW v \in ProviderLocks, BeginUpgrade(v) PROVE UpgradeInv'
  BY <1>1 DEF BeginUpgrade
<1>2. ASSUME NEW v \in ProviderLocks, UpgradeFails(v) PROVE UpgradeInv'
  BY <1>2 DEF UpgradeFails, Cleaned
<1>3. ASSUME NEW v \in ProviderLocks, SyncEnvironment(v) \/ CheckEnvironment(v) PROVE UpgradeInv'
  BY <1>3 DEF SyncEnvironment, CheckEnvironment, Steps
<1>4. ASSUME NEW v \in ProviderLocks, TryEnvironment(v) PROVE UpgradeInv'
  BY <1>4 DEF TryEnvironment, Steps
<1>5. ASSUME NEW v \in ProviderLocks, InstallProvider(v) PROVE UpgradeInv'
  BY <1>5 DEF InstallProvider, Installable
<1>6. ASSUME NEW v \in ProviderLocks, ReportUpgrade(v) PROVE UpgradeInv'
  BY <1>6 DEF ReportUpgrade, Steps
<1>7. ASSUME NEW v \in ProviderLocks, ActivateProvider(v) \/ EnvironmentEdited(v) PROVE UpgradeInv'
  BY <1>7 DEF ActivateProvider, EnvironmentEdited
<1>8. CASE UpgradeDaemonDies
  BY <1>8 DEF UpgradeDaemonDies
<1>9. CASE UNCHANGED upgradeVars
  BY <1>9 DEF upgradeVars
<1>10. QED
  BY <1>1, <1>2, <1>3, <1>4, <1>5, <1>6, <1>7, <1>8, <1>9 DEF UpgradeNext

\* Only a reported provider is activated, and a reported one was tried.
LEMMA UpgradeKeeps == ASSUME UpgradeInv, [UpgradeNext]_upgradeVars PROVE ActivatesTried
BY DEF UpgradeInv, UpgradeNext, upgradeVars, ActivatesTried, BeginUpgrade, UpgradeFails, SyncEnvironment,
   CheckEnvironment, TryEnvironment, InstallProvider, ReportUpgrade, ActivateProvider, Compatible,
   EnvironmentEdited, UpgradeDaemonDies

-----------------------------------------------------------------------------
(* Skills: deployments to the canary. *)

PaperForms == [Labels -> {"none", "whole", "torn"} \cup Terminal]
LedgerStates == {"none", "prepared", "open", "rolling"} \cup Terminal
DeployerSteps == {"idle", "anchor_intent", "execute", "run", "receipt", "anchor_receipt"}
UndoerSteps == {"idle", "undo", "rolled_back", "rollback_failed", "anchor_rollback", "anchor_failure"}

CanaryTypes ==
  /\ saw \in [CanaryRuns -> Int] /\ carried \subseteq CanaryRuns
  /\ ledger \in [CanaryRuns -> LedgerStates]
  /\ paper \in [CanaryRuns -> PaperForms]
  /\ anchored \in [CanaryRuns -> SUBSET Labels]
  /\ deployer \in [pc : DeployerSteps, run : CanaryRuns \cup {0}]
  /\ undoer \in [pc : UndoerSteps, run : CanaryRuns \cup {0}]
  /\ deployer.pc # "idle" => deployer.run \in CanaryRuns
  /\ undoer.pc # "idle" => undoer.run \in CanaryRuns
  /\ canary \in Int

\* Records are written and anchored in order, and only for runs that got there.
RecordsInOrder ==
  \A r \in CanaryRuns :
    /\ "intent" \in anchored[r] => paper[r]["intent"] = "whole"
    /\ paper[r]["intent"] = "none" => paper[r]["receipt"] = "none" /\ paper[r]["recovery"] = "none"
    /\ "receipt" \in anchored[r] =>
         /\ paper[r]["receipt"] = "whole" /\ "intent" \in anchored[r]
         /\ ledger[r] \in {"succeeded", "rolling", "rolled_back", "rollback_failed"}
         /\ paper[r]["recovery"] = "none"
    /\ r \in carried => paper[r]["intent"] # "none"
    /\ r \in carried /\ runtime = "up" => paper[r]["receipt"] # "none" \/ paper[r]["recovery"] # "none"

\* The deployment that holds the mutex has no receipt yet; an undo works on a
\* deployed run; neither exists while the runtime is down or opening.
CanaryWorkers ==
  /\ runtime # "up" => deployer = Rest /\ undoer = Rest
  /\ deployer.pc # "idle" =>
       /\ paper[deployer.run]["recovery"] = "none" /\ "receipt" \notin anchored[deployer.run]
       /\ paper[deployer.run]["intent"] = "whole"
  /\ deployer.pc = "anchor_intent" => "intent" \notin anchored[deployer.run]
  /\ deployer.pc \in {"execute", "run", "receipt", "anchor_receipt"} => "intent" \in anchored[deployer.run]
  /\ deployer.pc \in {"anchor_intent", "execute", "run", "receipt"} => paper[deployer.run]["receipt"] = "none"
  /\ deployer.pc \in {"receipt", "anchor_receipt"} => ledger[deployer.run] = "succeeded"
  /\ deployer.pc = "anchor_receipt" => paper[deployer.run]["receipt"] = "whole"
  /\ undoer.pc # "idle" => "receipt" \in anchored[undoer.run]

CanaryInv == CanaryTypes /\ RecordsInOrder /\ CanaryWorkers

\* The runtime starts with nothing recorded.
LEMMA CanaryStart == ASSUME CanaryInit PROVE CanaryInv
<1>1. [l \in Labels |-> "none"] \in PaperForms /\ \A l \in Labels : [m \in Labels |-> "none"][l] = "none"
  BY DEF PaperForms
<1>2. "intent" \in Labels /\ "receipt" \in Labels /\ "recovery" \in Labels
  BY DEF Labels
<1>3. Rest \in [pc : DeployerSteps, run : CanaryRuns \cup {0}] /\ Rest \in [pc : UndoerSteps, run : CanaryRuns \cup {0}]
      /\ Rest.pc = "idle"
  BY DEF Rest, CanaryAt, DeployerSteps, UndoerSteps
<1>4. CanaryTypes
  BY <1>1, <1>3 DEF CanaryInit, CanaryTypes, LedgerStates
<1>5. RecordsInOrder
  BY <1>1, <1>2 DEF CanaryInit, RecordsInOrder
<1>6. CanaryWorkers
  BY <1>3 DEF CanaryInit, CanaryWorkers
<1>7. QED
  BY <1>4, <1>5, <1>6 DEF CanaryInv

\* What the invariant says of the properties.
LEMMA CanarySafe == ASSUME CanaryInv PROVE ReceiptMeansDeployed /\ ServingSettled
BY DEF CanaryInv, RecordsInOrder, CanaryTypes, ReceiptMeansDeployed, ServingSettled, Verified, Labels

\* A record is written under its label; the others stay.
LEMMA PaperWritten ==
  ASSUME CanaryTypes, NEW r \in CanaryRuns, NEW l \in Labels, NEW v \in {"whole"} \cup Terminal, Persisted(r, l, v)
  PROVE /\ paper' \in [CanaryRuns -> PaperForms]
        /\ paper[r][l] \in {"none", v} /\ paper'[r][l] = v
        /\ \A m \in Labels : m # l => paper'[r][m] = paper[r][m]
        /\ \A q \in CanaryRuns : q # r => paper'[q] = paper[q]
<1> DEFINE new == [paper[r] EXCEPT ![l] = v]
<1>1. paper[r] \in PaperForms
  BY DEF CanaryTypes
<1>2. new \in PaperForms /\ new[l] = v /\ \A m \in Labels : m # l => new[m] = paper[r][m]
  BY <1>1 DEF PaperForms
<1>3. paper' = [paper EXCEPT ![r] = new] /\ paper[r][l] \in {"none", v}
  BY DEF Persisted
<1> HIDE DEF new
<1>4. QED
  BY <1>2, <1>3 DEF CanaryTypes

\* A record is anchored; the other anchors stay.
LEMMA LabelAnchored ==
  ASSUME CanaryTypes, NEW r \in CanaryRuns, NEW l \in Labels, Anchor(r, l)
  PROVE /\ anchored' \in [CanaryRuns -> SUBSET Labels]
        /\ anchored'[r] = anchored[r] \cup {l}
        /\ \A q \in CanaryRuns : q # r => anchored'[q] = anchored[q]
BY DEF CanaryTypes, Anchor

\* The states of the two workers.
LEMMA WorkerForm ==
  ASSUME NEW r \in CanaryRuns
  PROVE /\ \A p \in DeployerSteps : /\ CanaryAt(p, r) \in [pc : DeployerSteps, run : CanaryRuns \cup {0}]
                                    /\ CanaryAt(p, r).pc = p /\ CanaryAt(p, r).run = r
        /\ \A p \in UndoerSteps : /\ CanaryAt(p, r) \in [pc : UndoerSteps, run : CanaryRuns \cup {0}]
                                  /\ CanaryAt(p, r).pc = p /\ CanaryAt(p, r).run = r
        /\ Rest \in [pc : DeployerSteps, run : CanaryRuns \cup {0}]
        /\ Rest \in [pc : UndoerSteps, run : CanaryRuns \cup {0}] /\ Rest.pc = "idle"
BY DEF CanaryAt, Rest, DeployerSteps, UndoerSteps

\* The label names and steps.
LEMMA CanaryNames ==
  /\ "intent" \in Labels /\ "receipt" \in Labels /\ "recovery" \in Labels /\ "rollback" \in Labels /\ "failure" \in Labels
  /\ {"idle", "anchor_intent", "execute", "run", "receipt", "anchor_receipt"} \subseteq DeployerSteps
  /\ {"idle", "undo", "rolled_back", "rollback_failed", "anchor_rollback", "anchor_failure"} \subseteq UndoerSteps
  /\ Terminal \subseteq LedgerStates /\ {"none", "prepared", "open", "rolling"} \subseteq LedgerStates
BY DEF Labels, DeployerSteps, UndoerSteps, LedgerStates

\* apply: the intent and its anchor.
LEMMA IntentKeeps == ASSUME CanaryInv, (\E r \in CanaryRuns : WriteIntent(r)) \/ AnchorIntent PROVE CanaryInv'
<1>1. ASSUME NEW r \in CanaryRuns, WriteIntent(r) PROVE CanaryInv'
  <2>1. /\ paper' \in [CanaryRuns -> PaperForms] /\ paper'[r]["intent"] = "whole"
        /\ paper'[r]["receipt"] = paper[r]["receipt"] /\ paper'[r]["recovery"] = paper[r]["recovery"]
        /\ \A q \in CanaryRuns : q # r => paper'[q] = paper[q]
    BY <1>1, PaperWritten, CanaryNames DEF WriteIntent, CanaryInv
  <2>2. /\ runtime = "up" /\ paper[r]["intent"] = "none" /\ deployer' = CanaryAt("anchor_intent", r)
        /\ UNCHANGED <<canary, ledger, anchored, runtime, undoer, boots, carried>>
        /\ saw' \in [CanaryRuns -> Int]
    BY <1>1 DEF WriteIntent, Compiled, CanaryInv, CanaryTypes
  <2>3. /\ deployer' \in [pc : DeployerSteps, run : CanaryRuns \cup {0}]
        /\ deployer'.pc = "anchor_intent" /\ deployer'.run = r
    BY <2>2, WorkerForm, CanaryNames
  <2>4. CanaryTypes'
    BY <2>1, <2>2, <2>3 DEF CanaryInv, CanaryTypes
  <2>5. RecordsInOrder'
    BY <2>1, <2>2 DEF CanaryInv, RecordsInOrder
  <2>6. CanaryWorkers'
    BY <2>1, <2>2, <2>3 DEF CanaryInv, RecordsInOrder, CanaryWorkers
  <2>7. QED
    BY <2>4, <2>5, <2>6 DEF CanaryInv
<1>2. ASSUME AnchorIntent PROVE CanaryInv'
  <2> DEFINE r == deployer.run
  <2>1. r \in CanaryRuns /\ deployer.pc = "anchor_intent"
    BY <1>2 DEF AnchorIntent, CanaryInv, CanaryTypes
  <2>2. /\ anchored' \in [CanaryRuns -> SUBSET Labels] /\ anchored'[r] = anchored[r] \cup {"intent"}
        /\ \A q \in CanaryRuns : q # r => anchored'[q] = anchored[q]
    BY <1>2, <2>1, LabelAnchored, CanaryNames DEF AnchorIntent, CanaryInv
  <2>3. deployer' = CanaryAt("execute", r) /\ UNCHANGED <<canary, saw, ledger, paper, runtime, undoer, boots, carried>>
    BY <1>2 DEF AnchorIntent
  <2> HIDE DEF r
  <2>4. /\ deployer' \in [pc : DeployerSteps, run : CanaryRuns \cup {0}]
        /\ deployer'.pc = "execute" /\ deployer'.run = r
    BY <2>1, <2>3, WorkerForm, CanaryNames
  <2>5. CanaryTypes'
    BY <2>1, <2>2, <2>3, <2>4 DEF CanaryInv, CanaryTypes
  <2>6. RecordsInOrder'
    BY <2>1, <2>2, <2>3 DEF CanaryInv, RecordsInOrder, CanaryWorkers, r
  <2>7. CanaryWorkers'
    BY <2>1, <2>2, <2>3, <2>4 DEF CanaryInv, CanaryWorkers, CanaryTypes, Rest, CanaryAt, r
  <2>8. QED
    BY <2>5, <2>6, <2>7 DEF CanaryInv
<1>3. QED
  BY <1>1, <1>2

\* apply: the run itself.
LEMMA RunKeeps ==
  ASSUME CanaryInv, OpenJournal \/ ApplyCanary \/ CancelRun
                    \/ \E o \in {"succeeded", "rolled_back", "rollback_failed", "open"} : FinishRun(o)
  PROVE CanaryInv'
<1> DEFINE r == deployer.run
<1>1. r \in CanaryRuns /\ deployer.pc \in {"execute", "run"}
  BY DEF OpenJournal, ApplyCanary, CancelRun, FinishRun, CanaryInv, CanaryTypes
<1>2. UNCHANGED <<saw, paper, anchored, runtime, undoer, boots, carried>>
  BY DEF OpenJournal, ApplyCanary, CancelRun, FinishRun
<1>3. \E o \in LedgerStates : ledger' = [ledger EXCEPT ![r] = o]
  BY DEF OpenJournal, ApplyCanary, CancelRun, FinishRun, LedgerStates, Terminal
<1>4. canary' \in Int
  <2>0. r \in Int
    <3>1. \A q \in CanaryRuns : q \in Int
      BY CanaryBounds
    <3>2. QED
      BY <1>1, <3>1
  <2>1. saw[r] \in Int /\ canary \in Int
    BY <1>1 DEF CanaryInv, CanaryTypes
  <2>2. canary' \in {canary, r, saw[r]}
    BY DEF OpenJournal, ApplyCanary, CancelRun, FinishRun
  <2>3. QED
    BY <2>0, <2>1, <2>2
<1>5. /\ deployer' \in {deployer, Rest, CanaryAt("run", r), CanaryAt("receipt", r)}
      /\ deployer' = CanaryAt("receipt", r) => ledger' = [ledger EXCEPT ![r] = "succeeded"]
  BY DEF OpenJournal, ApplyCanary, CancelRun, FinishRun, Rest, CanaryAt
<1>6. /\ deployer' \in [pc : DeployerSteps, run : CanaryRuns \cup {0}]
      /\ deployer'.pc \in {"idle", "execute", "run", "receipt"}
      /\ deployer'.pc # "idle" => deployer'.run = r
      /\ deployer'.pc = "receipt" => deployer' = CanaryAt("receipt", r)
  BY <1>1, <1>5, WorkerForm, CanaryNames DEF CanaryInv, CanaryTypes
<1> HIDE DEF r
<1>7. /\ ledger' \in [CanaryRuns -> LedgerStates] /\ \A q \in CanaryRuns : q # r => ledger'[q] = ledger[q]
      /\ deployer'.pc = "receipt" => ledger'[r] = "succeeded"
  BY <1>1, <1>3, <1>5, <1>6 DEF CanaryInv, CanaryTypes
<1>8. CanaryTypes'
  BY <1>1, <1>2, <1>4, <1>6, <1>7 DEF CanaryInv, CanaryTypes
<1>9. "receipt" \notin anchored[r] /\ paper[r]["receipt"] = "none" /\ runtime = "up" /\ "intent" \in anchored[r]
  BY <1>1 DEF CanaryInv, CanaryWorkers, Rest, CanaryAt, r
<1>10. RecordsInOrder'
  BY <1>1, <1>2, <1>7, <1>9 DEF CanaryInv, RecordsInOrder
<1>11. CanaryWorkers'
  BY <1>1, <1>2, <1>6, <1>7, <1>9 DEF CanaryInv, CanaryWorkers, CanaryTypes, r
<1>12. QED
  BY <1>8, <1>10, <1>11 DEF CanaryInv

\* apply: the receipt and its anchor.
LEMMA DeploymentKeeps == ASSUME CanaryInv, WriteDeployment \/ AnchorDeployment PROVE CanaryInv'
<1> DEFINE r == deployer.run
<1>0. r \in CanaryRuns /\ deployer.pc \in {"receipt", "anchor_receipt"} /\ runtime = "up"
  BY DEF WriteDeployment, AnchorDeployment, CanaryInv, CanaryTypes, CanaryWorkers, Rest, CanaryAt
<1>1. CASE WriteDeployment
  <2>1. /\ paper' \in [CanaryRuns -> PaperForms] /\ paper'[r]["receipt"] = "whole"
        /\ paper'[r]["intent"] = paper[r]["intent"] /\ paper'[r]["recovery"] = paper[r]["recovery"]
        /\ \A q \in CanaryRuns : q # r => paper'[q] = paper[q]
    BY <1>0, <1>1, PaperWritten, CanaryNames DEF WriteDeployment, CanaryInv
  <2>2. deployer' = CanaryAt("anchor_receipt", r) /\ UNCHANGED <<canary, saw, ledger, anchored, runtime, undoer, boots, carried>>
    BY <1>1 DEF WriteDeployment
  <2>3. deployer.pc = "receipt"
    BY <1>1 DEF WriteDeployment
  <2> HIDE DEF r
  <2>4. /\ deployer' \in [pc : DeployerSteps, run : CanaryRuns \cup {0}]
        /\ deployer'.pc = "anchor_receipt" /\ deployer'.run = r
    BY <1>0, <2>2, WorkerForm, CanaryNames
  <2>5. CanaryTypes'
    BY <1>0, <2>1, <2>2, <2>4 DEF CanaryInv, CanaryTypes
  <2>6. RecordsInOrder'
    BY <1>0, <2>1, <2>2, <2>3 DEF CanaryInv, RecordsInOrder, CanaryWorkers, r
  <2>7. CanaryWorkers'
    BY <1>0, <2>1, <2>2, <2>3, <2>4 DEF CanaryInv, CanaryWorkers, CanaryTypes, r
  <2>8. QED
    BY <2>5, <2>6, <2>7 DEF CanaryInv
<1>2. CASE AnchorDeployment
  <2>1. /\ anchored' \in [CanaryRuns -> SUBSET Labels] /\ anchored'[r] = anchored[r] \cup {"receipt"}
        /\ \A q \in CanaryRuns : q # r => anchored'[q] = anchored[q]
    BY <1>0, <1>2, LabelAnchored, CanaryNames DEF AnchorDeployment, CanaryInv
  <2>2. deployer' = Rest /\ UNCHANGED <<canary, saw, ledger, paper, runtime, undoer, boots, carried>>
    BY <1>2 DEF AnchorDeployment
  <2>3. deployer.pc = "anchor_receipt"
    BY <1>2 DEF AnchorDeployment
  <2>4. Rest \in [pc : DeployerSteps, run : CanaryRuns \cup {0}] /\ Rest.pc = "idle"
    BY <1>0, WorkerForm
  <2> HIDE DEF r
  <2>5. CanaryTypes'
    BY <1>0, <2>1, <2>2, <2>4 DEF CanaryInv, CanaryTypes
  <2>6. RecordsInOrder'
    BY <1>0, <2>1, <2>2, <2>3 DEF CanaryInv, RecordsInOrder, CanaryWorkers, r
  <2>7. CanaryWorkers'
    BY <1>0, <2>1, <2>2, <2>3, <2>4 DEF CanaryInv, CanaryWorkers, CanaryTypes, r
  <2>8. QED
    BY <2>5, <2>6, <2>7 DEF CanaryInv
<1>3. QED
  BY <1>1, <1>2

\* rollback: it starts from a verified receipt and stays with its run.
LEMMA UndoKeeps ==
  ASSUME CanaryInv, \/ \E r \in CanaryRuns : StartUndo(r)
                    \/ \E o \in {"rolled_back", "rollback_failed"} : UndoRun(o)
  PROVE CanaryInv'
<1>1. PICK r \in CanaryRuns, o \in {"rolling", "rolled_back", "rollback_failed"} :
        /\ "receipt" \in anchored[r] /\ runtime = "up"
        /\ ledger' = [ledger EXCEPT ![r] = o]
        /\ undoer' \in {CanaryAt("undo", r), CanaryAt("rolled_back", r), CanaryAt("rollback_failed", r)}
        /\ canary' \in {canary, saw[r]}
        /\ UNCHANGED <<saw, paper, anchored, runtime, deployer, boots, carried>>
  <2>1. ASSUME NEW r \in CanaryRuns, StartUndo(r) PROVE "receipt" \in anchored[r]
    BY <2>1 DEF StartUndo, Loadable, Verified
  <2>2. ASSUME undoer.pc = "undo" PROVE undoer.run \in CanaryRuns /\ "receipt" \in anchored[undoer.run] /\ runtime = "up"
    BY <2>2 DEF CanaryInv, CanaryTypes, CanaryWorkers, Rest, CanaryAt
  <2>3. CASE \E r \in CanaryRuns : StartUndo(r)
    BY <2>1, <2>3 DEF StartUndo
  <2>4. ASSUME NEW o \in {"rolled_back", "rollback_failed"}, UndoRun(o)
        PROVE /\ "receipt" \in anchored[undoer.run] /\ runtime = "up" /\ undoer.run \in CanaryRuns
              /\ ledger' = [ledger EXCEPT ![undoer.run] = o]
              /\ undoer' = CanaryAt(o, undoer.run)
              /\ canary' \in {canary, saw[undoer.run]}
              /\ UNCHANGED <<saw, paper, anchored, runtime, deployer, boots, carried>>
    BY <2>2, <2>4 DEF UndoRun
  <2>5. QED
    BY <2>3, <2>4
<1>2. /\ undoer' \in [pc : UndoerSteps, run : CanaryRuns \cup {0}] /\ undoer'.run = r
  BY <1>1, WorkerForm, CanaryNames
<1>3. canary' \in Int
  BY <1>1 DEF CanaryInv, CanaryTypes
<1>4. /\ ledger' \in [CanaryRuns -> LedgerStates] /\ \A q \in CanaryRuns : q # r => ledger'[q] = ledger[q]
      /\ ledger'[r] \in {"rolling", "rolled_back", "rollback_failed"}
  BY <1>1 DEF CanaryInv, CanaryTypes, LedgerStates, Terminal
<1>5. deployer.pc # "idle" => deployer.run # r
  BY <1>1 DEF CanaryInv, CanaryWorkers
<1>6. CanaryTypes'
  BY <1>1, <1>2, <1>3, <1>4 DEF CanaryInv, CanaryTypes
<1>7. RecordsInOrder'
  BY <1>1, <1>4 DEF CanaryInv, RecordsInOrder
<1>8. CanaryWorkers'
  BY <1>1, <1>2, <1>4, <1>5 DEF CanaryInv, CanaryWorkers, CanaryTypes, DeployerSteps
<1>9. QED
  BY <1>6, <1>7, <1>8 DEF CanaryInv

\* rollback: its receipts leave those of the deployment alone.
LEMMA UndoRecordsKeep == ASSUME CanaryInv, (\E told \in BOOLEAN : WriteUndo(told)) \/ AnchorUndo PROVE CanaryInv'
<1> DEFINE r == undoer.run
<1>0. r \in CanaryRuns /\ undoer.pc # "idle" /\ runtime = "up"
  BY DEF WriteUndo, AnchorUndo, CanaryInv, CanaryTypes, CanaryWorkers, Rest, CanaryAt
<1>1. UNCHANGED <<canary, saw, ledger, runtime, deployer, boots, carried>>
  BY DEF WriteUndo, AnchorUndo
<1>2. ASSUME NEW told \in BOOLEAN, WriteUndo(told) PROVE CanaryInv'
  <2>1. PICK l \in {"rollback", "failure"} : Persisted(r, l, "whole")
    BY <1>2 DEF WriteUndo
  <2>2. /\ paper' \in [CanaryRuns -> PaperForms]
        /\ \A q \in CanaryRuns : /\ paper'[q]["intent"] = paper[q]["intent"] /\ paper'[q]["receipt"] = paper[q]["receipt"]
                                 /\ paper'[q]["recovery"] = paper[q]["recovery"]
    BY <1>0, <2>1, PaperWritten, CanaryNames DEF CanaryInv
  <2>3. undoer' \in {CanaryAt("anchor_rollback", r), CanaryAt("anchor_failure", r)} /\ UNCHANGED anchored
    BY <1>2 DEF WriteUndo
  <2> HIDE DEF r
  <2>4. undoer' \in [pc : UndoerSteps, run : CanaryRuns \cup {0}] /\ undoer'.run = r
    BY <1>0, <2>3, WorkerForm, CanaryNames
  <2>5. CanaryTypes'
    BY <1>0, <1>1, <2>2, <2>3, <2>4 DEF CanaryInv, CanaryTypes
  <2>6. RecordsInOrder'
    BY <1>0, <1>1, <2>2, <2>3 DEF CanaryInv, RecordsInOrder
  <2>7. CanaryWorkers'
    BY <1>0, <1>1, <2>2, <2>3, <2>4 DEF CanaryInv, CanaryWorkers, CanaryTypes, r
  <2>8. QED
    BY <2>5, <2>6, <2>7 DEF CanaryInv
<1>3. CASE AnchorUndo
  <2>1. PICK l \in {"rollback", "failure"} : Anchor(r, l)
    BY <1>3 DEF AnchorUndo
  <2>2. /\ anchored' \in [CanaryRuns -> SUBSET Labels]
        /\ \A q \in CanaryRuns : /\ "intent" \in anchored'[q] <=> "intent" \in anchored[q]
                                 /\ "receipt" \in anchored'[q] <=> "receipt" \in anchored[q]
    BY <1>0, <2>1, LabelAnchored, CanaryNames DEF CanaryInv
  <2>3. undoer' = Rest /\ UNCHANGED paper
    BY <1>3 DEF AnchorUndo
  <2>4. Rest \in [pc : UndoerSteps, run : CanaryRuns \cup {0}] /\ Rest.pc = "idle"
    BY <1>0, WorkerForm
  <2>5. CanaryTypes'
    BY <1>1, <2>2, <2>3, <2>4 DEF CanaryInv, CanaryTypes
  <2>6. RecordsInOrder'
    BY <1>1, <2>2, <2>3 DEF CanaryInv, RecordsInOrder
  <2>7. CanaryWorkers'
    BY <1>0, <1>1, <2>2, <2>3, <2>4 DEF CanaryInv, CanaryWorkers, CanaryTypes, DeployerSteps
  <2>8. QED
    BY <2>5, <2>6, <2>7 DEF CanaryInv
<1>4. QED
  BY <1>2, <1>3

\* The daemon dies: a record under way may be torn, but none that is anchored.
LEMMA DiesKeeps == ASSUME CanaryInv, NEW v, CanaryDies(v) PROVE CanaryInv'
<1> DEFINE Cut(r, l) == v = "torn" /\ [run |-> r, label |-> l] \in
                          Interrupted(deployer, "anchor_intent", "intent") \cup Interrupted(deployer, "anchor_receipt", "receipt")
<1>1. \A r \in CanaryRuns, l \in Labels : paper'[r][l] = IF Cut(r, l) THEN "torn" ELSE paper[r][l]
  BY DEF CanaryDies
<1>2. paper' \in [CanaryRuns -> PaperForms]
  BY <1>1 DEF CanaryDies, CanaryInv, CanaryTypes, PaperForms
<1>3. \A r \in CanaryRuns, l \in Labels : Cut(r, l) =>
        \/ deployer.pc = "anchor_intent" /\ deployer.run = r /\ l = "intent"
        \/ deployer.pc = "anchor_receipt" /\ deployer.run = r /\ l = "receipt"
  BY DEF Interrupted
<1> HIDE DEF Cut
<1>4. \A r \in CanaryRuns : /\ "intent" \in anchored[r] => ~Cut(r, "intent")
                            /\ "receipt" \in anchored[r] => ~Cut(r, "receipt")
                            /\ ~Cut(r, "recovery")
  BY <1>3, CanaryNames DEF CanaryInv, CanaryWorkers
<1>5. /\ runtime' = "down" /\ deployer' = Rest /\ undoer' = Rest
      /\ UNCHANGED <<canary, saw, ledger, anchored, boots, carried>>
  BY DEF CanaryDies
<1>6. Rest \in [pc : DeployerSteps, run : CanaryRuns \cup {0}]
      /\ Rest \in [pc : UndoerSteps, run : CanaryRuns \cup {0}] /\ Rest.pc = "idle"
  BY DEF Rest, CanaryAt, DeployerSteps, UndoerSteps
<1>7. CanaryTypes'
  BY <1>2, <1>5, <1>6 DEF CanaryInv, CanaryTypes
<1>8. \A r \in CanaryRuns : /\ paper'[r]["intent"] = "none" => paper[r]["intent"] = "none" /\ ~Cut(r, "intent")
                            /\ Cut(r, "receipt") => paper[r]["intent"] # "none"
  BY <1>1, <1>3, CanaryNames DEF CanaryInv, CanaryWorkers
<1>9. RecordsInOrder'
  BY <1>1, <1>4, <1>5, <1>8, CanaryNames DEF CanaryInv, RecordsInOrder
<1>10. CanaryWorkers'
  BY <1>5, <1>6 DEF CanaryWorkers, DeployerSteps
<1>11. QED
  BY <1>7, <1>9, <1>10 DEF CanaryInv

\* The runtime opens, refuses or serves.
LEMMA OpensKeeps == ASSUME CanaryInv, OpenRuntime \/ RuntimeOpens \/ \E r \in CanaryRuns : RecoverRefused(r)
  PROVE CanaryInv'
<1>1. UNCHANGED <<canary, saw, ledger, paper, anchored, deployer, undoer>> /\ runtime # "up"
  BY DEF OpenRuntime, RuntimeOpens, RecoverRefused
<1>2. deployer = Rest /\ undoer = Rest
  BY <1>1 DEF CanaryInv, CanaryWorkers
<1>3. carried' \subseteq CanaryRuns /\ \A r \in carried' : paper[r]["intent"] # "none"
  BY DEF OpenRuntime, RuntimeOpens, RecoverRefused, CanaryInv, CanaryTypes, RecordsInOrder
<1>4. ASSUME runtime' = "up", NEW r \in carried' PROVE paper[r]["receipt"] # "none" \/ paper[r]["recovery"] # "none"
  BY <1>3, <1>4 DEF OpenRuntime, RuntimeOpens, RecoverRefused, Pending
<1>5. CanaryTypes'
  BY <1>1, <1>3 DEF CanaryInv, CanaryTypes
<1>6. RecordsInOrder'
  BY <1>1, <1>3, <1>4 DEF CanaryInv, RecordsInOrder
<1>7. CanaryWorkers'
  BY <1>1, <1>2 DEF CanaryInv, CanaryWorkers
<1>8. QED
  BY <1>5, <1>6, <1>7 DEF CanaryInv

\* Opening the runtime finishes a run whose receipt was not written.
LEMMA FinalizeKeeps == ASSUME CanaryInv, NEW r \in CanaryRuns, FinalizeRun(r) PROVE CanaryInv'
<1>1. /\ paper' \in [CanaryRuns -> PaperForms] /\ paper'[r]["receipt"] = "whole"
      /\ paper'[r]["intent"] = paper[r]["intent"] /\ paper'[r]["recovery"] = paper[r]["recovery"]
      /\ \A q \in CanaryRuns : q # r => paper'[q] = paper[q]
  BY PaperWritten, CanaryNames DEF FinalizeRun, CanaryInv
<1>2. /\ anchored' \in [CanaryRuns -> SUBSET Labels] /\ anchored'[r] = anchored[r] \cup {"receipt"}
      /\ \A q \in CanaryRuns : q # r => anchored'[q] = anchored[q]
  BY LabelAnchored, CanaryNames DEF FinalizeRun, CanaryInv
<1>3. /\ runtime = "opening" /\ "intent" \in anchored[r] /\ ledger[r] = "succeeded" /\ paper[r]["recovery"] = "none"
      /\ paper[r]["intent"] # "none"
      /\ UNCHANGED <<canary, saw, ledger, runtime, deployer, undoer, boots, carried>>
  BY DEF FinalizeRun, NextPending, Pending, Verified, Finalizable
<1>4. CanaryTypes'
  BY <1>1, <1>2, <1>3 DEF CanaryInv, CanaryTypes
<1>5. RecordsInOrder'
  BY <1>1, <1>2, <1>3 DEF CanaryInv, RecordsInOrder
<1>6. CanaryWorkers'
  BY <1>3 DEF CanaryInv, CanaryWorkers, Rest, CanaryAt
<1>7. QED
  BY <1>4, <1>5, <1>6 DEF CanaryInv

\* Opening the runtime undoes, or gives up, a run that was interrupted.
LEMMA RecoverKeeps == ASSUME CanaryInv, NEW r \in CanaryRuns, NEW o \in Terminal, RecoverCanary(r, o)
  PROVE CanaryInv'
<1>1. PICK k \in Terminal : RecordedAs(r, k)
  BY DEF RecoverCanary, Terminal
<1>2. /\ paper' \in [CanaryRuns -> PaperForms] /\ paper'[r]["recovery"] = k
      /\ paper'[r]["intent"] = paper[r]["intent"] /\ paper'[r]["receipt"] = paper[r]["receipt"]
      /\ \A q \in CanaryRuns : q # r => paper'[q] = paper[q]
  <2>1. Persisted(r, "recovery", k) /\ k \in {"whole"} \cup Terminal
    BY <1>1 DEF RecordedAs
  <2>2. "recovery" \in Labels /\ "intent" \in Labels /\ "receipt" \in Labels /\ CanaryTypes
    BY CanaryNames DEF CanaryInv
  <2>3. /\ paper' \in [CanaryRuns -> PaperForms] /\ paper'[r]["recovery"] = k
        /\ \A m \in Labels : m # "recovery" => paper'[r][m] = paper[r][m]
        /\ \A q \in CanaryRuns : q # r => paper'[q] = paper[q]
    BY <2>1, <2>2, PaperWritten
  <2>4. QED
    BY <2>2, <2>3
<1>3. /\ anchored' \in [CanaryRuns -> SUBSET Labels] /\ anchored'[r] = anchored[r] \cup {"recovery"}
      /\ \A q \in CanaryRuns : q # r => anchored'[q] = anchored[q]
  BY <1>1, LabelAnchored, CanaryNames DEF RecordedAs, CanaryInv
<1>4. /\ runtime = "opening" /\ paper[r]["receipt"] = "none" /\ paper[r]["intent"] # "none"
      /\ runtime' \in {"opening", "down"}
      /\ ledger' = [ledger EXCEPT ![r] = o] /\ canary' \in {canary, saw[r]}
      /\ UNCHANGED <<saw, deployer, undoer, boots, carried>>
  BY DEF RecoverCanary, NextPending, Pending
<1>5. ledger' \in [CanaryRuns -> LedgerStates] /\ \A q \in CanaryRuns : q # r => ledger'[q] = ledger[q]
  BY <1>4 DEF CanaryInv, CanaryTypes, LedgerStates
<1>6. CanaryTypes'
  BY <1>2, <1>3, <1>4, <1>5 DEF CanaryInv, CanaryTypes
<1>7. "receipt" \notin anchored[r]
  BY <1>4 DEF CanaryInv, RecordsInOrder
<1>8. RecordsInOrder'
  BY <1>2, <1>3, <1>4, <1>5, <1>7 DEF CanaryInv, RecordsInOrder
<1>9. CanaryWorkers'
  BY <1>4 DEF CanaryInv, CanaryWorkers, Rest, CanaryAt
<1>10. QED
  BY <1>6, <1>8, <1>9 DEF CanaryInv

\* Each step of deployments, rollbacks and recoveries keeps the invariant.
LEMMA CanaryStep == ASSUME CanaryInv, [CanaryNext]_canaryVars PROVE CanaryInv'
<1>1. CASE CanaryNext
  BY <1>1, IntentKeeps, RunKeeps, DeploymentKeeps, UndoKeeps, UndoRecordsKeep, DiesKeeps, OpensKeeps,
     FinalizeKeeps, RecoverKeeps DEF CanaryNext
<1>2. CASE UNCHANGED canaryVars
  BY <1>2 DEF canaryVars, CanaryInv, CanaryTypes, RecordsInOrder, CanaryWorkers
<1>3. QED
  BY <1>1, <1>2

\* A receipt of an undo is written only while the canary holds what was seen.
LEMMA CanaryKeeps == ASSUME CanaryInv, [CanaryNext]_canaryVars PROVE RestoredIsSeen
<1>1. CASE UNCHANGED canaryVars
  BY <1>1 DEF RestoredIsSeen
<1>2. CASE CanaryNext
  <2> DEFINE Told(r) == \/ paper[r].rollback = "none" /\ paper'[r].rollback = "whole"
                        \/ paper[r].recovery = "none" /\ paper'[r].recovery = "rolled_back"
  <2>1. SUFFICES ASSUME NEW r \in CanaryRuns, Told(r) PROVE canary' = saw[r]
    BY DEF RestoredIsSeen
  <2>2. ASSUME NEW q \in CanaryRuns, NEW l \in {"intent", "receipt"}, NEW v \in {"whole"} \cup Terminal, Persisted(q, l, v)
        PROVE FALSE
    BY <2>1, <2>2, PaperWritten, CanaryNames DEF CanaryInv
  <2>3. ASSUME NEW q \in CanaryRuns, WriteIntent(q) \/ FinalizeRun(q) PROVE FALSE
    BY <2>2, <2>3 DEF WriteIntent, FinalizeRun
  <2>4. ASSUME WriteDeployment PROVE FALSE
    <3>1. deployer.run \in CanaryRuns
      BY <2>4 DEF WriteDeployment, CanaryInv, CanaryTypes
    <3>2. QED
      BY <2>2, <2>4, <3>1 DEF WriteDeployment
  <2>5. ASSUME UNCHANGED paper PROVE FALSE
    BY <2>1, <2>5
  <2>6. ASSUME NEW told \in BOOLEAN, WriteUndo(told) PROVE canary' = saw[r]
    <3> DEFINE l == IF undoer.pc = "rolled_back" /\ told THEN "rollback" ELSE "failure"
    <3>1. undoer.run \in CanaryRuns /\ Persisted(undoer.run, l, "whole") /\ l \in Labels /\ l # "recovery"
      BY <2>6, CanaryNames DEF WriteUndo, CanaryInv, CanaryTypes
    <3>2. CASE l = "rollback" /\ r = undoer.run
      BY <2>6, <3>2 DEF WriteUndo, UndoObserved
    <3>3. CASE l # "rollback" \/ r # undoer.run
      <4> HIDE DEF l
      <4>1. paper'[r].recovery = paper[r].recovery /\ paper'[r].rollback = paper[r].rollback
        BY <3>1, <3>3, PaperWritten, CanaryNames DEF CanaryInv
      <4>2. QED
        BY <2>1, <4>1
    <3>4. QED
      BY <3>2, <3>3
  <2>7. ASSUME NEW v, CanaryDies(v) PROVE FALSE
    BY <2>1, <2>7, CanaryNames DEF CanaryDies
  <2>8. ASSUME NEW q \in CanaryRuns, NEW o \in Terminal, RecoverCanary(q, o) PROVE canary' = saw[r]
    <3> DEFINE restored == IF o = "rolled_back" /\ ledger[q] \notin Terminal THEN saw[q] ELSE canary
               honest == o = "rolled_back" => restored = saw[q]
               k == IF honest THEN o ELSE "rollback_failed"
    <3>1. canary' = restored /\ RecordedAs(q, k) /\ k \in {"whole"} \cup Terminal
      BY <2>8 DEF RecoverCanary, Terminal
    <3>2. CASE r = q /\ k = "rolled_back"
      <4>1. o = "rolled_back" /\ honest
        BY <3>2
      <4>2. QED
        BY <3>1, <3>2, <4>1
    <3>3. CASE r # q \/ k # "rolled_back"
      <4> HIDE DEF k
      <4>1. Persisted(q, "recovery", k)
        BY <3>1 DEF RecordedAs
      <4>2. paper'[r].rollback = paper[r].rollback /\ (r = q => paper'[r].recovery = k)
            /\ (r # q => paper'[r].recovery = paper[r].recovery)
        BY <3>1, <4>1, PaperWritten, CanaryNames DEF CanaryInv
      <4>3. QED
        BY <2>1, <3>3, <4>2
    <3>4. QED
      BY <3>2, <3>3
  <2>9. QED
    BY <1>2, <2>3, <2>4, <2>5, <2>6, <2>7, <2>8 DEF CanaryNext, StartUndo, RecoverRefused, AnchorIntent, OpenJournal,
       CancelRun, ApplyCanary, AnchorDeployment, FinishRun, UndoRun, AnchorUndo, OpenRuntime, RuntimeOpens
<1>3. QED
  BY <1>1, <1>2

-----------------------------------------------------------------------------
(* PackageResolution: what is contacted, fetched and persisted.             *)

DraftStages == {"none", "valid", "fetched", "stored"}
ResolutionSteps == {Idle, "prepare", "discover", "persist"}

\* A fetch is on the way at an approved location, its bytes are held, or its artifact is stored.
Fetching ==
  resFetch # NoFetch =>
    /\ resFetch = [pkg |-> resFetch.pkg, at |-> resFetch.at, visited |-> resFetch.visited]
    /\ resFetch.pkg \in Wanted /\ resStep \in {"discover", "persist"}
    /\ resStep = "persist" => resFetch.at # "held"
    /\ \/ resFetch.at = "stored" /\ resStep = "persist" /\ resFetch.pkg \in resArtifacts
       \/ resFetch.at \in ApprovedRoots \cup {"held"}

ResolutionInv ==
  /\ resStep \in ResolutionSteps /\ resDraft \in [Wanted -> DraftStages]
  /\ resStep # Idle => \A p \in Wanted : PreflightDesired(p)
  /\ resStep = "persist" => AllPrepared(resDraft)
  /\ Fetching /\ OnlyApprovedContacted /\ ResolutionMeansArtifacts

\* Nothing is fetched at first.
LEMMA ResolutionStart == ASSUME ResolutionInit PROVE ResolutionInv
BY DEF ResolutionInit, ResolutionInv, ResolutionSteps, Fetching, DraftStages, Idle, OnlyApprovedContacted, ResolutionMeansArtifacts

\* A fetch is told from none.
LEMMA FetchIsOne == ASSUME NEW p, NEW l, NEW v PROVE [pkg |-> p, at |-> l, visited |-> v] # NoFetch
<1>1. "at" \in DOMAIN [pkg |-> p, at |-> l, visited |-> v]
  OBVIOUS
<1>2. "at" \notin DOMAIN NoFetch
  BY DEF NoFetch
<1>3. QED
  BY <1>1, <1>2

\* PackageResolution: every step of the coordinator.
LEMMA ResolutionStep == ASSUME ResolutionInv, [ResolutionNext]_resVars PROVE ResolutionInv'
<1> USE DEF ResolutionInv
<1>1. CASE UNCHANGED resVars
  BY <1>1 DEF resVars, Fetching, OnlyApprovedContacted, ResolutionMeansArtifacts, AllPrepared, PreflightDesired
<1>2. ASSUME NEW first \in {"prepare", "discover"}, NEW capable \in BOOLEAN, PreflightState(first, capable) PROVE ResolutionInv'
  <2>1. resFetch = NoFetch /\ resFetch' = NoFetch /\ resStep' \in ResolutionSteps /\ resStep' # "persist"
    BY <1>2 DEF PreflightState, Fetching, Idle, ResolutionSteps
  <2>2. resStep' # Idle => \A p \in Wanted : PreflightDesired(p)'
    BY <1>2 DEF PreflightState, PreflightDesired
  <2>3. resDraft' \in [Wanted -> DraftStages]
    BY <1>2 DEF PreflightState, DraftStages
  <2>4. QED
    BY <1>2, <2>1, <2>2, <2>3 DEF PreflightState, Fetching, OnlyApprovedContacted, ResolutionMeansArtifacts
<1>3. ASSUME NEW p \in Wanted, NEW rooted, NEW sources, PrepareResolution(p, rooted, sources) PROVE ResolutionInv'
  <2>1. resFetch' = NoFetch /\ UNCHANGED <<resContacted, resArtifacts, resStored, resAllowed>> /\ resStep # Idle
    BY <1>3 DEF PrepareResolution, Idle
  <2>2. /\ resDraft' \in [Wanted -> DraftStages] /\ resStep' \in ResolutionSteps
        /\ resStep' = "persist" => AllPrepared(resDraft')
    BY <1>3 DEF PrepareResolution, DraftStages, Idle, ResolutionSteps
  <2>3. QED
    BY <2>1, <2>2 DEF Fetching, OnlyApprovedContacted, ResolutionMeansArtifacts, AllPrepared, PreflightDesired
<1>4. ASSUME NEW p \in Wanted, NEW l \in Locators, StartFetch(p, l) PROVE ResolutionInv'
  <2>1. resStep \in {"discover", "persist"} /\ UNCHANGED <<resDraft, resContacted, resArtifacts, resStored, resAllowed>>
    BY <1>4 DEF StartFetch, FetchWanted
  <2>2. CASE l \in ApprovedRoots
    <3>1. resFetch' = [pkg |-> p, at |-> l, visited |-> {}] /\ resStep' = resStep
      BY <1>4, <2>2 DEF StartFetch, LocatorApproved
    <3>2. l # "held"
      BY <2>2, LocatorsAreOthers
    <3>3. Fetching'
      BY <2>1, <2>2, <3>1, <3>2 DEF Fetching
    <3>4. QED
      BY <2>1, <3>1, <3>3 DEF OnlyApprovedContacted, ResolutionMeansArtifacts, AllPrepared, PreflightDesired
  <2>3. CASE l \notin ApprovedRoots
    <3>1. resStep' = Idle /\ resFetch' = NoFetch
      BY <1>4, <2>3 DEF StartFetch, LocatorApproved
    <3>2. QED
      BY <2>1, <3>1 DEF Fetching, OnlyApprovedContacted, ResolutionMeansArtifacts, Idle, ResolutionSteps
  <2>4. QED
    BY <2>2, <2>3
<1>5. CASE FetchLoops \/ ResolverDies
  <2>1. resDraft' \in [Wanted -> DraftStages]
    BY <1>5 DEF FetchLoops, ResolverDies, DraftStages
  <2>2. QED
    BY <1>5, <2>1 DEF FetchLoops, ResolverDies, Fetching, OnlyApprovedContacted, ResolutionMeansArtifacts, Idle, ResolutionSteps
<1>6. ASSUME NEW l \in Locators, FetchRedirect(l) PROVE ResolutionInv'
  <2>1. resFetch # NoFetch /\ resFetch.at \notin {"stored", "held"} /\ UNCHANGED <<resDraft, resArtifacts, resStored, resAllowed>>
        /\ resContacted' = resContacted \cup {resFetch.at}
    BY <1>6 DEF FetchRedirect, Hopping
  <2>2. OnlyApprovedContacted' /\ ResolutionMeansArtifacts'
    BY <2>1 DEF Fetching, OnlyApprovedContacted, ResolutionMeansArtifacts
  <2>3. CASE l \in ApprovedRoots /\ resFetch' = [resFetch EXCEPT !.at = l, !.visited = @ \cup {resFetch.at}] /\ UNCHANGED resStep
    <3>1. resFetch' = [pkg |-> resFetch.pkg, at |-> l, visited |-> resFetch.visited \cup {resFetch.at}]
      BY <2>1, <2>3 DEF Fetching
    <3>2. resFetch'.pkg = resFetch.pkg /\ resFetch'.at = l /\ l # "held"
      BY <2>3, <3>1, LocatorsAreOthers
    <3>3. Fetching'
      BY <2>1, <2>3, <3>1, <3>2 DEF Fetching
    <3>4. QED
      BY <2>1, <2>2, <2>3, <3>3 DEF AllPrepared, PreflightDesired
  <2>4. CASE resFetch' = NoFetch /\ resStep' = Idle
    BY <2>1, <2>2, <2>4 DEF Fetching, Idle, ResolutionSteps
  <2>5. QED
    BY <1>6, <2>3, <2>4 DEF FetchRedirect, LocatorApproved
<1>7. ASSUME NEW good \in BOOLEAN, FetchComplete(good) PROVE ResolutionInv'
  <2>1. resFetch # NoFetch /\ resFetch.at \notin {"stored", "held"} /\ UNCHANGED <<resDraft, resStored, resAllowed>>
        /\ resContacted' = resContacted \cup {resFetch.at} /\ resArtifacts \subseteq resArtifacts'
    BY <1>7 DEF FetchComplete, Hopping
  <2>2. OnlyApprovedContacted' /\ ResolutionMeansArtifacts'
    BY <2>1 DEF Fetching, OnlyApprovedContacted, ResolutionMeansArtifacts
  <2>3. CASE /\ resStep = "persist" /\ resArtifacts' = resArtifacts \cup {resFetch.pkg}
             /\ resFetch' = Fetched(resFetch.pkg) /\ UNCHANGED resStep
    <3>1. resFetch' = [pkg |-> resFetch.pkg, at |-> "stored", visited |-> {}]
      BY <2>3 DEF Fetched
    <3>2. resFetch'.pkg = resFetch.pkg /\ resFetch'.at = "stored"
      BY <3>1
    <3>3. Fetching'
      BY <2>1, <2>3, <3>1, <3>2 DEF Fetching
    <3>4. QED
      BY <2>1, <2>2, <2>3, <3>3 DEF AllPrepared, PreflightDesired
  <2>4. CASE resStep = "discover" /\ resFetch' = Held(resFetch.pkg) /\ UNCHANGED <<resStep, resArtifacts>>
    <3>1. resFetch' = [pkg |-> resFetch.pkg, at |-> "held", visited |-> {}]
      BY <2>4 DEF Held
    <3>2. resFetch'.pkg = resFetch.pkg /\ resFetch'.at = "held"
      BY <3>1
    <3>3. Fetching'
      BY <2>1, <2>4, <3>1, <3>2 DEF Fetching
    <3>4. QED
      BY <2>1, <2>2, <2>4, <3>3 DEF AllPrepared, PreflightDesired
  <2>5. CASE resFetch' = NoFetch /\ resStep' = Idle
    BY <2>1, <2>2, <2>5 DEF Fetching, Idle, ResolutionSteps
  <2>6. QED
    BY <1>7, <2>3, <2>4, <2>5 DEF FetchComplete
<1>8. ASSUME NEW p \in Wanted, PersistResolution(p) PROVE ResolutionInv'
  <2>1. resFetch = Fetched(p) /\ resStep = "persist" /\ resFetch' = NoFetch
        /\ UNCHANGED <<resStep, resContacted, resArtifacts, resAllowed>>
        /\ resStored' = resStored \cup {[pkg |-> p, def |-> resDefs[SourceOf(p)]]} /\ resDraft' = [resDraft EXCEPT ![p] = "stored"]
    BY <1>8 DEF PersistResolution, ArtifactsReady
  <2>2. resFetch # NoFetch /\ resFetch.pkg = p /\ resFetch.at = "stored"
    BY <2>1, FetchIsOne DEF Fetched
  <2>3. p \in resArtifacts
    BY <2>2, LocatorsAreOthers DEF Fetching
  <2>4. ResolutionMeansArtifacts'
    BY <2>1, <2>3 DEF ResolutionMeansArtifacts
  <2>5. resDraft' \in [Wanted -> DraftStages] /\ AllPrepared(resDraft')
    BY <2>1 DEF DraftStages, AllPrepared
  <2>6. QED
    BY <2>1, <2>4, <2>5 DEF Fetching, OnlyApprovedContacted, AllPrepared, PreflightDesired
<1>9. ASSUME NEW p \in Wanted, StoreHeld(p) PROVE ResolutionInv'
  <2>1. resFetch' = [pkg |-> p, at |-> "stored", visited |-> {}] /\ resStep = "persist" /\ resArtifacts' = resArtifacts \cup {p}
        /\ UNCHANGED <<resStep, resDraft, resContacted, resStored, resAllowed>>
    BY <1>9 DEF StoreHeld, Fetched
  <2>2. resFetch'.pkg = p /\ resFetch'.at = "stored"
    BY <2>1
  <2>3. Fetching'
    BY <2>1, <2>2 DEF Fetching
  <2>4. QED
    BY <2>1, <2>3 DEF OnlyApprovedContacted, ResolutionMeansArtifacts, AllPrepared, PreflightDesired
<1>10. CASE ResolveStateDone
  <2>1. resStep' = Idle /\ UNCHANGED <<resDraft, resContacted, resArtifacts, resStored>> /\ resFetch' = resFetch
    BY <1>10 DEF ResolveStateDone
  <2>2. resFetch = NoFetch
    BY <1>10 DEF ResolveStateDone
  <2>3. QED
    BY <2>1, <2>2 DEF Fetching, OnlyApprovedContacted, ResolutionMeansArtifacts, Idle, ResolutionSteps
<1>11. CASE (\E p \in Wanted : AuthorityRevised(p)) \/ \E r \in resStored : AcceptResolution(r)
  BY <1>11 DEF AuthorityRevised, AcceptResolution, Fetching, OnlyApprovedContacted, ResolutionMeansArtifacts, AllPrepared, PreflightDesired, Idle
<1>12. QED
  BY <1>1, <1>2, <1>3, <1>4, <1>5, <1>6, <1>7, <1>8, <1>9, <1>10, <1>11 DEF ResolutionNext

\* The steps that contact a server or keep something, and those that accept.
LEMMA ResolutionSteppers == ASSUME [ResolutionNext]_resVars
  PROVE /\ \/ \E l \in Locators : FetchRedirect(l)
           \/ \E good \in BOOLEAN : FetchComplete(good)
           \/ resContacted' = resContacted
        /\ \/ \E good \in BOOLEAN : FetchComplete(good)
           \/ \E p \in Wanted : PersistResolution(p) \/ StoreHeld(p)
           \/ resArtifacts' = resArtifacts /\ resStored' = resStored
        /\ (\E r \in resStored : AcceptResolution(r)) \/ resAccepted' = resAccepted
<1>1. CASE UNCHANGED resVars
  BY <1>1 DEF resVars
<1>2. CASE ResolveStateDone \/ ResolverDies \/ FetchLoops
  BY <1>2 DEF ResolveStateDone, ResolverDies, FetchLoops
<1>3. CASE \E first \in {"prepare", "discover"}, capable \in BOOLEAN : PreflightState(first, capable)
  BY <1>3 DEF PreflightState
<1>4. CASE \E p \in Wanted, rooted \in BOOLEAN, sources \in SUBSET Wanted : PrepareResolution(p, rooted, sources)
  BY <1>4 DEF PrepareResolution
<1>5. CASE \E p \in Wanted, l \in Locators : StartFetch(p, l)
  BY <1>5 DEF StartFetch
<1>6. CASE \E p \in Wanted : AuthorityRevised(p)
  BY <1>6 DEF AuthorityRevised
<1>7. CASE \E r \in resStored : AcceptResolution(r)
  BY <1>7 DEF AcceptResolution
<1>8. CASE \E l \in Locators : FetchRedirect(l)
  <2>1. UNCHANGED <<resArtifacts, resStored, resAccepted>>
    BY <1>8 DEF FetchRedirect
  <2>2. QED
    BY <1>8, <2>1
<1>9. CASE \E good \in BOOLEAN : FetchComplete(good)
  <2>1. resAccepted' = resAccepted
    BY <1>9 DEF FetchComplete
  <2>2. QED
    BY <1>9, <2>1
<1>10. CASE \E p \in Wanted : PersistResolution(p) \/ StoreHeld(p)
  <2>1. resContacted' = resContacted /\ resAccepted' = resAccepted
    BY <1>10 DEF PersistResolution, StoreHeld
  <2>2. QED
    BY <1>10, <2>1
<1>11. QED
  BY <1>1, <1>2, <1>3, <1>4, <1>5, <1>6, <1>7, <1>8, <1>9, <1>10 DEF ResolutionNext

\* No server is contacted before every package is preflighted, nothing is kept before every package is
\* prepared, and what is accepted fits the policy and the registry of the moment.
LEMMA ResolutionKeeps == ASSUME ResolutionInv, [ResolutionNext]_resVars PROVE PreparedFirst /\ AcceptedIsCurrent
<1>1. PreparedFirst
  <2>1. ASSUME resContacted' # resContacted PROVE \A p \in Wanted : PreflightDesired(p)
    <3>1. (\E l \in Locators : FetchRedirect(l)) \/ \E good \in BOOLEAN : FetchComplete(good)
      <4>1. \/ \E l \in Locators : FetchRedirect(l)
            \/ \E good \in BOOLEAN : FetchComplete(good)
            \/ resContacted' = resContacted
        BY ResolutionSteppers
      <4>2. QED
        BY <2>1, <4>1
    <3>2. Hopping
      <4>1. (\A l \in Locators : FetchRedirect(l) => Hopping) /\ \A good \in BOOLEAN : FetchComplete(good) => Hopping
        BY Zenon DEF FetchRedirect, FetchComplete
      <4>2. QED
        BY <3>1, <4>1
    <3>3. resStep # Idle
      BY <3>2 DEF ResolutionInv, Fetching, Idle, Hopping
    <3>4. QED
      BY <3>3 DEF ResolutionInv
  <2>2. ASSUME resArtifacts' # resArtifacts \/ resStored' # resStored PROVE \A p \in Wanted : resDraft[p] # "none"
    <3>1. (\E good \in BOOLEAN : FetchComplete(good)) \/ \E p \in Wanted : PersistResolution(p) \/ StoreHeld(p)
      BY <2>2, ResolutionSteppers, Zenon
    <3>2. resStep = "persist"
      BY <2>2, <3>1 DEF FetchComplete, PersistResolution, StoreHeld
    <3>3. QED
      BY <3>2 DEF ResolutionInv, AllPrepared
  <2>3. QED
    BY <2>1, <2>2 DEF PreparedFirst
<1>2. AcceptedIsCurrent
  <2> SUFFICES ASSUME NEW r \in resAccepted' \ resAccepted
               PROVE SourceOf(r.pkg) \in resAllowed /\ resDefs[SourceOf(r.pkg)] = r.def
    BY DEF AcceptedIsCurrent
  <2>1. PICK q \in resStored : AcceptResolution(q)
    BY ResolutionSteppers
  <2>2. r = q
    BY <2>1 DEF AcceptResolution
  <2>3. QED
    BY <2>1, <2>2 DEF AcceptResolution, LoadAndValidate, Enforced
<1>3. QED
  BY <1>1, <1>2

-----------------------------------------------------------------------------
(* PackageResolution: the pinned fetch.                                     *)

\* The address a locator was pinned to is the one that is contacted.
FetchInv ==
  /\ pfPinned \in [FetchLocators -> (Addresses \ PrivateAddresses) \cup {NotPinned}]
  /\ pfFetch.at # "idle" =>
       /\ pfFetch = [locator |-> pfFetch.locator, at |-> pfFetch.at, address |-> pfFetch.address]
       /\ pfFetch.locator \in FetchLocators
       /\ pfFetch.address = pfPinned[pfFetch.locator] /\ pfFetch.address # NotPinned
  /\ \A c \in pfContacted :
       c[1] \in FetchLocators /\ c[2] = pfPinned[c[1]] /\ c[2] # NotPinned
  /\ pfBytes \in Nat /\ NeverTooMuch

\* Nothing is pinned or contacted at first.
LEMMA FetchStart == ASSUME FetchInit PROVE FetchInv
BY FetchBounds DEF FetchInit, FetchInv, NothingFetched, NeverTooMuch

\* A locator is pinned to a public address, once.
LEMMA PinKeeps == ASSUME FetchInv, NEW l \in FetchLocators, NEW a \in Addresses, PinUrl(l, a)
  PROVE /\ pfPinned' \in [FetchLocators -> (Addresses \ PrivateAddresses) \cup {NotPinned}]
        /\ pfPinned'[l] = a /\ a # NotPinned
        /\ \A m \in FetchLocators : pfPinned[m] # NotPinned => pfPinned'[m] = pfPinned[m]
<1>1. CASE pfPinned[l] # NotPinned
  BY <1>1 DEF PinUrl, FetchInv
<1>2. CASE pfPinned[l] = NotPinned
  <2>1. a \notin PrivateAddresses /\ pfPinned' = [pfPinned EXCEPT ![l] = a]
    BY <1>2 DEF PinUrl, AnswerIsSafe
  <2>2. a # NotPinned
    BY FetchBounds DEF NotPinned
  <2>3. QED
    BY <1>2, <2>1, <2>2 DEF FetchInv
<1>3. QED
  BY <1>1, <1>2

\* PackageResolution: every step of the fetch and of the name server.
LEMMA FetchStep == ASSUME FetchInv, [FetchNext]_pfVars PROVE FetchInv'
<1>1. CASE UNCHANGED pfVars
  BY <1>1 DEF pfVars, FetchInv, NeverTooMuch
<1>2. ASSUME NEW l \in FetchLocators, PreflightLocator(l) PROVE FetchInv'
  <2>1. PICK a \in Addresses : PinUrl(l, a)
    BY <1>2 DEF PreflightLocator
  <2>2. pfFetch.at = "idle" /\ UNCHANGED <<pfFetch, pfBytes, pfContacted, pfComplete>>
    BY <1>2 DEF PreflightLocator, NothingFetched
  <2>3. QED
    BY <2>1, <2>2, PinKeeps DEF FetchInv, NeverTooMuch
<1>3. ASSUME NEW l \in FetchLocators, ClientForUrl(l) PROVE FetchInv'
  <2>1. PICK a \in Addresses : PinUrl(l, a) /\ pfFetch' = [locator |-> l, at |-> "client", address |-> a]
    BY <1>3 DEF ClientForUrl
  <2>2. pfBytes' = 0 /\ UNCHANGED <<pfContacted, pfComplete>>
    BY <1>3 DEF ClientForUrl
  <2>3. pfFetch'.locator = l /\ pfFetch'.at = "client" /\ pfFetch'.address = a
    BY <2>1
  <2>4. QED
    BY <2>1, <2>2, <2>3, PinKeeps, FetchBounds DEF FetchInv, NeverTooMuch
<1>4. CASE SendRequest
  <2>1. pfContacted' = pfContacted \cup {<<pfFetch.locator, pfFetch.address>>} /\ pfFetch.at = "client"
        /\ pfFetch' = [pfFetch EXCEPT !.at = "sent"] /\ UNCHANGED <<pfPinned, pfBytes, pfComplete>>
    BY <1>4 DEF SendRequest, ConnectsTo
  <2>2. pfFetch' = [locator |-> pfFetch.locator, at |-> "sent", address |-> pfFetch.address]
    BY <2>1 DEF FetchInv
  <2>3. pfFetch'.locator = pfFetch.locator /\ pfFetch'.address = pfFetch.address /\ pfFetch'.at = "sent"
    BY <2>2
  <2>4. QED
    BY <2>1, <2>2, <2>3 DEF FetchInv, NeverTooMuch
<1>5. ASSUME NEW n \in 1 .. MaximumBytes + 1, FetchAnswered(n) PROVE FetchInv'
  <2>1. pfFetch.at = "sent" /\ UNCHANGED <<pfPinned, pfBytes, pfContacted, pfComplete>>
    BY <1>5 DEF FetchAnswered
  <2>2. CASE pfFetch' = NothingFetched
    BY <2>1, <2>2 DEF FetchInv, NeverTooMuch, NothingFetched
  <2>3. CASE pfFetch' = [pfFetch EXCEPT !.at = "stream"]
    <3>1. pfFetch' = [locator |-> pfFetch.locator, at |-> "stream", address |-> pfFetch.address]
      BY <2>1, <2>3 DEF FetchInv
    <3>2. pfFetch'.locator = pfFetch.locator /\ pfFetch'.address = pfFetch.address /\ pfFetch'.at = "stream"
      BY <3>1
    <3>3. QED
      BY <2>1, <3>1, <3>2 DEF FetchInv, NeverTooMuch
  <2>4. QED
    BY <1>5, <2>2, <2>3 DEF FetchAnswered, HopEnds
<1>6. ASSUME NEW n \in 1 .. MaximumBytes + 1, NextChunk(n) PROVE FetchInv'
  BY <1>6, FetchBounds DEF NextChunk, ChunkFits, HopEnds, NothingFetched, FetchInv, NeverTooMuch
<1>7. CASE StreamEnds
  BY <1>7 DEF StreamEnds, HopEnds, NothingFetched, FetchInv, NeverTooMuch
<1>8. CASE \E l \in FetchLocators, answer \in SUBSET Addresses : Rename(l, answer)
  BY <1>8 DEF Rename, FetchInv, NeverTooMuch
<1>9. QED
  BY <1>1, <1>2, <1>3, <1>4, <1>5, <1>6, <1>7, <1>8 DEF FetchNext

\* Only public addresses are contacted, one for each locator.
LEMMA FetchSafe == ASSUME FetchInv PROVE ContactedIsPublic /\ OneAddressEach /\ NeverTooMuch
BY DEF FetchInv, ContactedIsPublic, OneAddressEach

-----------------------------------------------------------------------------
(* ResolverBackends: the apt resolver on a host that changes.               *)

\* A host and the archives chosen for it, as far as the comparison of versions
\* needs them.
AptHosts == [key : 0 .. 1, tools : 0 .. 1, installed : [DebPackages -> 0 .. 2], unsettled : BOOLEAN]

AptInv ==
  /\ aptHost \in AptHosts /\ aptSeen \in AptHosts
  /\ DOMAIN aptClosure \subseteq DebPackages
  /\ \A p \in DOMAIN aptClosure : aptClosure[p] \in 1 .. 2

\* The host at first.
LEMMA AptStart == ASSUME AptInit PROVE AptInv
<1>1. DOMAIN <<>> = {}
  OBVIOUS
<1>2. QED
  BY <1>1 DEF AptInit, AptInv, AptHosts

\* ResolverBackends: every step of the resolver and of the host.
LEMMA AptStep == ASSUME AptInv, [AptNext]_aptVars PROVE AptInv'
<1>1. CASE UNCHANGED aptVars
  BY <1>1 DEF aptVars, AptInv
<1>2. CASE ReadEvidence \/ QueryInstalled \/ ReturnSnapshot
  BY <1>2 DEF ReadEvidence, QueryInstalled, ReturnSnapshot, Abort, AptInv
<1>3. CASE HostMoves
  <2>1. UNCHANGED <<aptSeen, aptClosure>>
    BY <1>3 DEF HostMoves
  <2>2. aptHost' \in AptHosts
    <3>1. CASE aptHost' = [aptHost EXCEPT !.key = 1 - @] \/ aptHost' = [aptHost EXCEPT !.tools = 1 - @]
      BY <3>1 DEF AptInv, AptHosts
    <3>2. CASE aptHost' = [aptHost EXCEPT !.unsettled = TRUE]
      BY <3>2 DEF AptInv, AptHosts
    <3>3. ASSUME NEW p \in DebPackages, NEW v \in 0 .. 2, aptHost' = [aptHost EXCEPT !.unsettled = FALSE, !.installed[p] = v]
          PROVE aptHost' \in AptHosts
      BY <3>3 DEF AptInv, AptHosts
    <3>4. QED
      BY <1>3, <3>1, <3>2, <3>3 DEF HostMoves
  <2>3. QED
    BY <2>1, <2>2 DEF AptInv
<1>4. ASSUME NEW printed \in SUBSET DebPackages, NEW names \in SUBSET DebPackages, NEW closure \in [names -> 1 .. 2],
             SolveOnNetwork(closure, printed)
      PROVE AptInv'
  BY <1>4 DEF SolveOnNetwork, Abort, AptInv
<1>5. CASE \E inst \in SUBSET DebPackages, remv \in SUBSET DebPackages : SimulateLive(inst, remv)
  BY <1>5 DEF SimulateLive, Abort, AptInv
<1>6. QED
  BY <1>1, <1>2, <1>3, <1>4, <1>5 DEF AptNext

\* The network is used on a settled host, and a snapshot fits the host.
LEMMA AptKeeps == ASSUME AptInv, [AptNext]_aptVars PROVE SettledBeforeNetwork /\ SnapshotIsCurrent
<1>1. SettledBeforeNetwork
  <2> SUFFICES ASSUME aptStep' = "network", aptStep # "network"
               PROVE ~aptHost.unsettled /\ aptHost.installed = aptSeen.installed
    BY DEF SettledBeforeNetwork
  <2>1. QueryInstalled
    BY DEF aptVars, AptNext, ReadEvidence, ReturnSnapshot, HostMoves, SolveOnNetwork, SimulateLive, Abort, AptQuiet
  <2>2. QED
    BY <2>1 DEF QueryInstalled, Abort, AptQuiet, InstalledComplete
<1>2. SnapshotIsCurrent
  <2> SUFFICES ASSUME aptResult' # aptResult
               PROVE /\ aptResult'.before = aptHost.installed
                     /\ \A p \in DOMAIN aptResult'.closure : aptResult'.closure[p] >= aptHost.installed[p]
    BY DEF SnapshotIsCurrent
  <2>1. ReturnSnapshot
    BY DEF aptVars, AptNext, ReadEvidence, QueryInstalled, HostMoves, SolveOnNetwork, SimulateLive, Abort
  <2>2. aptResult' = [closure |-> aptClosure, before |-> aptSeen.installed] /\ EvidenceUnchanged /\ SnapshotValid
    BY <2>1 DEF ReturnSnapshot, Abort
  <2>3. \A p \in DOMAIN aptClosure : ~ (aptClosure[p] < aptSeen.installed[p])
    BY <2>2 DEF SnapshotValid, Downgrades
  <2>4. \A p \in DOMAIN aptClosure : aptSeen.installed[p] \in 0 .. 2 /\ aptClosure[p] \in 1 .. 2
    BY DEF AptInv, AptHosts
  <2>5. \A p \in DOMAIN aptClosure : aptClosure[p] >= aptSeen.installed[p]
    BY <2>3, <2>4
  <2>6. QED
    BY <2>2, <2>5 DEF EvidenceUnchanged
<1>3. QED
  BY <1>1, <1>2

-----------------------------------------------------------------------------
(* ResolverBackends: the node resolver and the server of its releases.      *)

\* The archive is fetched once a release key vouches for its checksums.
NodeInv ==
  /\ nodeStep = "archive" => nodeGot \subseteq Genuine
  /\ ResolvedIsGenuine /\ EvidenceDescribes

\* Nothing is resolved at first.
LEMMA NodeStart == ASSUME NodeInit PROVE NodeInv
BY DEF NodeInit, NodeInv, ResolvedIsGenuine, EvidenceDescribes

\* Only the genuine documents bear the release key's signature.
LEMMA ReleaseSigns == ASSUME NEW sig \in Signatures, sig.key = "release" PROVE sig.payload \in Genuine
BY DEF Signatures

\* ResolverBackends: every step of the node resolver.
LEMMA NodeStepKeeps == ASSUME NodeInv, [NodeNext]_nodeVars PROVE NodeInv'
<1>1. CASE UNCHANGED nodeVars
  BY <1>1 DEF nodeVars, NodeInv, ResolvedIsGenuine, EvidenceDescribes
<1>2. CASE PreflightNode \/ NewBackend \/ NodeHostMoves
  BY <1>2 DEF PreflightNode, NewBackend, NodeHostMoves, NodeInv, ResolvedIsGenuine, EvidenceDescribes
<1>3. CASE \E c \in ArchiveBytes : FetchSums(c)
  BY <1>3 DEF FetchSums, NodeInv, ResolvedIsGenuine, EvidenceDescribes
<1>4. ASSUME NEW c \in ArchiveBytes, FetchArchive(c) PROVE NodeInv'
  <2>1. nodeStep = "archive" /\ nodeStep' = "rest" /\ nodeGot' = {}
    BY <1>4 DEF FetchArchive, NodeFails
  <2>2. nodeResult' = nodeResult \/ (/\ \A sums \in nodeGot : c = sums
                                     /\ nodeResult' = nodeResult \cup {[archive |-> c, sums |-> sums] : sums \in nodeGot})
    BY <1>4 DEF FetchArchive, NodeFails, ChecksumHolds
  <2>3. \A r \in nodeResult' \ nodeResult : r.archive \in Genuine /\ r.sums = r.archive
    BY <2>1, <2>2 DEF NodeInv
  <2>4. QED
    BY <2>1, <2>3 DEF NodeInv, ResolvedIsGenuine, EvidenceDescribes
<1>5. ASSUME NEW sig \in Signatures, FetchSignature(sig) PROVE NodeInv'
  <2>1. CASE nodeStep' = "archive" /\ nodeGot' = nodeGot /\ nodeResult' = nodeResult /\ \A sums \in nodeGot : Authentic(sums, sig)
    BY <2>1, ReleaseSigns DEF NodeInv, ResolvedIsGenuine, EvidenceDescribes, Authentic
  <2>2. CASE NodeFails
    BY <2>2 DEF NodeFails, NodeInv, ResolvedIsGenuine, EvidenceDescribes
  <2>3. QED
    BY <1>5, <2>1, <2>2 DEF FetchSignature
<1>6. QED
  BY <1>1, <1>2, <1>3, <1>4, <1>5 DEF NodeNext

-----------------------------------------------------------------------------
(* RemoteResolution: what a target answers and what is applied on it.       *)

\* What is counted.
TargetCounted ==
  /\ rnMetadata \in Nat /\ rnNonce \in Nat
  /\ rnRequest.nonce \in Nat /\ rnRequest.nonce <= rnNonce
  /\ rnRequest.since \in Nat /\ rnRequest.since <= rnMetadata

\* A resolution that names the manager it was made for.
NamesManager(r) == r.probed = r.binding.manager

\* A helper process at work.
HelperKnows(h) ==
  /\ h = [nonce |-> h.nonce, asked |-> h.asked, config |-> h.config, probed |-> h.probed, at |-> h.at]
  /\ h.nonce \in Nat /\ h.nonce <= rnNonce
  /\ h.at = "probed" => h.probed = h.config.manager

\* An answer: the one to the current request is not older than the request.
FreshAnswer(a) ==
  /\ a.nonce \in Nat /\ a.nonce <= rnNonce /\ a.resolution.metadata \in Nat
  /\ a.nonce = rnRequest.nonce => a.resolution.metadata >= rnRequest.since
  /\ NamesManager(a.resolution)

TargetInv ==
  /\ TargetCounted
  /\ \A h \in rnHelpers : HelperKnows(h)
  /\ \A a \in rnAnswers : FreshAnswer(a)
  /\ rnPulling # NotAsked =>
       /\ rnPulling = [resolution |-> rnPulling.resolution, pulled |-> rnPulling.pulled]
       /\ rnRequest # NoRequest /\ NamesManager(rnPulling.resolution)
       /\ rnPulling.resolution.metadata >= rnRequest.since
  /\ KeptIsFresh /\ KeptNamesInstalled
  /\ \A x \in rnMutating : NamesManager(x.resolution)
  /\ AppliedAsResolved

\* Nothing is asked at first.
LEMMA TargetStart == ASSUME TargetResolutionInit PROVE TargetInv
BY DEF TargetResolutionInit, TargetInv, TargetCounted, NoRequest, KeptIsFresh, KeptNamesInstalled, AppliedAsResolved

\* Only the manager, the metadata or the configurations change.
LEMMA OwnerKeepsTarget ==
  ASSUME TargetInv, rnMetadata' \in {rnMetadata, rnMetadata + 1},
         UNCHANGED <<rnRequest, rnHelpers, rnAnswers, rnPulling, rnDone, rnNonce>>
  PROVE  TargetInv'
BY DEF TargetInv, TargetCounted, rnDone, HelperKnows, FreshAnswer, NamesManager, KeptIsFresh, KeptNamesInstalled, AppliedAsResolved

\* A new request has a nonce no helper and no answer has.
LEMMA RequestKeepsTarget == ASSUME TargetInv, SendResolution PROVE TargetInv'
<1>0. PICK new : new = [nonce |-> rnNonce + 1, asked |-> rnWanted, config |-> Unset, probed |-> 0, at |-> "started"]
  OBVIOUS
<1>1. /\ rnRequest = NoRequest /\ rnNonce' = rnNonce + 1 /\ rnHelpers' = rnHelpers \cup {new}
      /\ rnRequest' = [nonce |-> rnNonce', asked |-> rnWanted, since |-> rnMetadata]
      /\ UNCHANGED <<rnMetadata, rnAnswers, rnPulling, rnKept, rnMutating, rnApplied>>
  BY <1>0 DEF SendResolution, rnTarget, rnDone
<1>2. rnPulling = NotAsked
  BY <1>1 DEF TargetInv
<1>3. TargetCounted'
  BY <1>1 DEF TargetInv, TargetCounted
<1>4. \A h \in rnHelpers' : HelperKnows(h)'
  <2>1. \A h \in rnHelpers : HelperKnows(h)'
    BY <1>1 DEF TargetInv, TargetCounted, HelperKnows
  <2>2. HelperKnows(new)'
    BY <1>0, <1>1 DEF TargetInv, TargetCounted, HelperKnows
  <2>3. QED
    BY <1>1, <2>1, <2>2
<1>5. \A a \in rnAnswers' : FreshAnswer(a)'
  BY <1>1 DEF TargetInv, TargetCounted, FreshAnswer, NamesManager
<1>6. QED
  BY <1>1, <1>2, <1>3, <1>4, <1>5 DEF TargetInv, NamesManager, KeptIsFresh, KeptNamesInstalled, AppliedAsResolved

\* RemoteResolution: every step of a helper process.
LEMMA HelperKeepsTarget ==
  ASSUME TargetInv, NEW h \in rnHelpers, LoadHelperConfig(h) \/ RefuseRequest(h) \/ ProbeAgain(h) \/ ResolvePackage(h)
  PROVE  TargetInv'
<1>1. UNCHANGED <<rnMetadata, rnRequest, rnPulling, rnKept, rnMutating, rnApplied, rnNonce>>
  BY DEF LoadHelperConfig, RefuseRequest, ProbeAgain, ResolvePackage, HelperRest, rnTarget, rnDone
<1>2. HelperKnows(h) /\ h.nonce \in Nat /\ rnNonce \in Nat
  BY DEF TargetInv, TargetCounted, HelperKnows
<1>3. \A g \in rnHelpers' : HelperKnows(g)'
  <2>1. \A g \in rnHelpers : HelperKnows(g)'
    BY <1>1 DEF TargetInv, HelperKnows
  <2>2. CASE LoadHelperConfig(h)
    <3>0. PICK new : new = [h EXCEPT !.config = rnConfig, !.at = "loaded"]
      OBVIOUS
    <3>1. new = [nonce |-> h.nonce, asked |-> h.asked, config |-> rnConfig, probed |-> h.probed, at |-> "loaded"]
      BY <1>2, <3>0 DEF HelperKnows
    <3>2. HelperKnows(new)'
      BY <1>1, <1>2, <3>1 DEF HelperKnows
    <3>3. QED
      BY <2>1, <2>2, <3>0, <3>2 DEF LoadHelperConfig, Becoming
  <2>3. CASE ProbeAgain(h) /\ ManagerUnchanged(h)
    <3>0. PICK new : new = [h EXCEPT !.probed = rnManager, !.at = "probed"]
      OBVIOUS
    <3>1. new = [nonce |-> h.nonce, asked |-> h.asked, config |-> h.config, probed |-> rnManager, at |-> "probed"]
      BY <1>2, <3>0 DEF HelperKnows
    <3>2. HelperKnows(new)'
      BY <1>1, <1>2, <2>3, <3>1 DEF HelperKnows, ManagerUnchanged
    <3>3. QED
      BY <2>1, <2>3, <3>0, <3>2 DEF ProbeAgain, Becoming
  <2>4. CASE rnHelpers' = rnHelpers \ {h}
    BY <2>1, <2>4
  <2>5. QED
    BY <2>2, <2>3, <2>4 DEF RefuseRequest, ProbeAgain, ResolvePackage
<1>4. \A a \in rnAnswers' : FreshAnswer(a)'
  <2>1. \A a \in rnAnswers : FreshAnswer(a)'
    BY <1>1 DEF TargetInv, FreshAnswer
  <2>2. CASE ResolvePackage(h)
    <3>0. PICK new : new = [nonce |-> h.nonce, asked |-> h.asked,
                            resolution |-> [binding |-> h.config, metadata |-> rnMetadata, probed |-> h.probed]]
      OBVIOUS
    <3>1. FreshAnswer(new)'
      BY <3>0, <1>1, <1>2, <2>2 DEF ResolvePackage, TargetInv, TargetCounted, HelperKnows, FreshAnswer, NamesManager
    <3>2. QED
      BY <2>1, <2>2, <3>0, <3>1 DEF ResolvePackage
  <2>3. CASE UNCHANGED rnAnswers
    BY <2>1, <2>3
  <2>4. QED
    BY <2>2, <2>3 DEF LoadHelperConfig, RefuseRequest, ProbeAgain
<1>5. QED
  BY <1>1, <1>3, <1>4 DEF TargetInv, TargetCounted, NamesManager, KeptIsFresh, KeptNamesInstalled, AppliedAsResolved

\* RemoteResolution: every step of the controller on an answer.
LEMMA ControllerKeepsTarget ==
  ASSUME TargetInv, (\E a \in rnAnswers : ReceiveAnswer(a)) \/ PullArtifact \/ KeepResolution \/ ResolutionFails
  PROVE  TargetInv'
<1>1. UNCHANGED <<rnMetadata, rnHelpers, rnAnswers, rnMutating, rnApplied, rnNonce>>
  BY DEF ReceiveAnswer, PullArtifact, KeepResolution, ResolutionFails, rnTarget, rnDone
<1>2. rnRequest' \in {rnRequest, NoRequest}
  BY DEF ReceiveAnswer, PullArtifact, KeepResolution, ResolutionFails
<1>3. TargetCounted' /\ (\A h \in rnHelpers' : HelperKnows(h)') /\ \A a \in rnAnswers' : FreshAnswer(a)'
  BY <1>1, <1>2 DEF TargetInv, TargetCounted, HelperKnows, FreshAnswer, NoRequest
<1>4. CASE \E a \in rnAnswers : ReceiveAnswer(a)
  <2>1. PICK a \in rnAnswers : ReceiveAnswer(a)
    BY <1>4
  <2>2. UNCHANGED <<rnKept, rnMutating, rnApplied>> /\ rnRequest # NoRequest /\ rnPulling = NotAsked
    BY <2>1 DEF ReceiveAnswer, rnDone
  <2>3. CASE AnswerMatches(a)
    <3>1. rnPulling' = [resolution |-> a.resolution, pulled |-> 0] /\ rnRequest' = rnRequest /\ a.nonce = rnRequest.nonce
      BY <2>1, <2>3 DEF ReceiveAnswer, AnswerMatches
    <3>2. FreshAnswer(a)
      BY DEF TargetInv
    <3>3. rnPulling'.resolution = a.resolution /\ rnPulling'.pulled = 0
      BY <3>1
    <3>4. QED
      BY <1>1, <1>3, <2>2, <3>1, <3>2, <3>3 DEF TargetInv, FreshAnswer, NamesManager, KeptIsFresh, KeptNamesInstalled, AppliedAsResolved
  <2>4. CASE ~AnswerMatches(a)
    <3>1. rnPulling' = NotAsked
      BY <2>1, <2>2, <2>4 DEF ReceiveAnswer
    <3>2. QED
      BY <1>1, <1>3, <2>2, <3>1 DEF TargetInv, NamesManager, KeptIsFresh, KeptNamesInstalled, AppliedAsResolved
  <2>5. QED
    BY <2>3, <2>4
<1>5. CASE PullArtifact
  <2>1. rnPulling # NotAsked /\ rnPulling' = [rnPulling EXCEPT !.pulled = @ + 1] /\ UNCHANGED <<rnRequest, rnKept, rnMutating, rnApplied>>
    BY <1>5 DEF PullArtifact, rnDone
  <2>2. rnPulling' = [resolution |-> rnPulling.resolution, pulled |-> rnPulling.pulled + 1]
    BY <2>1 DEF TargetInv
  <2>3. rnPulling'.resolution = rnPulling.resolution /\ rnPulling'.pulled = rnPulling.pulled + 1
    BY <2>2
  <2>4. QED
    BY <1>1, <1>3, <2>1, <2>2, <2>3 DEF TargetInv, NamesManager, KeptIsFresh, KeptNamesInstalled, AppliedAsResolved
<1>6. CASE KeepResolution
  <2>1. /\ rnPulling # NotAsked /\ rnPulling' = NotAsked
        /\ rnKept' = rnKept \cup {[resolution |-> rnPulling.resolution, since |-> rnRequest.since]}
    BY <1>6 DEF KeepResolution
  <2>2. KeptIsFresh' /\ KeptNamesInstalled'
    BY <2>1 DEF TargetInv, KeptIsFresh, KeptNamesInstalled, NamesManager
  <2>3. QED
    BY <1>1, <1>3, <2>1, <2>2 DEF TargetInv, NamesManager, AppliedAsResolved
<1>7. CASE ResolutionFails
  BY <1>1, <1>3, <1>7 DEF ResolutionFails, rnDone, TargetInv, NamesManager, KeptIsFresh, KeptNamesInstalled, AppliedAsResolved
<1>8. QED
  BY <1>4, <1>5, <1>6, <1>7

\* RemoteResolution: every step of an application.
LEMMA MutationKeepsTarget ==
  ASSUME TargetInv, (\E k \in rnKept : SendMutation(k)) \/ \E x \in rnMutating : ApplyMutation(x)
  PROVE  TargetInv'
<1>1. UNCHANGED <<rnMetadata, rnRequest, rnHelpers, rnAnswers, rnPulling, rnKept, rnNonce>>
  BY DEF SendMutation, ApplyMutation, rnTarget
<1>2. TargetCounted' /\ (\A h \in rnHelpers' : HelperKnows(h)') /\ \A a \in rnAnswers' : FreshAnswer(a)'
  BY <1>1 DEF TargetInv, TargetCounted, HelperKnows, FreshAnswer
<1>3. (\A x \in rnMutating' : NamesManager(x.resolution)) /\ AppliedAsResolved'
  BY <1>1 DEF SendMutation, ApplyMutation, ResolutionAuthorised, TargetInv, NamesManager, KeptNamesInstalled, AppliedAsResolved
<1>4. QED
  BY <1>1, <1>2, <1>3 DEF TargetInv, NamesManager, KeptIsFresh, KeptNamesInstalled

\* RemoteResolution: every step of owner, helper and controller.
LEMMA TargetStep == ASSUME TargetInv, [TargetResolutionNext]_rnVars PROVE TargetInv'
<1>1. CASE UNCHANGED rnVars
  BY <1>1, OwnerKeepsTarget DEF rnVars, rnDone
<1>2. CASE UpgradeManager \/ ReleaseMetadata \/ AdoptBinding
  BY <1>2, OwnerKeepsTarget DEF UpgradeManager, ReleaseMetadata, AdoptBinding, rnTarget
<1>3. ASSUME NEW p \in Provisions, WriteConfigAtomic(p) \/ \E s \in Sources : ProbeManagerBinding(p, s) PROVE TargetInv'
  BY <1>3, OwnerKeepsTarget DEF WriteConfigAtomic, ProbeManagerBinding
<1>4. QED
  BY <1>1, <1>2, <1>3, RequestKeepsTarget, HelperKeepsTarget, ControllerKeepsTarget, MutationKeepsTarget DEF TargetResolutionNext
=============================================================================
