--------------------------- MODULE JobQueueProofs ---------------------------
(***************************************************************************)
(* Proofs about JobQueue, for any number of jobs, fences, threads and      *)
(* slots.                                                                  *)
(***************************************************************************)
EXTENDS JobQueue, TLAPS

(* One step of an index around a ring of m slots (queue.c: (i + 1) %
   max_jobs) is an increment that wraps to 0. *)
LEMMA WrapSucc ==
  ASSUME NEW m \in Nat \ {0}, NEW i \in 0..(m - 1)
  PROVE  (i + 1) % m = IF i + 1 = m THEN 0 ELSE i + 1
<1>1. CASE i + 1 = m
  BY <1>1
<1>2. CASE i + 1 # m
  BY <1>2
<1>. QED
  BY <1>1, <1>2

(* An offset of less than a full turn around the ring wraps at most once. *)
LEMMA WrapAdd ==
  ASSUME NEW m \in Nat \ {0}, NEW i \in 0..(m - 1), NEW k \in 0..(m - 1)
  PROVE  (i + k) % m = IF i + k < m THEN i + k ELSE i + k - m
<1>1. CASE i + k < m
  BY <1>1
<1>2. CASE ~(i + k < m)
  BY <1>2
<1>. QED
  BY <1>1, <1>2

(* A rotation of the ring's indices is a bijection: the do-while copy of a
   full ring neither loses nor duplicates a slot. *)
LEMMA Rotation ==
  ASSUME NEW m \in Nat \ {0}, NEW r \in 0..(m - 1)
  PROVE  /\ \A i \in 0..(m - 1) : (r + i) % m \in 0..(m - 1)
         /\ \A i, k \in 0..(m - 1) : (r + i) % m = (r + k) % m => i = k
<1>1. \A i \in 0..(m - 1) : (r + i) % m = IF r + i < m THEN r + i ELSE r + i - m
  BY WrapAdd
<1>. QED
  BY <1>1

-----------------------------------------------------------------------------
(* The inductive invariant.                                                *)

Outstanding == {"queued", "running", "executed"}

(* A fence serves one outstanding job at a time, because the callers wait for
   it before they reuse it. *)
FenceUnshared ==
  \A j, k \in Jobs :
    /\ FenceOf[j] # NoFence /\ FenceOf[j] = FenceOf[k]
    /\ phase[j] \in Outstanding /\ phase[k] \in Outstanding
    => j = k

(* The main thread drops and waits with a real fence, and between the removal
   of a job and the signal of its fence, queue_drop_job owes the signal to no
   other job. *)
DropOwesNothing ==
  /\ client.pc \in {"scan", "signal"} => client.fence \in Fences
  /\ client.pc = "signal" =>
       \A j \in Jobs : FenceOf[j] = client.fence => phase[j] \notin Outstanding

(* A worker leaves its loop only after queue_kill_threads. *)
LeavingAfterKill ==
  \A w \in Threads :
    /\ wpc[w] \in {"leaving", "exited"} => numThreads = 0
    /\ wpc[w] # "absent" => w < numThreads \/ numThreads = 0

IInv ==
  /\ TypeOK
  /\ RingConsistent
  /\ OneOwner
  /\ FenceSettlesJob
  /\ FenceUnshared
  /\ DropOwesNothing
  /\ LeavingAfterKill

(* queue_create establishes the invariant. *)
LEMMA InitIInv == Init => IInv
<1>. SUFFICES ASSUME Init PROVE IInv
  OBVIOUS
<1>. USE ConstantsAssumption DEF Init, Threads, Idle
<1>1. TypeOK
  BY DEF TypeOK, WorkerPcs, ClientPcs, Phases
<1>2. RingConsistent
  BY DEF RingConsistent
<1>3. OneOwner
  BY DEF OneOwner
<1>4. FenceSettlesJob /\ FenceUnshared
  BY DEF FenceSettlesJob, FenceUnshared, Outstanding
<1>5. DropOwesNothing /\ LeavingAfterKill
  BY DEF DropOwesNothing, LeavingAfterKill
<1>. QED
  BY <1>1, <1>2, <1>3, <1>4, <1>5 DEF IInv

(* queue_add_job: the slot written is empty, in the ring or in its grown copy. *)
LEMMA AddJobIInv ==
  ASSUME NEW j \in Jobs, IInv, AddJob(j)
  PROVE  IInv'
<1>. USE ConstantsAssumption
<1>. /\ TypeOK /\ RingConsistent /\ OneOwner /\ FenceSettlesJob
     /\ FenceUnshared /\ DropOwesNothing /\ LeavingAfterKill
  BY DEF IInv
<1>1. /\ numThreads > 0 /\ client = Idle /\ phase[j] = "new"
      /\ UNCHANGED <<numThreads, wjob, client>>
      /\ phase' = [phase EXCEPT ![j] = "queued"]
      /\ numQueued' = numQueued + 1
      /\ FenceOf[j] # NoFence => signalled[FenceOf[j]]
      /\ signalled' = [f \in Fences |-> f # FenceOf[j] /\ signalled[f]]
  BY DEF AddJob, FenceReset
<1>2. /\ wpc' \in [Threads -> WorkerPcs]
      /\ \A w \in Threads : wpc'[w] # wpc[w] => wpc[w] = "asleep" /\ wpc'[w] = "ready"
  BY DEF AddJob, WakeOne, TypeOK, WorkerPcs
<1>5. FenceSettlesJob' /\ FenceUnshared'
  BY <1>1 DEF FenceSettlesJob, FenceUnshared, Outstanding, TypeOK
<1>6. DropOwesNothing' /\ LeavingAfterKill'
  BY <1>1, <1>2 DEF DropOwesNothing, LeavingAfterKill, TypeOK, Idle
<1>3. CASE numQueued = maxJobs
  <2>1. /\ slots' = [Grown EXCEPT ![maxJobs] = j]
        /\ maxJobs' = maxJobs + Growth
        /\ readIdx' = 0
        /\ writeIdx' = (maxJobs + 1) % (maxJobs + Growth)
    BY <1>3 DEF AddJob, Enqueue
  <2>2. writeIdx' = IF maxJobs + 1 = maxJobs + Growth THEN 0 ELSE maxJobs + 1
    <3>1. /\ maxJobs + Growth \in Nat \ {0}
          /\ maxJobs \in 0..((maxJobs + Growth) - 1)
      BY DEF TypeOK
    <3>. QED
      BY <2>1, <3>1, WrapSucc
  <2>3. /\ \A i \in 0..(maxJobs - 1) : (readIdx + i) % maxJobs \in 0..(maxJobs - 1)
        /\ \A i, k \in 0..(maxJobs - 1) :
             (readIdx + i) % maxJobs = (readIdx + k) % maxJobs => i = k
    BY Rotation DEF TypeOK
  <2>4. /\ slots' \in [0..(maxJobs' - 1) -> Jobs \cup {NoJob}]
        /\ slots'[maxJobs] = j
        /\ \A i \in 0..(maxJobs' - 1) : i > maxJobs => slots'[i] = NoJob
        /\ \A i \in 0..(maxJobs - 1) : slots'[i] = slots[(readIdx + i) % maxJobs]
    <3>1. \A i \in 0..(maxJobs - 1) :
            slots[(readIdx + i) % maxJobs] \in Jobs \cup {NoJob}
      BY <2>3 DEF TypeOK
    <3>2. Grown \in [0..(maxJobs' - 1) -> Jobs \cup {NoJob}]
      BY <2>1, <3>1 DEF Grown, TypeOK
    <3>3. maxJobs \in 0..(maxJobs' - 1)
      BY <2>1 DEF TypeOK
    <3>. DEFINE old(i) == slots[(readIdx + i) % maxJobs]
    <3>4. /\ \A i \in 0..(maxJobs + Growth - 1) : i < maxJobs => Grown[i] = old(i)
          /\ \A i \in 0..(maxJobs + Growth - 1) : ~(i < maxJobs) => Grown[i] = NoJob
      BY DEF Grown
    <3>5. /\ slots' \in [0..(maxJobs' - 1) -> Jobs \cup {NoJob}]
          /\ slots'[maxJobs] = j
          /\ \A i \in 0..(maxJobs' - 1) : i # maxJobs => slots'[i] = Grown[i]
      BY <2>1, <3>2, <3>3
    <3>6. maxJobs \in Nat /\ Growth \in Nat \ {0} /\ maxJobs' = maxJobs + Growth
      BY <2>1 DEF TypeOK
    <3>. HIDE DEF old, Grown
    <3>7. \A i \in 0..(maxJobs' - 1) : i > maxJobs => slots'[i] = NoJob
      BY <3>4, <3>5, <3>6
    <3>8. \A i \in 0..(maxJobs - 1) : slots'[i] = old(i)
      BY <3>4, <3>5, <3>6
    <3>. QED
      BY <3>5, <3>7, <3>8 DEF old
  <2>5. \A i \in 0..(maxJobs' - 1) : i > maxJobs => slots'[i] = NoJob
    BY <2>4
  <2>6. TypeOK'
    BY <1>1, <1>2, <1>3, <2>1, <2>2, <2>4 DEF TypeOK, Phases
  <2>7. RingConsistent'
    <3>1. maxJobs \in Nat \ {0}
      BY DEF TypeOK
    <3>2. /\ readIdx' = 0
          /\ numQueued' = maxJobs + 1
          /\ maxJobs' = maxJobs + Growth
      BY <1>1, <1>3, <2>1
    <3>3. \A i \in 0..(maxJobs + Growth - 1) : i > maxJobs => slots'[i] = NoJob
      BY <2>5, <3>1, <3>2
    <3>4. writeIdx' = IF 0 + (maxJobs + 1) < maxJobs + Growth
                      THEN 0 + (maxJobs + 1)
                      ELSE 0 + (maxJobs + 1) - (maxJobs + Growth)
      BY <2>2, <3>1
    <3>5. ASSUME NEW i \in 0..(maxJobs + Growth - 1), slots'[i] # NoJob
          PROVE  0 <= i /\ i < 0 + (maxJobs + 1) /\ 0 + (maxJobs + 1) <= maxJobs + Growth
      BY <3>1, <3>3, <3>5
    <3>. QED
      BY <3>1, <3>2, <3>4, <3>5 DEF RingConsistent, Live
  <2>8. OneOwner'
    <3>1. \A i \in 0..(maxJobs - 1) : slots[i] # j
      BY <1>1 DEF OneOwner, TypeOK
    <3>2. \A i \in 0..(maxJobs' - 1) : slots'[i] # NoJob => i \in 0..maxJobs
      BY <2>4, <2>1 DEF TypeOK
    <3>3. \A i, k \in 0..(maxJobs' - 1) : slots'[i] # NoJob /\ slots'[i] = slots'[k] => i = k
      <4>. SUFFICES ASSUME NEW i \in 0..maxJobs, NEW k \in 0..maxJobs,
                           slots'[i] # NoJob, slots'[i] = slots'[k]
                    PROVE  i = k
        BY <3>2
      <4>1. CASE i = maxJobs \/ k = maxJobs
        BY <4>1, <3>1, <2>3, <2>4 DEF TypeOK
      <4>2. CASE i # maxJobs /\ k # maxJobs
        <5>1. i \in 0..(maxJobs - 1) /\ k \in 0..(maxJobs - 1)
          BY <4>2 DEF TypeOK
        <5>2. (readIdx + i) % maxJobs = (readIdx + k) % maxJobs
          BY <5>1, <2>3, <2>4 DEF OneOwner
        <5>. QED
          BY <5>1, <5>2, <2>3
      <4>. QED
        BY <4>1, <4>2
    <3>4. \A i \in 0..(maxJobs' - 1) : slots'[i] # NoJob => phase'[slots'[i]] = "queued"
      BY <1>1, <3>1, <3>2, <2>3, <2>4 DEF OneOwner, TypeOK
    <3>. QED
      BY <1>1, <1>2, <3>3, <3>4 DEF OneOwner, TypeOK
  <2>. QED
    BY <1>5, <1>6, <2>6, <2>7, <2>8 DEF IInv
<1>4. CASE numQueued # maxJobs
  <2>1. /\ slots' = [slots EXCEPT ![writeIdx] = j]
        /\ writeIdx' = (writeIdx + 1) % maxJobs
        /\ UNCHANGED <<maxJobs, readIdx>>
    BY <1>4 DEF AddJob, Enqueue, NextIdx
  <2>2. writeIdx' = IF writeIdx + 1 = maxJobs THEN 0 ELSE writeIdx + 1
    BY <2>1, WrapSucc DEF TypeOK
  <2>3. TypeOK'
    BY <1>1, <1>2, <1>4, <2>1, <2>2 DEF TypeOK, Phases
  <2>4. RingConsistent'
    BY <1>1, <1>4, <2>1, <2>2 DEF RingConsistent, TypeOK, Live
  <2>5. OneOwner'
    BY <1>1, <1>2, <2>1 DEF OneOwner, TypeOK
  <2>. QED
    BY <1>5, <1>6, <2>3, <2>4, <2>5 DEF IInv
<1>. QED
  BY <1>3, <1>4

(* The worker takes the oldest slot: the only copy of its job. *)
LEMMA PopJobIInv ==
  ASSUME NEW w \in Threads, IInv, PopJob(w)
  PROVE  IInv'
<1>. USE ConstantsAssumption
<1>. /\ TypeOK /\ RingConsistent /\ OneOwner /\ FenceSettlesJob
     /\ FenceUnshared /\ DropOwesNothing /\ LeavingAfterKill
  BY DEF IInv
<1>1. /\ wpc[w] = "ready" /\ w < numThreads /\ numQueued > 0
      /\ slots' = [slots EXCEPT ![readIdx] = NoJob]
      /\ numQueued' = numQueued - 1
      /\ UNCHANGED <<maxJobs, writeIdx, numThreads, signalled, client>>
  BY DEF PopJob, PopSlot
<1>2. readIdx' = IF readIdx + 1 = maxJobs THEN 0 ELSE readIdx + 1
  BY WrapSucc DEF PopJob, PopSlot, NextIdx, TypeOK
<1>3. \/ /\ slots[readIdx] = NoJob
         /\ UNCHANGED <<wpc, wjob, phase>>
      \/ /\ slots[readIdx] \in Jobs
         /\ phase[slots[readIdx]] = "queued"
         /\ wpc' = [wpc EXCEPT ![w] = "busy"]
         /\ wjob' = [wjob EXCEPT ![w] = slots[readIdx]]
         /\ phase' = [phase EXCEPT ![slots[readIdx]] = "running"]
  BY DEF PopJob, TypeOK, OneOwner
<1>4. TypeOK'
  <2>1. numQueued' \in 0..maxJobs /\ readIdx' \in 0..(maxJobs - 1)
    BY <1>1, <1>2 DEF TypeOK
  <2>2. /\ wpc' \in [Threads -> WorkerPcs]
        /\ wjob' \in [Threads -> Jobs \cup {NoJob}]
        /\ phase' \in [Jobs -> Phases]
    BY <1>3 DEF TypeOK, WorkerPcs, Phases
  <2>. QED
    BY <1>1, <2>1, <2>2 DEF TypeOK
<1>5. RingConsistent'
  BY <1>1, <1>2 DEF RingConsistent, Live, TypeOK
<1>6. OneOwner'
  <2>1. CASE slots[readIdx] = NoJob
    BY <1>1, <1>3, <2>1 DEF OneOwner, TypeOK
  <2>2. CASE slots[readIdx] \in Jobs
    <3>. DEFINE j == slots[readIdx]
    <3>1. /\ phase[j] = "queued"
          /\ wpc' = [wpc EXCEPT ![w] = "busy"]
          /\ wjob' = [wjob EXCEPT ![w] = j]
          /\ phase' = [phase EXCEPT ![j] = "running"]
      BY <1>3, <2>2
    <3>2. \A i \in 0..(maxJobs - 1) : slots'[i] # NoJob => slots'[i] = slots[i] /\ slots[i] # j
      BY <1>1, <2>2 DEF OneOwner, TypeOK
    <3>3. \A v \in Threads : wpc[v] = "busy" => wjob[v] # j
      BY <3>1 DEF OneOwner
    <3>4. \A i \in 0..(maxJobs - 1) : slots'[i] # NoJob => phase'[slots'[i]] = "queued"
      BY <3>1, <3>2 DEF OneOwner, TypeOK
    <3>5. \A i, k \in 0..(maxJobs - 1) : slots'[i] # NoJob /\ slots'[i] = slots'[k] => i = k
      BY <3>2 DEF OneOwner
    <3>6. \A v \in Threads : wpc'[v] = "busy" =>
             /\ wjob'[v] # NoJob
             /\ phase'[wjob'[v]] \in {"running", "executed", "released"}
      BY <2>2, <3>1, <3>3 DEF OneOwner, TypeOK
    <3>7. \A u, v \in Threads : wpc'[u] = "busy" /\ wpc'[v] = "busy" /\ wjob'[u] = wjob'[v]
                                  => u = v
      BY <3>1, <3>3 DEF OneOwner, TypeOK
    <3>. QED
      BY <1>1, <3>4, <3>5, <3>6, <3>7 DEF OneOwner
  <2>. QED
    BY <2>1, <2>2 DEF TypeOK
<1>7. FenceSettlesJob' /\ FenceUnshared' /\ DropOwesNothing'
  BY <1>1, <1>3 DEF FenceSettlesJob, FenceUnshared, DropOwesNothing, Outstanding, TypeOK
<1>8. LeavingAfterKill'
  BY <1>1, <1>3 DEF LeavingAfterKill, TypeOK
<1>. QED
  BY <1>4, <1>5, <1>6, <1>7, <1>8 DEF IInv

(* queue_drop_job removes a job that waits, or starts to wait itself. *)
LEMMA DropScanIInv ==
  ASSUME IInv, DropScan
  PROVE  IInv'
<1>. USE ConstantsAssumption
<1>. /\ TypeOK /\ RingConsistent /\ OneOwner /\ FenceSettlesJob
     /\ FenceUnshared /\ DropOwesNothing /\ LeavingAfterKill
  BY DEF IInv
<1>1. /\ client.pc = "scan"
      /\ UNCHANGED <<maxJobs, numQueued, readIdx, writeIdx, numThreads, wpc, wjob, signalled>>
  BY DEF DropScan
<1>2. Scanned \subseteq 0..(maxJobs - 1)
  BY DEF Scanned, TypeOK
<1>3. CASE client' = [client EXCEPT !.pc = "wait"] /\ UNCHANGED <<slots, phase>>
  BY <1>1, <1>3 DEF IInv, TypeOK, ClientPcs, RingConsistent, Live, OneOwner,
     FenceSettlesJob, FenceUnshared, DropOwesNothing, LeavingAfterKill
<1>4. ASSUME NEW i \in 0..(maxJobs - 1),
             slots[i] # NoJob, FenceOf[slots[i]] = client.fence,
             slots' = [slots EXCEPT ![i] = NoJob],
             phase' = [phase EXCEPT ![slots[i]] = "dropped"],
             client' = [client EXCEPT !.pc = "signal"]
      PROVE  IInv'
  <2>1. slots[i] \in Jobs /\ phase[slots[i]] = "queued"
    BY <1>4 DEF TypeOK, OneOwner
  <2>2. TypeOK'
    BY <1>1, <1>4, <2>1 DEF TypeOK, ClientPcs, Phases
  <2>3. RingConsistent'
    BY <1>1, <1>4 DEF RingConsistent, Live, TypeOK
  <2>4. OneOwner'
    BY <1>1, <1>4, <2>1 DEF OneOwner, TypeOK
  <2>5. FenceSettlesJob' /\ FenceUnshared'
    BY <1>1, <1>4, <2>1 DEF FenceSettlesJob, FenceUnshared, Outstanding, TypeOK
  <2>6. FenceOf[slots[i]] # NoFence
    BY <1>1, <1>4 DEF DropOwesNothing
  <2>7. DropOwesNothing'
    BY <1>1, <1>4, <2>1, <2>6 DEF DropOwesNothing, FenceUnshared, Outstanding, TypeOK
  <2>8. LeavingAfterKill'
    BY <1>1 DEF LeavingAfterKill
  <2>. QED
    BY <2>2, <2>3, <2>4, <2>5, <2>7, <2>8 DEF IInv
<1>. QED
  BY <1>2, <1>3, <1>4 DEF DropScan

(* The last critical section of a worker comes after queue_kill_threads; the
   fences it signals are those of the jobs it discards. *)
LEMMA ExitIInv ==
  ASSUME NEW w \in Threads, IInv, Exit(w)
  PROVE  IInv'
<1>. USE ConstantsAssumption
<1>. /\ TypeOK /\ RingConsistent /\ OneOwner /\ FenceSettlesJob
     /\ FenceUnshared /\ DropOwesNothing /\ LeavingAfterKill
  BY DEF IInv
<1>. DEFINE D == {slots[i] : i \in Scanned} \ {NoJob}
<1>1. /\ wpc[w] = "leaving" /\ numThreads = 0
      /\ wpc' = [wpc EXCEPT ![w] = "exited"]
      /\ phase' = [j \in Jobs |-> IF j \in D THEN "discarded" ELSE phase[j]]
      /\ signalled' = [f \in Fences |-> signalled[f] \/ \E j \in D : FenceOf[j] = f]
      /\ slots' = [i \in 0..(maxJobs - 1) |-> IF i \in Scanned THEN NoJob ELSE slots[i]]
      /\ readIdx' = writeIdx /\ numQueued' = 0
      /\ UNCHANGED <<maxJobs, writeIdx, numThreads, wjob, client>>
  BY DEF Exit, LeavingAfterKill
<1>2. Scanned \subseteq 0..(maxJobs - 1)
  BY DEF Scanned, TypeOK
<1>3. \A j \in D : j \in Jobs /\ phase[j] = "queued"
  BY <1>2 DEF OneOwner, TypeOK
<1>4. \A i \in 0..(maxJobs - 1) : slots[i] \in D => i \in Scanned
  BY <1>2 DEF OneOwner
<1>. HIDE DEF D
<1>5. TypeOK'
  BY <1>1 DEF TypeOK, WorkerPcs, Phases
<1>6. RingConsistent'
  BY <1>1 DEF RingConsistent, TypeOK
<1>7. OneOwner'
  <2>1. \A i \in 0..(maxJobs - 1) :
          slots'[i] # NoJob => slots'[i] = slots[i] /\ slots[i] \in Jobs /\ slots[i] \notin D
    BY <1>1, <1>4 DEF TypeOK
  <2>2. \A i \in 0..(maxJobs - 1) : slots'[i] # NoJob => phase'[slots'[i]] = "queued"
    BY <1>1, <2>1 DEF OneOwner
  <2>3. \A v \in Threads : wpc'[v] = "busy" =>
          /\ wpc[v] = "busy" /\ wjob[v] \in Jobs
          /\ phase'[wjob[v]] = phase[wjob[v]]
    BY <1>1, <1>3 DEF OneOwner, TypeOK
  <2>. QED
    BY <1>1, <2>1, <2>2, <2>3 DEF OneOwner
<1>8. FenceSettlesJob'
  BY <1>1, <1>3 DEF FenceSettlesJob, FenceUnshared, Outstanding, TypeOK
<1>9. FenceUnshared' /\ DropOwesNothing'
  BY <1>1 DEF FenceUnshared, DropOwesNothing, Outstanding, TypeOK
<1>10. LeavingAfterKill'
  BY <1>1 DEF LeavingAfterKill, TypeOK
<1>. QED
  BY <1>5, <1>6, <1>7, <1>8, <1>9, <1>10 DEF IInv

(* The steps of a worker between taking a job and coming back for another. *)
LEMMA BusyIInv ==
  ASSUME NEW w \in Threads, IInv, Execute(w) \/ SignalFence(w) \/ FinishJob(w)
  PROVE  IInv'
<1>. USE ConstantsAssumption
<1>. /\ TypeOK /\ RingConsistent /\ OneOwner /\ FenceSettlesJob
     /\ FenceUnshared /\ DropOwesNothing /\ LeavingAfterKill
  BY DEF IInv
<1>1. /\ wpc[w] = "busy" /\ wjob[w] \in Jobs
      /\ UNCHANGED <<slots, maxJobs, numQueued, readIdx, writeIdx, numThreads, client>>
  BY DEF Execute, SignalFence, FinishJob, ring, OneOwner, TypeOK
<1>2. /\ RingConsistent'
      /\ \A i \in 0..(maxJobs - 1) : slots[i] # NoJob => slots[i] # wjob[w]
  BY <1>1 DEF RingConsistent, Live, OneOwner
<1>3. CASE Execute(w)
  <2>1. /\ phase[wjob[w]] = "running" /\ UNCHANGED <<wpc, wjob, signalled>>
        /\ phase' = [phase EXCEPT ![wjob[w]] = "executed"]
    BY <1>3 DEF Execute
  <2>2. TypeOK'
    BY <1>1, <2>1 DEF TypeOK, Phases
  <2>3. OneOwner'
    BY <1>1, <1>2, <2>1 DEF OneOwner, TypeOK
  <2>4. FenceSettlesJob' /\ FenceUnshared' /\ DropOwesNothing' /\ LeavingAfterKill'
    BY <1>1, <2>1 DEF FenceSettlesJob, FenceUnshared, DropOwesNothing, LeavingAfterKill,
       Outstanding, TypeOK
  <2>. QED
    BY <1>2, <2>2, <2>3, <2>4 DEF IInv
<1>4. CASE SignalFence(w)
  <2>1. /\ phase[wjob[w]] = "executed" /\ UNCHANGED <<wpc, wjob>>
        /\ phase' = [phase EXCEPT ![wjob[w]] = "released"]
        /\ signalled' = [f \in Fences |-> f = FenceOf[wjob[w]] \/ signalled[f]]
    BY <1>4 DEF SignalFence, FenceSignal
  <2>2. TypeOK'
    BY <1>1, <2>1 DEF TypeOK, Phases
  <2>3. OneOwner'
    BY <1>1, <1>2, <2>1 DEF OneOwner, TypeOK
  <2>4. FenceSettlesJob'
    BY <1>1, <2>1 DEF FenceSettlesJob, FenceUnshared, Outstanding, TypeOK
  <2>5. FenceUnshared' /\ DropOwesNothing' /\ LeavingAfterKill'
    BY <1>1, <2>1 DEF FenceUnshared, DropOwesNothing, LeavingAfterKill, Outstanding, TypeOK
  <2>. QED
    BY <1>2, <2>2, <2>3, <2>4, <2>5 DEF IInv
<1>5. CASE FinishJob(w)
  <2>1. /\ phase[wjob[w]] = "released" /\ UNCHANGED signalled
        /\ phase' = [phase EXCEPT ![wjob[w]] = "done"]
        /\ wpc' = [wpc EXCEPT ![w] = "ready"]
        /\ wjob' = [wjob EXCEPT ![w] = NoJob]
    BY <1>5 DEF FinishJob
  <2>2. TypeOK'
    BY <1>1, <2>1 DEF TypeOK, Phases, WorkerPcs
  <2>3. OneOwner'
    BY <1>1, <1>2, <2>1 DEF OneOwner, TypeOK
  <2>4. FenceSettlesJob' /\ FenceUnshared' /\ DropOwesNothing'
    BY <1>1, <2>1 DEF FenceSettlesJob, FenceUnshared, DropOwesNothing, Outstanding, TypeOK
  <2>5. LeavingAfterKill'
    BY <1>1, <2>1 DEF LeavingAfterKill, TypeOK
  <2>. QED
    BY <1>2, <2>2, <2>3, <2>4, <2>5 DEF IInv
<1>. QED
  BY <1>3, <1>4, <1>5

(* The steps of the main thread that touch neither the ring nor a job. *)
LEMMA ClientIInv ==
  ASSUME IInv,
         \/ \E f \in Fences : WaitFence(f) \/ DropJob(f)
         \/ WaitReturn \/ DropSignal \/ KillThreads \/ JoinThreads
  PROVE  IInv'
<1>. USE ConstantsAssumption
<1>. /\ TypeOK /\ RingConsistent /\ OneOwner /\ FenceSettlesJob
     /\ FenceUnshared /\ DropOwesNothing /\ LeavingAfterKill
  BY DEF IInv
<1>1. UNCHANGED <<slots, maxJobs, numQueued, readIdx, writeIdx, wjob, phase>>
  BY DEF WaitFence, DropJob, WaitReturn, DropSignal, KillThreads, JoinThreads, ring
<1>2. FenceUnshared'
  BY <1>1 DEF FenceUnshared
<1>3. CASE (\E f \in Fences : WaitFence(f) \/ DropJob(f)) \/ WaitReturn \/ JoinThreads
  <2>1. /\ UNCHANGED <<numThreads, wpc, signalled>>
        /\ client' \in [pc : ClientPcs, fence : Fences \cup {NoFence}]
        /\ client'.pc # "signal"
        /\ client'.pc = "scan" => client'.fence \in Fences
    BY <1>3 DEF WaitFence, DropJob, WaitReturn, JoinThreads, Idle, TypeOK, ClientPcs
  <2>2. TypeOK'
    BY <1>1, <2>1 DEF TypeOK
  <2>3. RingConsistent' /\ OneOwner' /\ FenceSettlesJob' /\ LeavingAfterKill'
    BY <1>1, <2>1 DEF RingConsistent, Live, OneOwner, FenceSettlesJob, LeavingAfterKill
  <2>4. DropOwesNothing'
    BY <2>1 DEF DropOwesNothing
  <2>. QED
    BY <1>2, <2>2, <2>3, <2>4 DEF IInv
<1>4. CASE DropSignal
  <2>1. /\ UNCHANGED <<numThreads, wpc>>
        /\ client.pc = "signal" /\ client' = Idle
        /\ signalled' = [signalled EXCEPT ![client.fence] = TRUE]
    BY <1>4 DEF DropSignal
  <2>2. TypeOK'
    BY <1>1, <2>1 DEF TypeOK, Idle, ClientPcs
  <2>3. RingConsistent' /\ OneOwner' /\ LeavingAfterKill'
    BY <1>1, <2>1 DEF RingConsistent, Live, OneOwner, LeavingAfterKill
  <2>4. FenceSettlesJob'
    BY <1>1, <2>1 DEF FenceSettlesJob, DropOwesNothing, Outstanding, TypeOK
  <2>5. DropOwesNothing'
    BY <2>1 DEF DropOwesNothing, Idle
  <2>. QED
    BY <1>2, <2>2, <2>3, <2>4, <2>5 DEF IInv
<1>5. CASE KillThreads
  <2>1. /\ UNCHANGED signalled /\ numThreads' = 0
        /\ wpc' = [w \in Threads |-> IF wpc[w] = "asleep" THEN "ready" ELSE wpc[w]]
        /\ client' = [client EXCEPT !.pc = "join"]
    BY <1>5 DEF KillThreads, WakeAll
  <2>2. TypeOK'
    BY <1>1, <2>1 DEF TypeOK, ClientPcs, WorkerPcs
  <2>3. RingConsistent'
    BY <1>1, <2>1 DEF RingConsistent
  <2>4. OneOwner'
    BY <1>1, <2>1 DEF OneOwner
  <2>5. FenceSettlesJob' /\ DropOwesNothing' /\ LeavingAfterKill'
    BY <1>1, <2>1 DEF FenceSettlesJob, DropOwesNothing, LeavingAfterKill, TypeOK
  <2>. QED
    BY <1>2, <2>2, <2>3, <2>4, <2>5 DEF IInv
<1>. QED
  BY <1>3, <1>4, <1>5

(* The steps of a worker without a job. *)
LEMMA RestingIInv ==
  ASSUME NEW w \in Threads, IInv, Sleep(w) \/ SpuriousWakeup(w) \/ Leave(w)
  PROVE  IInv'
<1>. USE ConstantsAssumption
<1>. /\ TypeOK /\ RingConsistent /\ OneOwner /\ FenceSettlesJob
     /\ FenceUnshared /\ DropOwesNothing /\ LeavingAfterKill
  BY DEF IInv
<1>1. UNCHANGED <<slots, maxJobs, numQueued, readIdx, writeIdx, numThreads, wjob, signalled,
                  client, phase>>
  BY DEF Sleep, SpuriousWakeup, Leave, ring
<1>2. \E pc \in {"asleep", "ready", "leaving"} :
        /\ wpc' = [wpc EXCEPT ![w] = pc]
        /\ pc = "leaving" => w >= numThreads
        /\ wpc[w] # "absent"
  BY DEF Sleep, SpuriousWakeup, Leave
<1>3. TypeOK'
  BY <1>1, <1>2 DEF TypeOK, WorkerPcs
<1>4. RingConsistent' /\ FenceSettlesJob' /\ FenceUnshared' /\ DropOwesNothing'
  BY <1>1 DEF RingConsistent, Live, FenceSettlesJob, FenceUnshared, DropOwesNothing
<1>5. OneOwner'
  BY <1>1, <1>2 DEF OneOwner, TypeOK
<1>6. LeavingAfterKill'
  <2>1. \A v \in Threads : wpc[v] \in WorkerPcs /\ v \in Int /\ numThreads \in Int
    BY DEF TypeOK, Threads
  <2>2. w >= numThreads /\ wpc[w] # "absent" => numThreads = 0
    BY <2>1 DEF LeavingAfterKill
  <2>. QED
    BY <1>1, <1>2, <2>1, <2>2 DEF LeavingAfterKill, TypeOK
<1>. QED
  BY <1>3, <1>4, <1>5, <1>6 DEF IInv

(* Every step of the main thread and of a worker preserves the invariant. *)
LEMMA NextIInv == IInv /\ [Next]_vars => IInv'
<1>. SUFFICES ASSUME IInv, [Next]_vars PROVE IInv'
  OBVIOUS
<1>1. CASE Next
  <2>1. CASE ClientStep
    BY <2>1, AddJobIInv, DropScanIInv, ClientIInv DEF ClientStep
  <2>2. CASE \E w \in Threads : WorkerStep(w) \/ SpuriousWakeup(w)
    BY <2>2, PopJobIInv, BusyIInv, RestingIInv, ExitIInv DEF WorkerStep
  <2>. QED
    BY <1>1, <2>1, <2>2 DEF Next
<1>2. CASE UNCHANGED vars
  BY <1>2 DEF vars, IInv, TypeOK, RingConsistent, Live, OneOwner, FenceSettlesJob,
     FenceUnshared, DropOwesNothing, LeavingAfterKill
<1>. QED
  BY <1>1, <1>2

-----------------------------------------------------------------------------
(* The inductive invariant holds in every reachable state of the queue. *)
THEOREM IInvHolds == Spec => []IInv
<1>. QED
  BY InitIInv, NextIInv, PTL DEF Spec

(* Every state of the queue is well typed, for any number of jobs, fences,
   threads and slots: both indices of queue.c's ring stay inside the array
   through growth, drops and the shutdown. *)
THEOREM TypeCorrect == Spec => []TypeOK
<1>1. IInv => TypeOK
  BY DEF IInv
<1>. QED
  BY IInvHolds, <1>1, PTL

(* read_idx, write_idx and num_queued of queue.c always agree, and until the
   shutdown no job lies outside the window they delimit. *)
THEOREM RingIsConsistent == Spec => []RingConsistent
<1>1. IInv => RingConsistent
  BY DEF IInv
<1>. QED
  BY IInvHolds, <1>1, PTL

(* No job of queue.c is in two slots, in a slot and with a worker, or with two
   workers. *)
THEOREM JobHasOneOwner == Spec => []OneOwner
<1>1. IInv => OneOwner
  BY DEF IInv
<1>. QED
  BY IInvHolds, <1>1, PTL

(* When a fence of queue.c is signalled its job is neither in the ring nor
   being executed, even when queue_drop_job races the worker that takes it. *)
THEOREM SignalledFenceSettlesJob == Spec => []FenceSettlesJob
<1>1. IInv => FenceSettlesJob
  BY DEF IInv
<1>. QED
  BY IInvHolds, <1>1, PTL

(* Every step obeys NoResurrection. *)
LEMMA StepKeepsJobs ==
  ASSUME IInv, Next, NEW j \in Jobs
  PROVE  JobStep(j)
<1>. USE ConstantsAssumption
<1>. TypeOK /\ OneOwner
  BY DEF IInv
<1>. phase \in [Jobs -> Phases]
  BY DEF TypeOK
<1>. USE DEF JobStep
<1>1. CASE ClientStep
  <2>1. CASE \E k \in Jobs : AddJob(k)
    BY <2>1 DEF AddJob
  <2>2. CASE DropScan
    <3>1. Scanned \subseteq 0..(maxJobs - 1)
      BY DEF Scanned, TypeOK
    <3>2. \/ UNCHANGED phase
          \/ \E i \in Scanned : /\ slots[i] # NoJob
                                /\ phase' = [phase EXCEPT ![slots[i]] = "dropped"]
      BY <2>2 DEF DropScan
    <3>. QED
      BY <3>1, <3>2 DEF OneOwner, TypeOK
  <2>3. CASE UNCHANGED phase
    BY <2>3
  <2>. QED
    BY <1>1, <2>1, <2>2, <2>3
       DEF ClientStep, WaitFence, DropJob, WaitReturn, DropSignal, KillThreads, JoinThreads
<1>2. CASE \E w \in Threads : WorkerStep(w) \/ SpuriousWakeup(w)
  <2>. PICK w \in Threads : WorkerStep(w) \/ SpuriousWakeup(w)
    BY <1>2
  <2>1. CASE PopJob(w)
    <3>1. \/ UNCHANGED phase
          \/ /\ slots[readIdx] # NoJob
             /\ phase' = [phase EXCEPT ![slots[readIdx]] = "running"]
      BY <2>1 DEF PopJob
    <3>. QED
      BY <3>1 DEF OneOwner, TypeOK
  <2>2. CASE Execute(w) \/ SignalFence(w) \/ FinishJob(w)
    BY <2>2 DEF Execute, SignalFence, FinishJob
  <2>3. CASE Exit(w)
    <3>1. Scanned \subseteq 0..(maxJobs - 1)
      BY DEF Scanned, TypeOK
    <3>2. phase'[j] # phase[j] =>
            /\ phase'[j] = "discarded"
            /\ \E i \in Scanned : slots[i] = j /\ slots[i] # NoJob
      BY <2>3 DEF Exit
    <3>. QED
      BY <3>1, <3>2 DEF OneOwner
  <2>4. CASE UNCHANGED phase
    BY <2>4
  <2>. QED
    BY <2>1, <2>2, <2>3, <2>4 DEF WorkerStep, SpuriousWakeup, Sleep, Leave
<1>. QED
  BY <1>1, <1>2 DEF Next

(* No step of queue.c revives a job that is over, and no job comes back from
   a worker into the ring. *)
THEOREM JobsNeverResurrect == Spec => NoResurrection
<1>1. IInv /\ [Next]_vars => [\A j \in Jobs : JobStep(j)]_vars
  BY StepKeepsJobs
<1>. QED
  BY IInvHolds, <1>1, PTL DEF Spec, NoResurrection
-----------------------------------------------------------------------------
(* The queue implements JobPool.                                           *)

(* What slot a place is, without the remainder. *)
LEMMA PlaceFacts ==
  ASSUME TypeOK
  PROVE  /\ \A n \in Places : /\ n \in Nat /\ n < numQueued
                              /\ (readIdx + n) % maxJobs \in 0..(maxJobs - 1)
                              /\ At(n) \in Jobs \cup {NoJob}
         /\ Places \subseteq 0..(maxJobs - 1)
<1>1. Places \subseteq 0..(maxJobs - 1) /\ \A n \in Places : n \in Nat /\ n < numQueued
  BY DEF Places, TypeOK
<1>2. \A n \in 0..(maxJobs - 1) : (readIdx + n) % maxJobs \in 0..(maxJobs - 1)
  BY Rotation DEF TypeOK
<1>3. \A n \in Places : At(n) \in Jobs \cup {NoJob}
  BY <1>1, <1>2 DEF At, TypeOK
<1>. QED
  BY <1>1, <1>2, <1>3

(* A job is at one place of the ring only, and is queued. *)
LEMMA OnePlace ==
  ASSUME IInv
  PROVE  /\ \A m, n \in Places : At(m) # NoJob /\ At(m) = At(n) => m = n
         /\ \A j \in InRing : j \in Jobs /\ j # NoJob /\ phase[j] = "queued"
<1>. TypeOK /\ OneOwner
  BY DEF IInv
<1>1. \A m, n \in 0..(maxJobs - 1) : (readIdx + m) % maxJobs = (readIdx + n) % maxJobs => m = n
  BY Rotation DEF TypeOK
<1>2. \A m, n \in Places : At(m) # NoJob /\ At(m) = At(n) => m = n
  BY <1>1, PlaceFacts DEF At, OneOwner
<1>3. \A n \in Places : At(n) # NoJob => phase[At(n)] = "queued"
  BY PlaceFacts DEF At, OneOwner
<1>. QED
  BY <1>2, <1>3, PlaceFacts, ConstantsAssumption DEF InRing

(* A pair of jobs is in order when the first is ahead of the second. *)
OrderIs ==
  /\ \A p : p \in RingOrder <=>
              \E m, n \in Places : /\ m < n /\ At(m) # NoJob /\ At(n) # NoJob
                                   /\ p = <<At(m), At(n)>>
  /\ \A j : j \in InRing <=> j # NoJob /\ \E n \in Places : At(n) = j

(* The ring's order, by places. *)
LEMMA OrderFacts == OrderIs
<1>1. \A j : j \in InRing <=> j # NoJob /\ \E n \in Places : At(n) = j
  BY DEF InRing
<1>2. ASSUME NEW p, p \in RingOrder
      PROVE  \E m, n \in Places : /\ m < n /\ At(m) # NoJob /\ At(n) # NoJob
                                  /\ p = <<At(m), At(n)>>
  <2>1. p \in InRing \X InRing /\ Ahead(p[1], p[2])
    BY <1>2 DEF RingOrder
  <2>2. p = <<p[1], p[2]>> /\ p[1] \in InRing /\ p[2] \in InRing
    BY <2>1
  <2>3. PICK m, n \in Places : m < n /\ At(m) = p[1] /\ At(n) = p[2]
    BY <2>1 DEF Ahead
  <2>. QED
    BY <1>1, <2>2, <2>3, Zenon
<1>3. ASSUME NEW m \in Places, NEW n \in Places, m < n, At(m) # NoJob, At(n) # NoJob
      PROVE  <<At(m), At(n)>> \in RingOrder
  <2>1. At(m) \in InRing /\ At(n) \in InRing
    BY <1>1, <1>3
  <2>2. Ahead(At(m), At(n))
    BY <1>3 DEF Ahead
  <2>. QED
    BY <2>1, <2>2 DEF RingOrder
<1>. QED
  BY <1>1, <1>2, <1>3 DEF OrderIs

(* queue_add_job: what was in the ring keeps its place, also when the ring
   grows, and the new job comes after it. *)
LEMMA AddedPlace ==
  ASSUME IInv, NEW j \in Jobs, AddJob(j), NEW n \in Nat, n <= numQueued
  PROVE  At(n)' = IF n = numQueued THEN j ELSE At(n)
<1>. TypeOK /\ RingConsistent
  BY DEF IInv
<1>. USE ConstantsAssumption
<1>1. CASE numQueued = maxJobs
  <2>1. /\ slots' = [Grown EXCEPT ![maxJobs] = j]
        /\ maxJobs' = maxJobs + Growth /\ readIdx' = 0
    BY <1>1 DEF AddJob, Enqueue
  <2>2. /\ maxJobs \in Nat \ {0} /\ n \in 0..((maxJobs + Growth) - 1)
        /\ 0 \in 0..((maxJobs + Growth) - 1) /\ maxJobs + Growth \in Nat \ {0}
        /\ n # numQueued => n < maxJobs
    BY <1>1 DEF TypeOK
  <2>3. (0 + n) % (maxJobs + Growth) = n
    <3>1. \A m \in Nat \ {0} : \A k \in 0..(m - 1) : (0 + k) % m = k
      OBVIOUS
    <3>. QED
      BY <2>2, <3>1
  <2>4. At(n)' = slots'[n]
    BY <2>1, <2>3 DEF At
  <2>5. Grown[n] = IF n < maxJobs THEN At(n) ELSE NoJob
    BY <2>2 DEF Grown, At
  <2>6. DOMAIN Grown = 0..(maxJobs + Growth - 1)
    BY DEF Grown
  <2>. HIDE DEF Grown
  <2>7. slots'[n] = IF n = maxJobs THEN j ELSE Grown[n]
    BY <2>1, <2>2, <2>6
  <2>. QED
    BY <1>1, <2>2, <2>4, <2>5, <2>7
<1>2. CASE numQueued # maxJobs
  <2>1. /\ slots' = [slots EXCEPT ![writeIdx] = j]
        /\ maxJobs' = maxJobs /\ readIdx' = readIdx
    BY <1>2 DEF AddJob, Enqueue
  <2>2. n \in 0..(maxJobs - 1) /\ numQueued \in 0..(maxJobs - 1)
    BY <1>2 DEF TypeOK
  <2>3. writeIdx = (readIdx + numQueued) % maxJobs
    BY <2>2, WrapAdd DEF RingConsistent, TypeOK
  <2>4. (readIdx + n) % maxJobs = writeIdx => n = numQueued
    BY <2>2, <2>3, Rotation DEF TypeOK
  <2>5. (readIdx + n) % maxJobs \in 0..(maxJobs - 1)
    BY <2>2, Rotation DEF TypeOK
  <2>6. At(n)' = slots'[(readIdx + n) % maxJobs]
    BY <2>1 DEF At
  <2>. QED
    BY <2>1, <2>3, <2>4, <2>5, <2>6 DEF At, TypeOK
<1>. QED
  BY <1>1, <1>2

(* A worker takes the slot at the first place; the others move up. *)
LEMMA PoppedPlace ==
  ASSUME IInv, NEW w \in Threads, PopJob(w), NEW n \in Nat, n + 1 < numQueued
  PROVE  At(n)' = At(n + 1)
<1>. TypeOK
  BY DEF IInv
<1>1. /\ numQueued > 0 /\ slots' = [slots EXCEPT ![readIdx] = NoJob]
      /\ maxJobs' = maxJobs /\ readIdx' = (readIdx + 1) % maxJobs
  BY DEF PopJob, PopSlot, NextIdx
<1>2. n + 1 \in 0..(maxJobs - 1) /\ n \in 0..(maxJobs - 1) /\ 0 \in 0..(maxJobs - 1)
  BY DEF TypeOK
<1>3. readIdx' = IF readIdx + 1 = maxJobs THEN 0 ELSE readIdx + 1
  BY <1>1, WrapSucc DEF TypeOK
<1>4. readIdx' \in 0..(maxJobs - 1) /\ maxJobs \in Nat \ {0} /\ readIdx \in 0..(maxJobs - 1)
  BY <1>3 DEF TypeOK
<1>5. (readIdx' + n) % maxJobs = IF readIdx' + n < maxJobs THEN readIdx' + n ELSE readIdx' + n - maxJobs
  BY <1>2, <1>4, WrapAdd
<1>6. (readIdx + (n + 1)) % maxJobs =
        IF readIdx + (n + 1) < maxJobs THEN readIdx + (n + 1) ELSE readIdx + (n + 1) - maxJobs
  BY <1>2, <1>4, WrapAdd
<1>7. /\ (readIdx' + n) % maxJobs = (readIdx + (n + 1)) % maxJobs
      /\ (readIdx + (n + 1)) % maxJobs # readIdx
      /\ (readIdx + (n + 1)) % maxJobs \in 0..(maxJobs - 1)
  BY <1>2, <1>3, <1>4, <1>5, <1>6
<1>8. At(n)' = slots'[(readIdx' + n) % maxJobs]
  BY <1>1 DEF At
<1>. QED
  BY <1>1, <1>7, <1>8 DEF At, TypeOK

(* A new job is submitted to the pool. *)
LEMMA AddJobSubmits ==
  ASSUME IInv, NEW j \in Jobs, AddJob(j)
  PROVE  Pool!Submit(j)
<1>. TypeOK
  BY DEF IInv
<1>. DEFINE N == numQueued
<1>1. /\ numThreads > 0 /\ numThreads' = numThreads /\ phase[j] = "new" /\ numQueued' = N + 1
      /\ phase' = [phase EXCEPT ![j] = "queued"] /\ phase \in [Jobs -> Phases] /\ N \in Nat
  BY DEF AddJob, TypeOK
<1>2. \A n \in 0..N : At(n)' = IF n = N THEN j ELSE At(n)
  BY <1>1, AddedPlace
<1>3. Places = 0..(N - 1) /\ Places' = 0..N
  BY <1>1 DEF Places
<1>4. /\ \A n \in Places' : n \in Places \/ n = N
      /\ \A n \in Places : n \in Places' /\ n < N /\ n # N /\ At(n)' = At(n)
      /\ N \in Places' /\ \A n \in Places' : n = N => At(n)' = j
  BY <1>1, <1>2, <1>3
<1>5. OrderIs /\ OrderIs'
  BY OrderFacts, PTL
<1>6. j # NoJob /\ j \notin InRing /\ j \notin InHand /\ j \notin Settled
  BY <1>1, OnePlace, ConstantsAssumption DEF InHand, Settled
<1>. HIDE DEF N
<1>7. InRing' = InRing \cup {j}
  BY <1>4, <1>5, <1>6 DEF OrderIs
<1>8. RingOrder' = RingOrder \cup (InRing \X {j})
  <2>1. ASSUME NEW p \in RingOrder'
        PROVE  p \in RingOrder \cup (InRing \X {j})
    <3>1. PICK m \in Places', n \in Places' :
            /\ m < n /\ At(m)' # NoJob /\ At(n)' # NoJob
            /\ p = <<At(m)', At(n)'>>
      BY <1>5 DEF OrderIs
    <3>2. m \in Places /\ At(m)' = At(m) /\ At(m) \in InRing
      <4>1. m \in Places
        BY <1>1, <1>3, <3>1 DEF N
      <4>. QED
        BY <1>4, <1>5, <3>1, <4>1 DEF OrderIs
    <3>3. CASE n = N
      BY <1>4, <3>1, <3>2, <3>3
    <3>4. CASE n \in Places
      <4>1. At(n)' = At(n)
        BY <1>4, <3>4
      <4>. QED
        BY <1>5, <3>1, <3>2, <3>4, <4>1 DEF OrderIs
    <3>. QED
      BY <1>4, <3>3, <3>4
  <2>2. ASSUME NEW p \in RingOrder PROVE p \in RingOrder'
    <3>1. PICK m \in Places, n \in Places :
            m < n /\ At(m) # NoJob /\ At(n) # NoJob /\ p = <<At(m), At(n)>>
      BY <1>5 DEF OrderIs
    <3>2. m \in Places' /\ n \in Places' /\ At(m)' = At(m) /\ At(n)' = At(n)
      BY <1>4
    <3>. QED
      BY <1>5, <3>1, <3>2 DEF OrderIs
  <2>3. ASSUME NEW i \in InRing PROVE <<i, j>> \in RingOrder'
    <3>1. PICK m \in Places : At(m) = i /\ i # NoJob
      BY <1>5 DEF OrderIs
    <3>2. PICK n \in Places' : n = N
      BY <1>4
    <3>3. m \in Places' /\ m < n /\ At(m)' = i /\ At(n)' = j
      BY <1>4, <3>1, <3>2
    <3>. QED
      BY <1>5, <1>6, <3>1, <3>2, <3>3 DEF OrderIs
  <2>. QED
    BY <2>1, <2>2, <2>3
<1>9. InHand' = InHand /\ Settled' = Settled
  BY <1>1, <1>6, <1>7 DEF InHand, Settled
<1>. QED
  BY <1>1, <1>6, <1>7, <1>8, <1>9 DEF Pool!Submit, TypeOK

(* Job j, or nothing when it is NoJob, leaves the ring, and the others keep
   their order: what is now at place n was at g[n] before. *)
LEMMA RingTakes ==
  ASSUME NEW j, NEW g,
         \A n \in Places' : At(n)' # NoJob => g[n] \in Places /\ At(n)' = At(g[n]) /\ At(n)' # j,
         \A m, n \in Places' : At(m)' # NoJob /\ At(n)' # NoJob => (m < n <=> g[m] < g[n]),
         \A k \in Places : At(k) \notin {NoJob, j} => \E n \in Places' : g[n] = k /\ At(n)' = At(k)
  PROVE  /\ InRing' = InRing \ {j}
         /\ RingOrder' = {p \in RingOrder : p[1] # j /\ p[2] # j}
         /\ j = NoJob => InRing' = InRing /\ RingOrder' = RingOrder
<1>1. OrderIs /\ OrderIs'
  BY OrderFacts, PTL
<1>2. InRing' = InRing \ {j}
  BY <1>1 DEF OrderIs
<1>3. ASSUME NEW p \in RingOrder'
      PROVE  p \in RingOrder /\ p[1] # j /\ p[2] # j
  <2>1. PICK m \in Places', n \in Places' :
          m < n /\ At(m)' # NoJob /\ At(n)' # NoJob /\ p = <<At(m)', At(n)'>>
    BY <1>1 DEF OrderIs
  <2>2. /\ g[m] \in Places /\ g[n] \in Places /\ g[m] < g[n]
        /\ At(m)' = At(g[m]) /\ At(n)' = At(g[n]) /\ At(m)' # j /\ At(n)' # j
    BY <2>1
  <2>. QED
    BY <1>1, <2>1, <2>2 DEF OrderIs
<1>4. ASSUME NEW p \in RingOrder, p[1] # j, p[2] # j
      PROVE  p \in RingOrder'
  <2>1. PICK a \in Places, b \in Places :
          a < b /\ At(a) # NoJob /\ At(b) # NoJob /\ p = <<At(a), At(b)>>
    BY <1>1 DEF OrderIs
  <2>2. At(a) # j /\ At(b) # j
    BY <1>4, <2>1
  <2>3. PICK m \in Places' : g[m] = a /\ At(m)' = At(a)
    BY <2>1, <2>2
  <2>4. PICK n \in Places' : g[n] = b /\ At(n)' = At(b)
    BY <2>1, <2>2
  <2>5. m < n
    BY <2>1, <2>3, <2>4
  <2>. QED
    BY <1>1, <2>1, <2>3, <2>4, <2>5 DEF OrderIs
<1>5. RingOrder' = {p \in RingOrder : p[1] # j /\ p[2] # j}
  BY <1>3, <1>4
<1>6. j = NoJob => InRing' = InRing /\ RingOrder' = RingOrder
  <2>1. \A p \in RingOrder : p[1] # NoJob /\ p[2] # NoJob
    BY <1>1 DEF OrderIs
  <2>2. NoJob \notin InRing
    BY <1>1 DEF OrderIs
  <2>. QED
    BY <1>2, <1>5, <2>1, <2>2
<1>. QED
  BY <1>2, <1>5, <1>6

(* The oldest job is started; a cleared slot is passed over. *)
LEMMA PopJobStarts ==
  ASSUME IInv, NEW w \in Threads, PopJob(w)
  PROVE  UNCHANGED Pool!vars \/ \E j \in Jobs : Pool!Start(j)
<1>. TypeOK
  BY DEF IInv
<1>. DEFINE N == numQueued
            j == slots[readIdx]
<1>1. /\ numThreads > 0 /\ numThreads' = numThreads /\ N > 0 /\ numQueued' = N - 1
      /\ N \in Nat /\ phase \in [Jobs -> Phases] /\ j \in Jobs \cup {NoJob}
      /\ IF j = NoJob THEN phase' = phase ELSE phase' = [phase EXCEPT ![j] = "running"]
  BY DEF PopJob, PopSlot, TypeOK, Threads
<1>2. At(0) = j
  <2>1. (readIdx + 0) % maxJobs = readIdx
    BY DEF TypeOK
  <2>. QED
    BY <2>1 DEF At
<1>3. \A n \in 0..(N - 2) : At(n)' = At(n + 1)
  BY <1>1, PoppedPlace
<1>4. Places = 0..(N - 1) /\ Places' = 0..(N - 2)
  BY <1>1 DEF Places
<1>5. OrderIs /\ OrderIs'
  BY OrderFacts, PTL
<1>6. 0 \in Places /\ \A n \in Places : n = 0 \/ n > 0
  BY <1>1, <1>4
<1>. HIDE DEF N, j
<1>. DEFINE g == [n \in Nat |-> n + 1]
<1>7. /\ \A n \in Places' : g[n] \in Places /\ g[n] > 0 /\ At(n)' = At(g[n])
      /\ \A m, n \in Places' : m < n <=> g[m] < g[n]
      /\ \A k \in Places : k # 0 => \E n \in Places' : g[n] = k
  <2>1. \A n \in Places' : n \in Nat /\ n + 1 \in Places /\ n + 1 > 0 /\ g[n] = n + 1
    BY <1>1, <1>4
  <2>2. \A n \in Places' : At(n)' = At(g[n])
    BY <1>3, <1>4, <2>1
  <2>3. \A k \in Places : k # 0 => k - 1 \in Places' /\ k = (k - 1) + 1
    BY <1>1, <1>4
  <2>4. \A k \in Places : k # 0 => \E n \in Places' : g[n] = k
    <3>1. ASSUME NEW k \in Places, k # 0 PROVE g[k - 1] = k /\ k - 1 \in Places'
      BY <2>1, <2>3, <3>1
    <3>. QED
      BY <3>1
  <2>. HIDE DEF g
  <2>5. \A m, n \in Places' : m < n <=> g[m] < g[n]
    BY <2>1
  <2>. QED
    BY <2>1, <2>2, <2>4, <2>5
<1>. HIDE DEF g
<1>8. /\ \A n \in Places : n > 0 /\ At(n) # NoJob => At(n) # j
      /\ \A n \in Places : At(n) \notin {NoJob, j} => n # 0
  BY <1>2, <1>6, OnePlace
<1>9. /\ InRing' = InRing \ {j}
      /\ RingOrder' = {p \in RingOrder : p[1] # j /\ p[2] # j}
      /\ j = NoJob => InRing' = InRing /\ RingOrder' = RingOrder
  <2>1. \A n \in Places' : At(n)' # NoJob => g[n] \in Places /\ At(n)' = At(g[n]) /\ At(n)' # j
    BY <1>7, <1>8
  <2>2. \A k \in Places : At(k) \notin {NoJob, j} => \E n \in Places' : g[n] = k /\ At(n)' = At(k)
    BY <1>7, <1>8
  <2>. QED
    BY <1>7, <2>1, <2>2, RingTakes
<1>10. CASE j = NoJob
  BY <1>1, <1>9, <1>10 DEF Pool!vars, InHand, Settled
<1>11. CASE j # NoJob
  <2>1. j \in InRing /\ j \in Jobs /\ phase[j] = "queued"
    BY <1>2, <1>5, <1>6, <1>11, OnePlace DEF OrderIs
  <2>2. \A k \in InRing : <<k, j>> \notin RingOrder
    <3>. SUFFICES ASSUME NEW k \in InRing, <<k, j>> \in RingOrder PROVE FALSE
      OBVIOUS
    <3>1. PICK m \in Places, n \in Places : m < n /\ <<k, j>> = <<At(m), At(n)>>
      BY <1>5 DEF OrderIs
    <3>2. n = 0
      BY <1>2, <1>6, <1>11, <3>1, OnePlace
    <3>. QED
      BY <1>4, <3>1, <3>2
  <2>3. InHand' = InHand \cup {j}
    BY <1>1, <1>11, <2>1 DEF InHand
  <2>4. Settled' = Settled
    BY <1>1, <1>9, <1>11, <2>1, <2>3 DEF Settled
  <2>. QED
    BY <1>1, <1>9, <2>1, <2>2, <2>3, <2>4 DEF Pool!Start, Pool!Take, TypeOK
<1>. QED
  BY <1>10, <1>11

(* The slots that the loops from read_idx to write_idx visit are places of the
   ring. *)
LEMMA ScannedPlace ==
  ASSUME IInv, NEW i \in Scanned
  PROVE  \E a \in Places : (readIdx + a) % maxJobs = i
<1>. DEFINE a == IF readIdx <= i THEN i - readIdx ELSE i + maxJobs - readIdx
<1>. TypeOK /\ RingConsistent
  BY DEF IInv
<1>1. /\ maxJobs \in Nat \ {0} /\ readIdx \in 0..(maxJobs - 1) /\ writeIdx \in 0..(maxJobs - 1)
      /\ numQueued \in 0..maxJobs
      /\ writeIdx = IF readIdx + numQueued < maxJobs THEN readIdx + numQueued
                    ELSE readIdx + numQueued - maxJobs
  BY DEF TypeOK, RingConsistent
<1>2. i \in 0..(maxJobs - 1) /\ a \in 0..(numQueued - 1) /\ a \in 0..(maxJobs - 1)
  BY <1>1 DEF Scanned
<1>3. (readIdx + a) % maxJobs = IF readIdx + a < maxJobs THEN readIdx + a ELSE readIdx + a - maxJobs
  BY <1>1, <1>2, WrapAdd
<1>4. (readIdx + a) % maxJobs = i
  BY <1>1, <1>2, <1>3
<1>. QED
  BY <1>2, <1>4 DEF Places

(* queue_drop_job withdraws the job whose slot it clears. *)
LEMMA DropScanWithdraws ==
  ASSUME IInv, DropScan
  PROVE  UNCHANGED Pool!vars \/ \E j \in Jobs : Pool!Withdraw(j)
<1>. TypeOK /\ RingConsistent
  BY DEF IInv
<1>1. /\ UNCHANGED <<maxJobs, numQueued, readIdx, writeIdx, numThreads>>
      /\ \/ UNCHANGED <<slots, phase>>
         \/ \E i \in Scanned : /\ slots[i] # NoJob /\ slots' = [slots EXCEPT ![i] = NoJob]
                               /\ phase' = [phase EXCEPT ![slots[i]] = "dropped"]
  BY DEF DropScan
<1>2. CASE UNCHANGED <<slots, phase>>
  BY <1>1, <1>2 DEF Pool!vars, InRing, RingOrder, Ahead, Places, At, InHand, Settled
<1>3. ASSUME NEW i \in Scanned, slots[i] # NoJob, slots' = [slots EXCEPT ![i] = NoJob],
             phase' = [phase EXCEPT ![slots[i]] = "dropped"]
      PROVE  \E j \in Jobs : Pool!Withdraw(j)
  <2>. DEFINE j == slots[i]
              g == [n \in Nat |-> n]
  <2>1. PICK a \in Places : (readIdx + a) % maxJobs = i
    BY ScannedPlace
  <2>2. At(a) = j /\ j # NoJob
    BY <1>3, <2>1 DEF At
  <2>3. Places' = Places
    BY <1>1 DEF Places
  <2>4. \A n \in Places : At(n)' = IF n = a THEN NoJob ELSE At(n)
    <3>1. \A n \in Places : /\ (readIdx + n) % maxJobs \in 0..(maxJobs - 1)
                            /\ (readIdx + n) % maxJobs = i => n = a
      BY <2>1, PlaceFacts, Rotation DEF TypeOK
    <3>. QED
      BY <1>1, <1>3, <2>1, <3>1 DEF At, TypeOK
  <2>5. j \in InRing /\ j \in Jobs /\ phase[j] = "queued"
    BY <2>2, OnePlace DEF InRing
  <2>. HIDE DEF j
  <2>6. /\ InRing' = InRing \ {j}
        /\ RingOrder' = {p \in RingOrder : p[1] # j /\ p[2] # j}
    <3>1. \A n \in Places : g[n] = n /\ n \in Nat
      BY PlaceFacts
    <3>. HIDE DEF g
    <3>2. \A n \in Places : At(n) # NoJob /\ At(n) = j => n = a
      BY <2>2, OnePlace
    <3>3. \A n \in Places' : At(n)' # NoJob => g[n] \in Places /\ At(n)' = At(g[n]) /\ At(n)' # j
      BY <2>3, <2>4, <3>1, <3>2
    <3>4. \A m, n \in Places' : At(m)' # NoJob /\ At(n)' # NoJob => (m < n <=> g[m] < g[n])
      BY <2>3, <3>1
    <3>5. \A k \in Places : At(k) \notin {NoJob, j} => \E n \in Places' : g[n] = k /\ At(n)' = At(k)
      BY <2>2, <2>3, <2>4, <3>1
    <3>. QED
      BY <3>3, <3>4, <3>5, RingTakes
  <2>7. phase' = [phase EXCEPT ![j] = "dropped"] /\ phase \in [Jobs -> Phases]
    BY <1>3 DEF j, TypeOK
  <2>8. InHand' = InHand /\ j \notin InHand
    BY <2>5, <2>7 DEF InHand
  <2>9. Settled' = Settled \cup {j}
    BY <2>5, <2>6, <2>7, <2>8 DEF Settled
  <2>. QED
    BY <1>1, <2>5, <2>6, <2>8, <2>9 DEF Pool!Withdraw, Pool!Take
<1>. QED
  BY <1>1, <1>2, <1>3

(* The last critical section of a worker abandons what is in the ring. *)
LEMMA ExitAbandons ==
  ASSUME IInv, NEW w \in Threads, Exit(w)
  PROVE  Pool!Abandon
<1>. TypeOK /\ OneOwner
  BY DEF IInv
<1>. DEFINE D == {slots[i] : i \in Scanned} \ {NoJob}
<1>1. /\ numThreads = 0 /\ numThreads' = numThreads /\ numQueued' = 0
      /\ phase' = [j \in Jobs |-> IF j \in D THEN "discarded" ELSE phase[j]]
  BY DEF Exit, IInv, LeavingAfterKill
<1>2. \A j \in D : j \in Jobs /\ phase[j] = "queued"
  BY DEF Scanned, OneOwner, TypeOK
<1>. HIDE DEF D
<1>3. Places' = {} /\ OrderIs'
  <2>1. Places' = {}
    BY <1>1 DEF Places
  <2>2. OrderIs'
    BY OrderFacts, PTL
  <2>. QED
    BY <2>1, <2>2
<1>4. InRing' = {} /\ RingOrder' = {}
  BY <1>3 DEF OrderIs
<1>5. InHand' = InHand /\ \A j \in InRing : j \in Jobs /\ phase[j] = "queued"
  BY <1>1, <1>2, OnePlace DEF InHand, TypeOK
<1>6. \A j \in Jobs : phase'[j] = "new" <=> phase[j] = "new"
  BY <1>1, <1>2
<1>7. Settled' = Settled \cup InRing
  BY <1>4, <1>5, <1>6 DEF Settled, InHand
<1>. QED
  BY <1>1, <1>4, <1>5, <1>7 DEF Pool!Abandon

(* Every other step leaves the ring alone. *)
LEMMA RingStays ==
  ASSUME UNCHANGED ring
  PROVE  InRing' = InRing /\ RingOrder' = RingOrder
BY DEF ring, InRing, RingOrder, Ahead, Places, At

(* A worker's job is over for the pool with its clean-up. *)
LEMMA BusyFinishes ==
  ASSUME IInv, NEW w \in Threads, Execute(w) \/ SignalFence(w) \/ FinishJob(w)
  PROVE  UNCHANGED Pool!vars \/ \E j \in Jobs : Pool!Finish(j)
<1>. TypeOK /\ OneOwner
  BY DEF IInv
<1>1. /\ wpc[w] = "busy" /\ wjob[w] \in Jobs /\ UNCHANGED ring /\ numThreads' = numThreads
      /\ phase \in [Jobs -> Phases]
  BY DEF Execute, SignalFence, FinishJob, OneOwner, TypeOK
<1>2. InRing' = InRing /\ RingOrder' = RingOrder
  BY <1>1, RingStays
<1>3. wjob[w] \notin InRing /\ wjob[w] \in InHand
  BY <1>1, OnePlace DEF OneOwner, InHand
<1>4. CASE Execute(w) \/ SignalFence(w)
  <2>1. \E p \in {"executed", "released"} : phase' = [phase EXCEPT ![wjob[w]] = p]
    BY <1>4 DEF Execute, SignalFence
  <2>2. InHand' = InHand
    BY <1>1, <1>3, <2>1 DEF InHand
  <2>3. Settled' = Settled
    BY <1>1, <1>2, <1>3, <2>1, <2>2 DEF Settled, InHand
  <2>. QED
    BY <1>1, <1>2, <2>2, <2>3 DEF Pool!vars
<1>5. CASE FinishJob(w)
  <2>1. phase' = [phase EXCEPT ![wjob[w]] = "done"]
    BY <1>5 DEF FinishJob
  <2>2. InHand' = InHand \ {wjob[w]}
    BY <1>1, <2>1 DEF InHand
  <2>3. Settled' = Settled \cup {wjob[w]}
    BY <1>1, <1>2, <1>3, <2>1, <2>2 DEF Settled, InHand
  <2>. QED
    BY <1>1, <1>2, <1>3, <2>2, <2>3 DEF Pool!Finish
<1>. QED
  BY <1>4, <1>5

(* The steps that touch neither ring nor jobs: only queue_kill_threads shows. *)
LEMMA OthersClose ==
  ASSUME UNCHANGED <<ring, phase>>, UNCHANGED numThreads \/ KillThreads
  PROVE  UNCHANGED Pool!vars \/ Pool!Close
<1>1. InRing' = InRing /\ RingOrder' = RingOrder
  BY RingStays
<1>2. InHand' = InHand /\ Settled' = Settled
  BY <1>1 DEF InHand, Settled
<1>. QED
  BY <1>1, <1>2 DEF Pool!vars, Pool!Close, KillThreads

(* Every step of the queue is a step of the pool, or none. *)
LEMMA StepImplements ==
  ASSUME IInv, [Next]_vars
  PROVE  [Pool!Next]_Pool!vars
<1>1. CASE \E j \in Jobs : AddJob(j)
  BY <1>1, AddJobSubmits DEF Pool!Next
<1>2. CASE DropScan
  BY <1>2, DropScanWithdraws DEF Pool!Next
<1>3. ASSUME NEW w \in Threads, PopJob(w) PROVE [Pool!Next]_Pool!vars
  BY <1>3, PopJobStarts DEF Pool!Next
<1>4. ASSUME NEW w \in Threads, Execute(w) \/ SignalFence(w) \/ FinishJob(w)
      PROVE  [Pool!Next]_Pool!vars
  BY <1>4, BusyFinishes DEF Pool!Next
<1>5. ASSUME NEW w \in Threads, Exit(w) PROVE [Pool!Next]_Pool!vars
  BY <1>5, ExitAbandons DEF Pool!Next
<1>6. CASE UNCHANGED <<ring, phase>> /\ (UNCHANGED numThreads \/ KillThreads)
  BY <1>6, OthersClose DEF Pool!Next
<1>7. CASE ClientStep
  BY <1>1, <1>2, <1>6, <1>7
     DEF ClientStep, WaitFence, DropJob, WaitReturn, DropSignal, KillThreads, JoinThreads
<1>8. CASE \E w \in Threads : WorkerStep(w) \/ SpuriousWakeup(w)
  BY <1>3, <1>4, <1>5, <1>6, <1>8 DEF WorkerStep, Sleep, Leave, SpuriousWakeup
<1>9. CASE UNCHANGED vars
  BY <1>6, <1>9 DEF vars, ring
<1>. QED
  BY <1>7, <1>8, <1>9 DEF Next

(* A new queue is an empty pool. *)
LEMMA InitImplements == Init => Pool!Init
<1>. SUFFICES ASSUME Init PROVE Pool!Init
  OBVIOUS
<1>1. Places = {} /\ numThreads # 0
  BY ConstantsAssumption DEF Init, Places
<1>2. InRing = {} /\ RingOrder = {}
  BY <1>1 DEF InRing, RingOrder
<1>3. InHand = {} /\ Settled = {}
  BY DEF Init, InHand, Settled
<1>. QED
  BY <1>1, <1>2, <1>3 DEF Pool!Init

(* queue.c implements the FIFO pool, for any number of jobs, fences, threads
   and slots: growth, cleared slots, wrapping and the condition variable do not
   show, jobs start in the order of queue_add_job and at most once. *)
THEOREM QueueIsPool == Spec => ImplementsPool
<1>1. IInv /\ [Next]_vars => [Pool!Next]_Pool!vars
  BY StepImplements
<1>. QED
  BY IInvHolds, InitImplements, <1>1, PTL DEF Spec, ImplementsPool, Pool!Spec
=============================================================================
