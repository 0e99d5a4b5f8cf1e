------------------------------ MODULE JobQueue ------------------------------
(***************************************************************************)
(* The worker-thread job queue of src/src/util/queue.c.                    *)
(*                                                                         *)
(* The compositor's main thread submits jobs (icon loading, key-map        *)
(* compilation, screenshot encoding) that a fixed set of workers executes. *)
(* Jobs sit in a ring buffer that grows when it is full.  A fence tells    *)
(* the main thread that a job is over.                                     *)
(*                                                                         *)
(* A step is one critical section of queue->lock, one fence operation, or  *)
(* one callback of a job.  Mutexes are not modelled as variables: what     *)
(* runs under queue->lock is one action.  has_space_cond is signalled by   *)
(* the code but nobody ever waits for it, so it has no counterpart here.   *)
(***************************************************************************)
EXTENDS Integers

CONSTANTS
  Jobs,        \* the jobs the main thread may submit, each at most once
  Fences,      \* the fences of the main thread
  FenceOf,     \* FenceOf[j]: the fence passed with job j, or NoFence
  NoFence,     \* NULL fence
  NoJob,       \* an empty slot (job == NULL)
  MaxThreads,  \* the number of threads queue_create is asked for
  InitMaxJobs, \* max_jobs passed to queue_create
  Growth       \* slots added when the ring is full (8 in the code)

ASSUME ConstantsAssumption ==
  /\ MaxThreads \in Nat \ {0}
  /\ InitMaxJobs \in Nat \ {0}
  /\ Growth \in Nat \ {0}
  /\ NoJob \notin Jobs
  /\ NoFence \notin Fences
  /\ FenceOf \in [Jobs -> Fences \cup {NoFence}]

VARIABLES
  slots,       \* queue->jobs: index -> job or NoJob
  maxJobs,     \* queue->max_jobs
  numQueued,   \* queue->num_queued
  readIdx,     \* queue->read_idx
  writeIdx,    \* queue->write_idx
  numThreads,  \* queue->num_threads; 0 tells the workers to exit
  wpc,         \* worker -> where it is in queue_thread_func
  wjob,        \* worker -> the job it took, or NoJob
  signalled,   \* fence -> fence->signalled
  client,      \* where the main thread is: [pc, fence]
  phase        \* history: job -> what has happened to it

ring == <<slots, maxJobs, numQueued, readIdx, writeIdx>>
vars == <<slots, maxJobs, numQueued, readIdx, writeIdx, numThreads, wpc, wjob,
          signalled, client, phase>>

Threads == 0..(MaxThreads - 1)

WorkerPcs == {"absent",   \* pthread_create failed for it
              "ready",    \* about to take queue->lock
              "asleep",   \* in pthread_cond_wait(has_queued_cond)
              "busy",     \* runs the callbacks of wjob, without the lock
              "leaving",  \* left the loop, before the final critical section
              "exited"}

ClientPcs == {"idle",     \* in the event loop
              "scan",     \* queue_drop_job read an unsignalled fence
              "signal",   \* queue_drop_job removed the job
              "wait",     \* queue_fence_wait
              "join",     \* queue_kill_threads joins the workers
              "finished"} \* queue_destroy has returned

Phases == {"new", "queued", "running",
           "executed",    \* execute returned, the fence is still to be signalled
           "released",    \* the fence is signalled, cleanup is still to run
           "done", "dropped", "discarded"}

Idle == [pc |-> "idle", fence |-> NoFence]

(* Mutant: the index is not wrapped around. *)
NextIdx_NoWrap(i) == i + 1

(* (i + 1) % queue->max_jobs *)
NextIdx(i) == (i + 1) % maxJobs

(* The indices a loop from read_idx visits before it meets write_idx: none
   when the two are equal, be the ring empty or full. *)
Scanned ==
  IF readIdx <= writeIdx
  THEN readIdx..(writeIdx - 1)
  ELSE (readIdx..(maxJobs - 1)) \cup (0..(writeIdx - 1))

(* queue_create: at least one thread could be started, maybe not all. *)
Init ==
  /\ slots = [i \in 0..(InitMaxJobs - 1) |-> NoJob]
  /\ maxJobs = InitMaxJobs
  /\ numQueued = 0
  /\ readIdx = 0
  /\ writeIdx = 0
  /\ numThreads \in 1..MaxThreads
  /\ wpc = [w \in Threads |-> IF w < numThreads THEN "ready" ELSE "absent"]
  /\ wjob = [w \in Threads |-> NoJob]
  /\ signalled = [f \in Fences |-> TRUE]
  /\ client = Idle
  /\ phase = [j \in Jobs |-> "new"]

-----------------------------------------------------------------------------
(* The main thread.                                                        *)

(* Mutant: the signal is forgotten. *)
WakeOne_Forgotten == UNCHANGED wpc

(* pthread_cond_signal(has_queued_cond): wakes one sleeper if there is one. *)
WakeOne ==
  IF \E w \in Threads : wpc[w] = "asleep"
  THEN \E w \in Threads : wpc[w] = "asleep" /\ wpc' = [wpc EXCEPT ![w] = "ready"]
  ELSE UNCHANGED wpc

(* Mutant: the old array is copied from index 0, not from read_idx. *)
Grown_FromZero ==
  [i \in 0..(maxJobs + Growth - 1) |-> IF i < maxJobs THEN slots[i] ELSE NoJob]

(* The slots after the do-while copy of a full ring into a larger one. *)
Grown ==
  [i \in 0..(maxJobs + Growth - 1) |->
     IF i < maxJobs THEN slots[(readIdx + i) % maxJobs] ELSE NoJob]

(* Mutant: the grown ring keeps the old read_idx. *)
Enqueue_KeepsReadIdx(j) ==
  IF numQueued = maxJobs
  THEN /\ slots' = [Grown EXCEPT ![maxJobs] = j]
       /\ maxJobs' = maxJobs + Growth
       /\ writeIdx' = (maxJobs + 1) % (maxJobs + Growth)
       /\ UNCHANGED readIdx
  ELSE /\ slots' = [slots EXCEPT ![writeIdx] = j]
       /\ writeIdx' = NextIdx(writeIdx)
       /\ UNCHANGED <<maxJobs, readIdx>>

(* The job is stored at write_idx, in the ring or in its grown copy. *)
Enqueue(j) ==
  IF numQueued = maxJobs
  THEN /\ slots' = [Grown EXCEPT ![maxJobs] = j]
       /\ maxJobs' = maxJobs + Growth
       /\ readIdx' = 0
       /\ writeIdx' = (maxJobs + 1) % (maxJobs + Growth)
  ELSE /\ slots' = [slots EXCEPT ![writeIdx] = j]
       /\ writeIdx' = NextIdx(writeIdx)
       /\ UNCHANGED <<maxJobs, readIdx>>

(* Mutant: the fence keeps the value of its previous job. *)
FenceReset_Forgotten(j) == signalled

(* queue_fence_reset(fence), if there is a fence. *)
FenceReset(j) == [f \in Fences |-> f # FenceOf[j] /\ signalled[f]]

(* queue_add_job.  The callers pass no fence or one that is signalled: a new
   one, or one they have just waited for (set_icon_theme). *)
AddJob(j) ==
  /\ client = Idle
  /\ numThreads > 0
  /\ phase[j] = "new"
  /\ FenceOf[j] # NoFence => signalled[FenceOf[j]]
  /\ signalled' = FenceReset(j)
  /\ Enqueue(j)
  /\ numQueued' = numQueued + 1
  /\ WakeOne
  /\ phase' = [phase EXCEPT ![j] = "queued"]
  /\ UNCHANGED <<numThreads, wjob, client>>

(* queue_fence_wait: returns at once, or blocks until the fence is signalled. *)
WaitFence(f) ==
  /\ client = Idle
  /\ ~signalled[f]
  /\ client' = [pc |-> "wait", fence |-> f]
  /\ UNCHANGED <<ring, numThreads, wpc, wjob, signalled, phase>>

WaitReturn ==
  /\ client.pc = "wait"
  /\ signalled[client.fence]
  /\ client' = Idle
  /\ UNCHANGED <<ring, numThreads, wpc, wjob, signalled, phase>>

(* queue_drop_job, its first lines: the fence is read without the lock. *)
DropJob(f) ==
  /\ client = Idle
  /\ ~signalled[f]
  /\ client' = [pc |-> "scan", fence |-> f]
  /\ UNCHANGED <<ring, numThreads, wpc, wjob, signalled, phase>>

(* queue_drop_job under the lock: the first visited slot with this fence is
   cleaned up and cleared; without one the caller waits for the fence. *)
DropScan ==
  /\ client.pc = "scan"
  /\ LET hits == {i \in Scanned : slots[i] # NoJob /\ FenceOf[slots[i]] = client.fence}
     IN \/ \E i \in hits :
             /\ slots' = [slots EXCEPT ![i] = NoJob]
             /\ phase' = [phase EXCEPT ![slots[i]] = "dropped"]
             /\ client' = [client EXCEPT !.pc = "signal"]
        \/ /\ hits = {}
           /\ client' = [client EXCEPT !.pc = "wait"]
           /\ UNCHANGED <<slots, phase>>
  /\ UNCHANGED <<maxJobs, numQueued, readIdx, writeIdx, numThreads, wpc, wjob, signalled>>

DropSignal ==
  /\ client.pc = "signal"
  /\ signalled' = [signalled EXCEPT ![client.fence] = TRUE]
  /\ client' = Idle
  /\ UNCHANGED <<ring, numThreads, wpc, wjob, phase>>

(* Mutant: the sleeping workers are not told. *)
WakeAll_Forgotten == wpc

(* pthread_cond_broadcast(has_queued_cond). *)
WakeAll == [w \in Threads |-> IF wpc[w] = "asleep" THEN "ready" ELSE wpc[w]]

(* queue_kill_threads: num_threads = 0 and broadcast; then the joins. *)
KillThreads ==
  /\ client = Idle
  /\ numThreads > 0
  /\ numThreads' = 0
  /\ wpc' = WakeAll
  /\ client' = [client EXCEPT !.pc = "join"]
  /\ UNCHANGED <<ring, wjob, signalled, phase>>

JoinThreads ==
  /\ client.pc = "join"
  /\ \A w \in Threads : wpc[w] \in {"absent", "exited"}
  /\ client' = [client EXCEPT !.pc = "finished"]
  /\ UNCHANGED <<ring, numThreads, wpc, wjob, signalled, phase>>

-----------------------------------------------------------------------------
(* A worker: queue_thread_func.                                            *)

(* The condition-variable loop: the queue is empty, the worker sleeps. *)
Sleep(w) ==
  /\ wpc[w] = "ready"
  /\ w < numThreads
  /\ numQueued = 0
  /\ wpc' = [wpc EXCEPT ![w] = "asleep"]
  /\ UNCHANGED <<ring, numThreads, wjob, signalled, client, phase>>

(* A condition variable may wake a thread without a signal. *)
SpuriousWakeup(w) ==
  /\ wpc[w] = "asleep"
  /\ wpc' = [wpc EXCEPT ![w] = "ready"]
  /\ UNCHANGED <<ring, numThreads, wjob, signalled, client, phase>>

(* Mutant: the slot is not cleared. *)
PopSlot_NotCleared ==
  numQueued' = numQueued - 1 /\ readIdx' = NextIdx(readIdx) /\ UNCHANGED slots

(* The slot at read_idx is cleared and the index moves on. *)
PopSlot ==
  /\ slots' = [slots EXCEPT ![readIdx] = NoJob]
  /\ readIdx' = NextIdx(readIdx)
  /\ numQueued' = numQueued - 1

(* Takes the slot at read_idx; a slot queue_drop_job cleared is a no-op job. *)
PopJob(w) ==
  /\ wpc[w] = "ready"
  /\ w < numThreads
  /\ numQueued > 0
  /\ LET j == slots[readIdx]
     IN IF j = NoJob
        THEN UNCHANGED <<wpc, wjob, phase>>
        ELSE /\ wpc' = [wpc EXCEPT ![w] = "busy"]
             /\ wjob' = [wjob EXCEPT ![w] = j]
             /\ phase' = [phase EXCEPT ![j] = "running"]
  /\ PopSlot
  /\ UNCHANGED <<maxJobs, writeIdx, numThreads, signalled, client>>

(* job.execute returns. *)
Execute(w) ==
  /\ wpc[w] = "busy"
  /\ phase[wjob[w]] = "running"
  /\ phase' = [phase EXCEPT ![wjob[w]] = "executed"]
  /\ UNCHANGED <<ring, numThreads, wpc, wjob, signalled, client>>

(* Mutant: the job's fence stays unsignalled. *)
FenceSignal_Forgotten(j) == signalled

(* queue_fence_signal(job.fence), if there is a fence. *)
FenceSignal(j) == [f \in Fences |-> f = FenceOf[j] \/ signalled[f]]

(* queue_fence_signal, after execute and before cleanup. *)
SignalFence(w) ==
  /\ wpc[w] = "busy"
  /\ phase[wjob[w]] = "executed"
  /\ signalled' = FenceSignal(wjob[w])
  /\ phase' = [phase EXCEPT ![wjob[w]] = "released"]
  /\ UNCHANGED <<ring, numThreads, wpc, wjob, client>>

(* job.cleanup if there is one, and back to the top of the loop. *)
FinishJob(w) ==
  /\ wpc[w] = "busy"
  /\ phase[wjob[w]] = "released"
  /\ phase' = [phase EXCEPT ![wjob[w]] = "done"]
  /\ wpc' = [wpc EXCEPT ![w] = "ready"]
  /\ wjob' = [wjob EXCEPT ![w] = NoJob]
  /\ UNCHANGED <<ring, numThreads, signalled, client>>

(* thread_index >= num_threads: the worker leaves its loop. *)
Leave(w) ==
  /\ wpc[w] = "ready"
  /\ w >= numThreads
  /\ wpc' = [wpc EXCEPT ![w] = "leaving"]
  /\ UNCHANGED <<ring, numThreads, wjob, signalled, client, phase>>

(* The final critical section: the jobs of the visited slots are discarded
   and their fences signalled, then the ring is declared empty. *)
Exit(w) ==
  /\ wpc[w] = "leaving"
  /\ wpc' = [wpc EXCEPT ![w] = "exited"]
  /\ LET discarded == {slots[i] : i \in Scanned} \ {NoJob}
     IN /\ phase' = [j \in Jobs |-> IF j \in discarded THEN "discarded" ELSE phase[j]]
        /\ signalled' = [f \in Fences |->
                           signalled[f] \/ \E j \in discarded : FenceOf[j] = f]
  /\ slots' = [i \in 0..(maxJobs - 1) |-> IF i \in Scanned THEN NoJob ELSE slots[i]]
  /\ readIdx' = writeIdx
  /\ numQueued' = 0
  /\ UNCHANGED <<maxJobs, writeIdx, numThreads, wjob, client>>

-----------------------------------------------------------------------------
ClientStep ==
  \/ \E j \in Jobs : AddJob(j)
  \/ \E f \in Fences : WaitFence(f) \/ DropJob(f)
  \/ WaitReturn \/ DropScan \/ DropSignal \/ KillThreads \/ JoinThreads

WorkerStep(w) ==
  \/ Sleep(w) \/ PopJob(w) \/ Execute(w) \/ SignalFence(w) \/ FinishJob(w)
  \/ Leave(w) \/ Exit(w)

Next ==
  \/ ClientStep
  \/ \E w \in Threads : WorkerStep(w) \/ SpuriousWakeup(w)

Spec == Init /\ [][Next]_vars

(* The kernel runs every runnable worker; the main thread finishes an
   operation it has begun, and no rule makes it begin one. *)
Fairness ==
  /\ \A w \in Threads : WF_vars(WorkerStep(w))
  /\ WF_vars(WaitReturn) /\ WF_vars(DropScan) /\ WF_vars(DropSignal)
  /\ WF_vars(JoinThreads)

FairSpec == Spec /\ Fairness
-----------------------------------------------------------------------------
(* Properties.                                                             *)

TypeOK ==
  /\ maxJobs \in Nat \ {0}
  /\ slots \in [0..(maxJobs - 1) -> Jobs \cup {NoJob}]
  /\ numQueued \in 0..maxJobs
  /\ readIdx \in 0..(maxJobs - 1)
  /\ writeIdx \in 0..(maxJobs - 1)
  /\ numThreads \in 0..MaxThreads
  /\ wpc \in [Threads -> WorkerPcs]
  /\ wjob \in [Threads -> Jobs \cup {NoJob}]
  /\ signalled \in [Fences -> BOOLEAN]
  /\ client \in [pc : ClientPcs, fence : Fences \cup {NoFence}]
  /\ phase \in [Jobs -> Phases]

(* Slot i lies between read_idx and read_idx + num_queued, around the end. *)
Live(i) ==
  IF readIdx + numQueued <= maxJobs
  THEN readIdx <= i /\ i < readIdx + numQueued
  ELSE readIdx <= i \/ i < readIdx + numQueued - maxJobs

(* The two indices and the counter of the ring agree, and until the shutdown
   every slot outside the window they delimit is empty.  This is what makes
   the assertions of queue_add_job hold (the slot written is empty, a grown
   ring has copied exactly num_queued jobs) however adds, pops, drops and
   growths interleave. *)
RingConsistent ==
  /\ writeIdx = (IF readIdx + numQueued < maxJobs
                 THEN readIdx + numQueued
                 ELSE readIdx + numQueued - maxJobs)
  /\ numThreads > 0 => \A i \in 0..(maxJobs - 1) : slots[i] # NoJob => Live(i)

(* A job is in one place only: one slot of the ring, or the hands of one
   worker.  So no two workers execute the same job, and queue_drop_job never
   cleans up a job that a worker runs. *)
OneOwner ==
  /\ \A i, k \in 0..(maxJobs - 1) : slots[i] # NoJob /\ slots[i] = slots[k] => i = k
  /\ \A i \in 0..(maxJobs - 1) : slots[i] # NoJob => phase[slots[i]] = "queued"
  /\ \A w \in Threads : wpc[w] = "busy" =>
       /\ wjob[w] # NoJob
       /\ phase[wjob[w]] \in {"running", "executed", "released"}
  /\ \A v, w \in Threads : wpc[v] = "busy" /\ wpc[w] = "busy" /\ wjob[v] = wjob[w]
                             => v = w

(* A signalled fence means that its job is not waiting in the ring and not
   being executed: what queue_fence_wait promises to set_icon_theme, get_icon
   and the key-map code, which touch the job's data as soon as it returns. *)
FenceSettlesJob ==
  \A j \in Jobs : FenceOf[j] # NoFence /\ signalled[FenceOf[j]]
                    => phase[j] \notin {"queued", "running", "executed"}

JobStep(j) ==
  /\ phase[j] \in {"done", "dropped", "discarded"} => phase'[j] = phase[j]
  /\ phase[j] \in {"running", "executed", "released"} =>
       phase'[j] \in {"running", "executed", "released", "done"}

(* A step never brings back a job that is over (run, dropped by
   queue_drop_job, or discarded by an exiting worker), and never takes a job
   from a worker back into the queue. *)
NoResurrection == [][\A j \in Jobs : JobStep(j)]_vars

(* No wakeup is lost: a submitted job leaves the ring, taken by a worker or
   removed by a drop, unless queue_kill_threads stops the workers first. *)
QueuedJobLeaves ==
  \A j \in Jobs : phase[j] = "queued" ~> (phase[j] # "queued" \/ numThreads = 0)

(* queue_fence_wait returns: the main thread, which waits inside an event
   handler, is never blocked for good while the queue is alive. *)
WaitReturns == client.pc = "wait" /\ numThreads > 0 ~> client.pc = "idle"

(* queue_destroy returns: every worker notices num_threads = 0, whatever it
   was doing, and is joined. *)
DestroyReturns == client.pc = "join" ~> client.pc = "finished"

(* Nobody is stuck: neither a job in the ring nor the main thread in a wait or
   in the destruction of the queue. *)
NobodyStuck == QueuedJobLeaves /\ WaitReturns /\ DestroyReturns

(* queue_fence_finish asserts fence->signalled; the managers call it when the
   server is destroyed, after queue_destroy. *)
FencesFinishable == client.pc = "finished" => \A f \in Fences : signalled[f]
-----------------------------------------------------------------------------
(* The queue as a pool of jobs.                                            *)

(* The content of the slot n places after read_idx, around the end. *)
At(n) == slots[(readIdx + n) % maxJobs]

Places == 0..(numQueued - 1)

(* The jobs in the ring; cleared slots do not count. *)
InRing == {At(n) : n \in Places} \ {NoJob}

Ahead(j, k) == \E m, n \in Places : m < n /\ At(m) = j /\ At(n) = k

RingOrder == {p \in InRing \X InRing : Ahead(p[1], p[2])}

InHand == {j \in Jobs : phase[j] \in {"running", "executed", "released"}}

Settled == {j \in Jobs : phase[j] # "new"} \ (InHand \cup InRing)

Pool == INSTANCE JobPool WITH
  waiting <- InRing,
  order   <- RingOrder,
  running <- InHand,
  over    <- Settled,
  closed  <- (numThreads = 0)

(* The ring buffer, its growth, its cleared slots and its condition variable
   together behave like the plain FIFO pool: queue_add_job appends, workers
   start jobs in that order, queue_drop_job removes a waiting job. *)
ImplementsPool == Pool!Spec
=============================================================================
