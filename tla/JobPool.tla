------------------------------- MODULE JobPool -------------------------------
(***************************************************************************)
(* What the job queue of src/src/util/queue.c promises, without threads,   *)
(* ring buffer or condition variables: submitted jobs start in the order   *)
(* of their submission, each at most once, except those that are           *)
(* withdrawn before they start or abandoned when the pool is closed.       *)
(***************************************************************************)
CONSTANT Jobs

VARIABLES
  waiting,  \* the jobs that wait
  order,    \* the pairs <<j, k>> of them where j was submitted before k
  running,  \* the jobs that have been started and are not over
  over,     \* the jobs that are finished, withdrawn or abandoned
  closed    \* no more jobs are accepted or started

vars == <<waiting, order, running, over, closed>>

Init == waiting = {} /\ order = {} /\ running = {} /\ over = {} /\ closed = FALSE

Submit(j) ==
  /\ ~closed
  /\ j \notin waiting \cup running \cup over
  /\ waiting' = waiting \cup {j}
  /\ order' = order \cup (waiting \X {j})
  /\ UNCHANGED <<running, over, closed>>

(* Job j does not wait any longer; the others keep their order. *)
Take(j) ==
  /\ j \in waiting
  /\ waiting' = waiting \ {j}
  /\ order' = {p \in order : p[1] # j /\ p[2] # j}

Start(j) ==
  /\ ~closed
  /\ \A k \in waiting : <<k, j>> \notin order
  /\ Take(j)
  /\ running' = running \cup {j}
  /\ UNCHANGED <<over, closed>>

Finish(j) ==
  /\ j \in running
  /\ running' = running \ {j}
  /\ over' = over \cup {j}
  /\ UNCHANGED <<waiting, order, closed>>

Withdraw(j) ==
  /\ Take(j)
  /\ over' = over \cup {j}
  /\ UNCHANGED <<running, closed>>

Close ==
  /\ closed' = TRUE
  /\ UNCHANGED <<waiting, order, running, over>>

Abandon ==
  /\ closed
  /\ waiting' = {} /\ order' = {}
  /\ over' = over \cup waiting
  /\ UNCHANGED <<running, closed>>

Next ==
  \/ \E j \in Jobs : Submit(j) \/ Start(j) \/ Finish(j) \/ Withdraw(j)
  \/ Close \/ Abandon

Spec == Init /\ [][Next]_vars
=============================================================================
