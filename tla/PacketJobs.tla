------------------------------ MODULE PacketJobs ------------------------------
(***************************************************************************)
(* The job queue of ata_volt_outer_thread.c, built with                    *)
(* USE_WORKER_THREADS: the thread that owns the packet loop (the "boss")   *)
(* pushes one job per packet, the workers pop and complete them, and the   *)
(* boss waits until none is pending.                                       *)
(*                                                                         *)
(* Every function holds the mutex from end to end except while it sleeps   *)
(* on a condition variable, so each stretch under the mutex is one step.   *)
(* A sleeper wakes when it is signalled, or for no reason, as POSIX allows.*)
(***************************************************************************)
EXTENDS Integers, FiniteSets

CONSTANTS
    Workers,            \* the worker threads
    PJQ_NUM_ENTRIES,    \* entries of the ring
    NoJob               \* a my_job that holds no job

ASSUME JobsAssumption == /\ IsFiniteSet(Workers)
                         /\ PJQ_NUM_ENTRIES \in Nat \ {0}

Entries == 0 .. PJQ_NUM_ENTRIES - 1

VARIABLES
    pjq,        \* the fields of struct packet_job_queue that the mutex guards
    asleep,     \* the boss sleeps on cond_pending
    wpc,        \* where each worker is; "asleep" is on cond_queued
    my_job      \* the job each worker has popped and not completed

jobVars == <<pjq, asleep, wpc, my_job>>

JobsInit ==
    /\ pjq = [idxnew |-> 0, idxold |-> 0, num_queued |-> 0, num_pending |-> 0,
              jobs |-> [e \in Entries |-> NoJob]]
    /\ asleep = FALSE
    /\ wpc = [w \in Workers |-> "unborn"]
    /\ my_job = [w \in Workers |-> NoJob]

------------------------------------------------------------------------------
\* The boss

next_idx(idx) == (idx + 1) % PJQ_NUM_ENTRIES

QueueFull_Never == FALSE
QueueFull == next_idx(pjq.idxnew) = pjq.idxold

Woken_None == wpc
Woken == [w \in Workers |-> IF wpc[w] = "asleep" THEN "pop" ELSE wpc[w]]

\* A full queue refuses the job; else all sleeping workers are woken.
push_job(job) ==
    IF QueueFull
    THEN UNCHANGED jobVars
    ELSE /\ pjq' = [pjq EXCEPT !.jobs[pjq.idxnew] = job,
                               !.idxnew = next_idx(@),
                               !.num_queued = @ + 1,
                               !.num_pending = @ + 1]
         /\ wpc' = Woken
         /\ UNCHANGED <<asleep, my_job>>

\* wait_for_job_completion: going to sleep, and having found nothing pending.
WaitForJobs ==
    /\ ~asleep /\ pjq.num_pending # 0
    /\ asleep' = TRUE
    /\ UNCHANGED <<pjq, wpc, my_job>>

JobsCompleted == ~asleep /\ pjq.num_pending = 0

BossWakes ==
    /\ asleep
    /\ asleep' = FALSE
    /\ UNCHANGED <<pjq, wpc, my_job>>

CreateWorker(w) ==
    /\ wpc[w] = "unborn"
    /\ wpc' = [wpc EXCEPT ![w] = "test"]
    /\ UNCHANGED <<pjq, asleep, my_job>>

------------------------------------------------------------------------------
\* The workers

\* The condition of packet_job_function's loop: the only place where a worker
\* looks at run_threads.
WorkerTest(w, running) ==
    /\ wpc[w] = "test"
    /\ wpc' = [wpc EXCEPT ![w] = IF running THEN "pop" ELSE "done"]
    /\ UNCHANGED <<pjq, asleep, my_job>>

PopWait(w) ==
    /\ wpc[w] = "pop" /\ pjq.num_queued = 0
    /\ wpc' = [wpc EXCEPT ![w] = "asleep"]
    /\ UNCHANGED <<pjq, asleep, my_job>>

WorkerWakes(w) ==
    /\ wpc[w] = "asleep"
    /\ wpc' = [wpc EXCEPT ![w] = "pop"]
    /\ UNCHANGED <<pjq, asleep, my_job>>

PopJob(w) ==
    /\ wpc[w] = "pop" /\ pjq.num_queued # 0
    /\ my_job' = [my_job EXCEPT ![w] = pjq.jobs[pjq.idxold]]
    /\ pjq' = [pjq EXCEPT !.idxold = next_idx(@), !.num_queued = @ - 1]
    /\ wpc' = [wpc EXCEPT ![w] = "complete"]
    /\ UNCHANGED asleep

\* The job itself is compiled out: a worker only reports it done.  The last
\* one signals the boss.
complete_job(w) ==
    LET left == IF pjq.num_pending # 0 THEN pjq.num_pending - 1 ELSE 0 IN
    /\ wpc[w] = "complete"
    /\ pjq' = [pjq EXCEPT !.num_pending = left]
    /\ asleep' = (asleep /\ left # 0)
    /\ my_job' = [my_job EXCEPT ![w] = NoJob]
    /\ wpc' = [wpc EXCEPT ![w] = "test"]

JobWorker(w, running) == WorkerTest(w, running) \/ PopWait(w) \/ PopJob(w) \/ complete_job(w)
SpuriousWakeup == BossWakes \/ \E w \in Workers : WorkerWakes(w)

------------------------------------------------------------------------------
Popped == {w \in Workers : my_job[w] # NoJob}
QueuedEntries == {(pjq.idxold + k) % PJQ_NUM_ENTRIES : k \in 0 .. pjq.num_queued - 1}

\* The jobs nobody has completed yet.
OpenJobs == {pjq.jobs[e] : e \in QueuedEntries} \cup {my_job[w] : w \in Popped}

\* The two counters of push_job, pop_job and complete_job agree with the ring
\* and with the workers: the ring's indices are num_queued apart, no queued
\* entry is overwritten, and num_pending counts the queued jobs and the popped
\* ones, so that zero really means that no worker is at a job.
JobsCounted ==
    /\ pjq.idxnew = (pjq.idxold + pjq.num_queued) % PJQ_NUM_ENTRIES
    /\ pjq.num_queued < PJQ_NUM_ENTRIES
    /\ pjq.num_pending = pjq.num_queued + Cardinality(Popped)
==============================================================================
