----------------------------- MODULE OuterWorkers -----------------------------
(***************************************************************************)
(* The receiver of ata_volt_outer_thread.c as it is built with             *)
(* USE_WORKER_THREADS, from init and the creation of the workers on: the   *)
(* packet loop of OuterThread, where packets are pushed as jobs instead of *)
(* copied, the job queue of PacketJobs, and the flows of Flows, which      *)
(* decide whether packets arrive.                                          *)
(***************************************************************************)
EXTENDS OuterThread, PacketJobs, Flows

CONSTANT Alignments     \* whether the packet slots are aligned (IBVPKTSZ)

ASSUME AlignmentsAssumption == Alignments \subseteq BOOLEAN

\* A job copies a packet of an input block into an output block.
Jobs == [src : 0 .. n_block_in - 1, pkt : 1 .. npkts_per_block_in, dst : 0 .. n_block - 1]

ASSUME NoJobAssumption == NoJob \notin Jobs

VARIABLE stage      \* of the thread: "init", "start", "create", "run", "dest" or "failed"

allVars == <<vars, jobVars, flowVars, stage>>

AllInit == Init /\ JobsInit /\ FlowsInit /\ stage = "init"

------------------------------------------------------------------------------
\* Startup

\* init: misaligned packet slots are refused; the drops of an earlier run are
\* forgotten.
InitThread ==
    /\ stage = "init"
    /\ \E aligned \in Alignments : stage' = IF aligned THEN "start" ELSE "failed"
    /\ UNCHANGED <<vars, jobVars, flowVars>>

\* The beginning of run: without MAXFLOWS the thread gives up.
StartRun ==
    /\ stage = "start"
    /\ stage' = IF max_flows = 0 THEN "failed" ELSE "create"
    /\ UNCHANGED <<vars, jobVars, flowVars>>

\* The workers are created one after the other; they are at work at once.
CreateWorkers ==
    /\ stage = "create"
    /\ IF \E w \in Workers : wpc[w] = "unborn"
       THEN (\E w \in Workers : CreateWorker(w)) /\ UNCHANGED stage
       ELSE stage' = "run" /\ UNCHANGED jobVars
    /\ UNCHANGED <<vars, flowVars>>

CreateFails ==
    /\ stage = "create"
    /\ \E w \in Workers : wpc[w] = "unborn"
    /\ stage' = "failed"
    /\ UNCHANGED <<vars, jobVars, flowVars>>

------------------------------------------------------------------------------
\* The wait loop: a new second reads the status buffer, then looks at DESTIP.
\* Packets arrive only while there are flows.

Second ==
    /\ stage = "run" /\ ~asleep
    /\ NextSecond
    /\ ReadDest
    /\ stage' = "dest"
    /\ UNCHANGED jobVars

ChangeDest ==
    /\ stage = "dest"
    /\ UpdateDest
    /\ stage' = "run"
    /\ UNCHANGED <<vars, jobVars>>

Arrive == flows # {} /\ Fill /\ UNCHANGED <<jobVars, flowVars, stage>>

------------------------------------------------------------------------------
\* The packet loop

\* Where the thread waits for its jobs: before the first working block is
\* finalized or both are reset, and before the input block is freed.
NeedsJobsDone_OnlyAtEnd == opc = "packet" /\ i > npkts_per_block_in

NeedsJobsDone ==
    \/ opc = "manage" /\ \/ BlkNum(p_u8pkt) = wblk[1].num + 1
                         \/ Discontinuous(p_u8pkt)
    \/ opc = "packet" /\ i > npkts_per_block_in

BossSleeps ==
    /\ stage = "run"
    /\ NeedsJobsDone
    /\ WaitForJobs
    /\ UNCHANGED <<vars, flowVars, stage>>

\* What the thread does alone, after the wait if there is one.
BossStep ==
    /\ stage = "run"
    /\ NeedsJobsDone => JobsCompleted
    /\ \/ Leave \/ DropInput \/ TakeInput \/ EndInput \/ IgnorePacket \/ UpdateStatus
       \/ AdvanceBlocks \/ WaitForBlockFree \/ ResetBlocks \/ LatePacket
    /\ UNCHANGED <<jobVars, flowVars, stage>>

\* A packet of a working block is counted there whether or not its job finds a
\* place in the queue.
PushPacket ==
    LET k == BlkNum(p_u8pkt) - wblk[0].num IN
    /\ stage = "run"
    /\ opc \in {"manage", "store"}
    /\ k \in 0 .. 1
    /\ push_job([src |-> block_idx_in, pkt |-> i, dst |-> wblk[k].idx])
    /\ wblk' = [wblk EXCEPT ![k].pkts = pkts_per_block, ![k].pktidxs = pktidx_per_block,
                            ![k].npacket = @ + 1]
    /\ opc' = "packet"
    /\ i' = i + 1
    /\ UNCHANGED <<inRing, outRing, run_threads, status, block_idx_in, obs_valid, counts,
                   seconds, epoch, flowVars, stage>>

Boss == InitThread \/ StartRun \/ CreateWorkers \/ CreateFails \/ Second \/ ChangeDest
        \/ BossSleeps \/ BossStep \/ PushPacket

WorkerStep(w) == JobWorker(w, run_threads) /\ UNCHANGED <<vars, flowVars, stage>>

Neighbours == \/ Arrive
              \/ (Consume \/ StopThreads) /\ UNCHANGED <<jobVars, flowVars, stage>>
              \/ WriteDest /\ UNCHANGED <<vars, jobVars, stage>>
              \/ SpuriousWakeup /\ UNCHANGED <<vars, flowVars, stage>>

AllNext == Boss \/ (\E w \in Workers : WorkerStep(w)) \/ Neighbours

\* The boss and the workers are scheduled; the downstream thread keeps taking
\* blocks.  Wake-ups without a signal are not counted on.
AllSpec == /\ AllInit /\ [][AllNext]_allVars
           /\ WF_allVars(Boss)
           /\ \A w \in Workers : WF_allVars(WorkerStep(w))
           /\ WF_allVars(Consume /\ UNCHANGED <<jobVars, flowVars, stage>>)

------------------------------------------------------------------------------
\* A job that no worker has completed reads from an input block that has not
\* been given back to the packet thread, and writes to a working block that has
\* not been handed downstream: wait_for_job_completion is called wherever that
\* would change.
JobsWithinBlocks ==
    \A job \in OpenJobs :
      /\ inFilled[job.src] /\ job.src = block_idx_in
      /\ ~filled[job.dst] /\ \E k \in 0 .. 1 : wblk[k].idx = job.dst

\* While the threads are to run, a boss that sleeps in wait_for_job_completion
\* is woken with nothing left to do: no broadcast of push_job and no signal of
\* complete_job is missed.
WaitEnds == asleep ~> (JobsCompleted \/ ~run_threads)
==============================================================================
