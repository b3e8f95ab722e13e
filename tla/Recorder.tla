------------------------------- MODULE Recorder -------------------------------
(***************************************************************************)
(* The full_custom recorder: the udp, worker and file threads over the two *)
(* pools, and the main thread of recorder.c that waits for SIGINT and      *)
(* joins them.  SIGINT is blocked in the three threads.                    *)
(***************************************************************************)
EXTENDS UdpThread, ProcessingThread, FileThread

CONSTANTS MaxInterrupts     \* bound: how often the operator sends SIGINT

ASSUME InterruptAssumption == MaxInterrupts \in Nat

VARIABLES mPc,              \* where the main thread is
          interrupts        \* SIGINTs the operator has sent

mainVars == <<mPc, interrupts>>

vars == <<sharedVars, udpThreadVars, workerVars, fileThreadVars, mainVars>>

Init == /\ SharedInit /\ UdpInit /\ WorkerInit /\ FileInit
        /\ mPc = "test"
        /\ interrupts = 0

MainOnly == UNCHANGED <<pools, header, died, uPc, currentBuffNo, uOrder, uReads, received,
                        workerVars, fileThreadVars>>

\* while (keep_going) pause(): the test and the wait are two steps.
MainTest ==
    /\ died = "no" /\ mPc = "test"
    /\ mPc' = IF keep_going THEN "pause" ELSE "join"
    /\ MainOnly /\ UNCHANGED <<keep_going, sigint, interrupts>>

MainSleep ==
    /\ died = "no" /\ mPc = "pause"
    /\ mPc' = "asleep"
    /\ MainOnly /\ UNCHANGED <<keep_going, sigint, interrupts>>

\* inthandler; pause returns if the main thread was in it.
Deliver ==
    /\ died = "no" /\ mPc # "end"
    /\ sigint
    /\ sigint' = FALSE
    /\ keep_going' = FALSE
    /\ mPc' = IF mPc = "asleep" THEN "test" ELSE mPc
    /\ MainOnly /\ UNCHANGED interrupts

Interrupt ==
    /\ died = "no" /\ mPc # "end"
    /\ interrupts < MaxInterrupts
    /\ interrupts' = interrupts + 1
    /\ sigint' = TRUE
    /\ MainOnly /\ UNCHANGED <<keep_going, mPc>>

\* pthread_join on the three threads, then the pools are destroyed.
MainJoin ==
    /\ died = "no" /\ mPc = "join"
    /\ uPc = "done" /\ fPc = "done" /\ wPc = "done"
    /\ mPc' = "end"
    /\ MainOnly /\ UNCHANGED <<keep_going, sigint, interrupts>>

\* The worker is inside returnBuffer on the block pool.
Publishing ==
    \/ wPc = "pass1" /\ ~NoneInPass(Full)
    \/ wPc = "pass2" /\ ~NoneInPass(Earlier)

UdpStep    == UdpNext /\ UNCHANGED <<workerVars, fileThreadVars, mainVars>>
WorkerStep == WorkerNext /\ UNCHANGED <<udpThreadVars, fileThreadVars, mainVars>>
FileStep   == FileNext(Publishing) /\ UNCHANGED <<udpThreadVars, workerVars, mainVars>>
MainStep   == MainTest \/ MainSleep \/ Deliver \/ MainJoin

Next == UdpStep \/ WorkerStep \/ FileStep \/ MainStep \/ Interrupt

Spec == Init /\ [][Next]_vars

\* Every thread keeps running: the main thread accepts a pending signal, and
\* recvfrom returns, if only by its timeout.  Nobody has to send SIGINT.
Fairness == /\ WF_vars(UdpStep) /\ WF_vars(WorkerStep) /\ WF_vars(FileStep)
            /\ WF_vars(MainStep)

FairSpec == Spec /\ Fairness

------------------------------------------------------------------------------
\* Properties

\* "data integrity!" (common.c:110, common.c:123) is never reported.
IntegrityHolds == died # "integrity"

\* The block pool's buffers in use are exactly the worker's window and the
\* block the file thread has, and the two have none in common; likewise the
\* datagram buffers of the udp thread and of the worker.  The pools never report
\* broken data integrity.
WorkerHas == IF wPc \in {"start", "done"} THEN {} ELSE {localStruct[i].index : i \in Unsent}
FileHas   == IF fPc = "have" THEN {fIn} ELSE {}
UdpHas    == IF uPc \in {"recv", "zero", "return"} THEN {currentBuffNo} ELSE {}
SorterHas == IF wPc = "sort" THEN {indexIn} ELSE {}

NoSharing ==
    /\ IntegrityHolds
    /\ died = "no" =>
      /\ {b \in FileBuffers : fileOrder[b] = InUse} = WorkerHas \cup FileHas
      /\ WorkerHas \cap FileHas = {}
      /\ {b \in UdpBuffers : udpOrder[b] = InUse} = UdpHas \cup SorterHas
      /\ UdpHas \cap SorterHas = {}

\* What ends up on disk: in the first file, block k begins at packet number
\* packetStart + (k - 1) * TIME_INT_PER_BUFFER of the header, and each of its
\* packets is in the cell its header asks for, or the cell is zero.
FirstFileIsRecording ==
    files # <<>> =>
      \A k \in DOMAIN files[1].blocks : \A c \in Cells :
        LET p == files[1].blocks[k].cells[c] IN
        p # NoData =>
          /\ GET_PACKET_FILTER(p.pckt) = BlockStart(files[1].packetStart, k)
          /\ c = Offset(GET_PACKET_REST(p.pckt), getAntIndex(files[1].ants, p.ant), p.chan)

\* Once the run flag is cleared the three threads end, unless the process
\* died or the file thread hangs in anyBufFull.
ThreadsEnd ==
    ~keep_going ~> \/ died # "no"
                   \/ uPc = "done" /\ wPc = "done" /\ fPc \in {"done", "hung"}

\* A main thread that sees the cleared flag, or is woken by a further SIGINT
\* when the flag was cleared behind its back (between its test and pause(), or
\* by the udp thread), joins the others and ends the process.
MainEnds ==
    (~keep_going /\ (mPc \in {"test", "join"} \/ (mPc = "asleep" /\ sigint)))
        ~> (died # "no" \/ mPc = "end" \/ fPc = "hung")

\* Silence on the network ends the recording: recvfrom times out, and the
\* SIGINT it raises clears the flag even while the main thread is not waiting.
RecordingEnds == <>(died # "no" \/ ~keep_going)
==============================================================================
