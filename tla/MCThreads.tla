------------------------------ MODULE MCThreads ------------------------------
(***************************************************************************)
(* Either of the two threads that share the block pool, alone with its     *)
(* neighbours reduced to what they do to the pools: the worker as in       *)
(* Worker, the file thread as in Writer.  A behaviour of this module is a  *)
(* behaviour of one of the two.                                            *)
(***************************************************************************)
EXTENDS Writer, MCWorker

VARIABLE alone      \* which of the two

onlyWorker == <<workerVars, nFed, fed>>
onlyWriter == <<fileThreadVars, published, filling>>

\* What may be on the stack where lastSentPacketNo is.
MCGarbage == {0, 4}

MCInit ==
    /\ Init /\ SortingInit
    /\ alone \in {"worker", "file"}
    /\ alone = "file" => lastSentPacketNo = 0

MCNext ==
    /\ \/ alone = "worker" /\ SortingNext /\ UNCHANGED onlyWriter
       \/ alone = "file" /\ Next /\ UNCHANGED onlyWorker
    /\ UNCHANGED alone

MCSpec == MCInit /\ [][MCNext]_<<alone, sharedVars, onlyWorker, onlyWriter>>
==============================================================================
