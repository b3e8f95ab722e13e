------------------------------- MODULE PoolOps -------------------------------
(***************************************************************************)
(* The pure scans of full_custom/common.c over the orderNo array of a      *)
(* buffer pool (udpBuffStruct).  orderNo[b] is a buffer's whole state:     *)
(*    0    the buffer is empty,                                            *)
(*   -1    a thread is using it,                                           *)
(*   k>0   it holds data published with order number k.                    *)
(* The loops of the source keep the first index that qualifies; here that  *)
(* index is named by the condition that singles it out.                    *)
(***************************************************************************)
EXTENDS Integers

Empty == 0
InUse == -1
NotFound == -1

EmptyBuffers(no) == {b \in DOMAIN no : no[b] = Empty}

\* findLowest starts from lowVal = INT_MAX and asks for a strictly smaller
\* order number, so an order number of INT_MAX or more is never found.
ReadyBelow(no, intMax) == {b \in DOMAIN no : no[b] > 0 /\ no[b] < intMax}

findEmpty_FirstUsable(no) ==
    LET S == {b \in DOMAIN no : no[b] <= 0}
    IN  IF S = {} THEN NotFound ELSE CHOOSE b \in S : \A c \in S : b <= c

\* The empty buffer with the lowest index, or -1.
findEmpty(no) ==
    LET S == EmptyBuffers(no)
    IN  IF S = {} THEN NotFound ELSE CHOOSE b \in S : \A c \in S : b <= c

findLowest_First(no, intMax) ==
    LET S == ReadyBelow(no, intMax)
    IN  IF S = {} THEN NotFound ELSE CHOOSE b \in S : \A c \in S : b <= c

\* The ready buffer with the lowest order number, the lowest index among
\* equals, or -1.
findLowest(no, intMax) ==
    LET S == ReadyBelow(no, intMax)
    IN  IF S = {}
        THEN NotFound
        ELSE CHOOSE b \in S :
               \A c \in S : no[b] < no[c] \/ (no[b] = no[c] /\ b <= c)

\* The loop of findLowest as the source has it: a turn, which keeps the lowest
\* number met and its index, and what is returned after buffLen turns.
\* (PoolOpsTheorems!FindLowestLoop: it returns findLowest.)
LowestTurn(no, b, st) ==
    IF no[b] < st.lowVal /\ no[b] > 0 THEN [lowVal |-> no[b], retVal |-> b] ELSE st
findLowestLoop(no, buffLen, intMax) ==
    LET st[k \in 0 .. buffLen] ==
          IF k = 0 THEN [lowVal |-> intMax, retVal |-> NotFound]
                   ELSE LowestTurn(no, k - 1, st[k - 1])
    IN  st[buffLen].retVal
==============================================================================
