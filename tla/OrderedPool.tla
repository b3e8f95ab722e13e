----------------------------- MODULE OrderedPool -----------------------------
(***************************************************************************)
(* What the buffer pool of full_custom/common.c promises its threads,      *)
(* without mutexes or counters: every buffer is empty, in the hands of     *)
(* exactly one thread, or queued with an order number and a length; a      *)
(* queued buffer comes out lowest order number first, with the order       *)
(* number and the length it was queued with.                               *)
(***************************************************************************)
EXTENDS Integers

CONSTANTS Threads,      \* the threads that share the pool
          Buffers,      \* the buffers
          Orders,       \* the order numbers a buffer may be queued with
          Lens,         \* the lengths
          NoThread      \* "no owner"

VARIABLES owner,        \* Buffers -> the thread that has it, or NoThread
          queue         \* the queued buffers, as records

vars == <<owner, queue>>

Queued == {m.buf : m \in queue}

Init == /\ owner = [b \in Buffers |-> NoThread]
        /\ queue = {}

\* fetchEmptyBuffer: an empty buffer becomes t's.
TakeEmpty(t) == \E b \in Buffers :
    /\ owner[b] = NoThread
    /\ b \notin Queued
    /\ owner' = [owner EXCEPT ![b] = t]
    /\ UNCHANGED queue

\* returnBuffer: t queues a buffer it has.
Publish(t) == \E b \in Buffers, o \in Orders, l \in Lens :
    /\ owner[b] = t
    /\ owner' = [owner EXCEPT ![b] = NoThread]
    /\ queue' = queue \cup {[buf |-> b, order |-> o, len |-> l]}

\* returnEmptyBuffer: t gives a buffer it has back, its content forgotten.
Release(t) == \E b \in Buffers :
    /\ owner[b] = t
    /\ owner' = [owner EXCEPT ![b] = NoThread]
    /\ UNCHANGED queue

\* fetchBuffer: the queued buffer of lowest order number becomes t's.
TakeLowest(t) == \E m \in queue :
    /\ \A n \in queue : m.order <= n.order
    /\ owner' = [owner EXCEPT ![m.buf] = t]
    /\ queue' = queue \ {m}

Next == \E t \in Threads :
    TakeEmpty(t) \/ Publish(t) \/ Release(t) \/ TakeLowest(t)

Spec == Init /\ [][Next]_vars
==============================================================================
