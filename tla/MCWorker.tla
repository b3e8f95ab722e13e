------------------------------- MODULE MCWorker -------------------------------
\* What the worker is fed with on small instances: blocks FirstBlock and the
\* ones after it, whole and in pieces.
EXTENDS Worker

CONSTANT FirstBlock

Packet(n, a) == [pckt |-> n % PCKT_NO_RANGE, ant |-> a, chan |-> 0, volt |-> TRUE]

\* Packets lo .. hi of the k-th block from FirstBlock on, of one antenna or of
\* both.
PieceOf(k, a, lo, hi) ==
    [j \in 1 .. hi - lo + 1 |->
        Packet((FirstBlock + k) * TIME_INT_PER_BUFFER + lo + j - 1, a)]
Piece(k, lo, hi) == PieceOf(k, 5, lo, hi) \o PieceOf(k, 6, lo, hi)

\* A whole block, the last packets, all of it but the last packets, or one
\* antenna's share.
Whole(k)         == Piece(k, 0, TIME_INT_PER_BUFFER - 1)
FinalPackets(k)  == Piece(k, TIME_INT_PER_BUFFER - 1, TIME_INT_PER_BUFFER - 1)
AllButFinal(k)   == Piece(k, 0, TIME_INT_PER_BUFFER - 2)
OneAntenna(k, a) == PieceOf(k, a, 0, TIME_INT_PER_BUFFER - 1)

\* Packets the recorder does not want: of a third antenna, of a channel out of
\* range, without the voltage bit; and no packets at all.
Unwanted == {<<Packet(1, 5), Packet(1, 6), Packet(1, 9)>>,
             <<[Packet(2, 6) EXCEPT !.chan = nchans], Packet(2, 5),
               [Packet(0, 5) EXCEPT !.volt = FALSE], [Packet(2, 5) EXCEPT !.chan = -1]>>,
             <<>>}

Pieces == {Whole(k) : k \in {0, 1, 2, 5}}
             \cup {FinalPackets(6), AllButFinal(2), AllButFinal(4)}
             \cup {FinalPackets(k) \o FinalPackets(k + 2) : k \in 2 .. 3}
             \cup {OneAntenna(1, 6)}

AllBatches == Pieces \cup Unwanted
==============================================================================
