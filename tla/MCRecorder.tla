------------------------------ MODULE MCRecorder ------------------------------
\* The whole recorder with a window of two blocks, for TLC.
EXTENDS Recorder

Packet(n) == [pckt |-> n, ant |-> 7, chan |-> 0, volt |-> TRUE]

\* Packets of one antenna in time order, of which some are lost.
Stream == <<{Packet(2)}, {Packet(3)}, {Packet(6)}, {Packet(8)}>>
ShortStream == <<{Packet(2)}, {Packet(5)}>>
==============================================================================
