------------------------------ MODULE Converter ------------------------------
(***************************************************************************)
(* converter.c: splits a recording into one data file and one text file    *)
(* per antenna, the data sorted by sample and then by channel, with four   *)
(* bits per component as recorded or widened to eight (MY_DO_EIGHTBITS).   *)
(***************************************************************************)
EXTENDS Integers, Sequences, FiniteSets

CONSTANTS
    Recordings,          \* the inputs: see ConvInit
    MAX_NO_ANTS,
    SAMPLES_PER_PACKET,
    ROW,                 \* CHANS_PER_PACKET * POLS_PER_PACKET, bytes of one sample
    HEADER_LEN           \* bytes of the optional header file

ASSUME ConvAssumption ==
    /\ MAX_NO_ANTS \in Nat /\ HEADER_LEN \in Nat
    /\ SAMPLES_PER_PACKET \in Nat \ {0} /\ ROW \in Nat \ {0}
    /\ Recordings \subseteq [nAnts : Nat \ {0}, antIDs : Seq(Nat), nChanpkts : Nat \ {0},
                             chanStart : Nat, pktStart : Nat, length : Nat,
                             add_header : BOOLEAN, eightbits : BOOLEAN, named_bin : BOOLEAN]
    /\ \A r \in Recordings : Len(r.antIDs) = r.nAnts

VARIABLES
    recording,    \* the input file and the options of the call
    conv_pc,      \* "start", "antennas", "loop", "write", "end", "refused", "error"
    iAnt,         \* antennas done in the loop over the antennas
    header_left,  \* bytes of the header file not read yet
    nRead,        \* bytes of data read from the recording
    texts,        \* the text files, by antenna number
    datas,        \* the data files, by antenna number: place and origin of each byte
    offsets       \* file offset of each antenna's descriptor

convVars == <<recording, conv_pc, iAnt, header_left, nRead, texts, datas, offsets>>

------------------------------------------------------------------------------
RX_DATA_LEN == SAMPLES_PER_PACKET * ROW

BITS_MULTIPLAYER(r) == IF r.eightbits THEN 2 ELSE 1
inBufferLen(r) == RX_DATA_LEN * r.nAnts * r.nChanpkts
outBufferLen(r) == RX_DATA_LEN * r.nChanpkts * BITS_MULTIPLAYER(r)

\* What convert puts where: byte "in" of datain (its component "half", when it
\* is widened) to byte "out" of dataout[ant].
convert_ByPacket(r, ant) ==
    {[in |-> ant * (RX_DATA_LEN * r.nChanpkts) + iL * RX_DATA_LEN + iM * ROW + iN,
      out |-> BITS_MULTIPLAYER(r) * (iM * ROW + iL * SAMPLES_PER_PACKET * ROW + iN) + half,
      half |-> half] :
       iL \in 0 .. r.nChanpkts - 1, iM \in 0 .. SAMPLES_PER_PACKET - 1, iN \in 0 .. ROW - 1,
       half \in 0 .. BITS_MULTIPLAYER(r) - 1}

convert(r, ant) ==
    {[in |-> ant * (RX_DATA_LEN * r.nChanpkts) + iL * RX_DATA_LEN + iM * ROW + iN,
      out |-> BITS_MULTIPLAYER(r) * (iL * ROW + iM * r.nChanpkts * ROW + iN) + half,
      half |-> half] :
       iL \in 0 .. r.nChanpkts - 1, iM \in 0 .. SAMPLES_PER_PACKET - 1, iN \in 0 .. ROW - 1,
       half \in 0 .. BITS_MULTIPLAYER(r) - 1}

\* The two components of a byte, as signed bytes: 0x08 is the sign bit of a
\* nibble, 0xf0 extends it.  The byte is signed, its right shift arithmetic.
Int8(pattern) == IF pattern >= 128 THEN pattern - 256 ELSE pattern
ShiftRight4(b) == IF b >= 128 THEN 240 + b \div 16 ELSE b \div 16
Extend(p) == Int8(IF (p \div 8) % 2 = 1 THEN 240 + (p % 16) ELSE p)
Widen(b) == <<Extend(ShiftRight4(b)), Extend(b % 16)>>

------------------------------------------------------------------------------
ConvInit(recordings) ==
    /\ recording \in recordings
    /\ conv_pc = "start" /\ iAnt = 0
    /\ header_left = IF recording.add_header THEN HEADER_LEN ELSE 0
    /\ nRead = 0
    /\ texts = [a \in {} |-> 0] /\ datas = [a \in {} |-> {}]
    /\ offsets = <<>>

\* main up to the buffers: the arguments, the name, the header of the
\* recording and the number of antennas are checked.
ConvStart ==
    /\ conv_pc = "start"
    /\ conv_pc' = IF ~recording.named_bin \/ recording.nAnts >= MAX_NO_ANTS THEN "refused"
                  ELSE "antennas"
    /\ UNCHANGED <<recording, iAnt, header_left, nRead, texts, datas, offsets>>

\* write_ext_header copies what is left of the header file to the beginning of
\* a data file.
write_ext_header(left) == {[at |-> b, from |-> -1, half |-> 0] : b \in 0 .. left - 1}

\* One turn of the loop over the antennas: both files are created or
\* truncated.  (no_chan is counted in packets of CHANS_PER_PACKET.)
ConvAntenna ==
    /\ conv_pc = "antennas" /\ iAnt < recording.nAnts
    /\ LET id == recording.antIDs[iAnt + 1]
       IN  /\ texts' = [a \in DOMAIN texts \cup {id} |->
                           IF a # id THEN texts[a]
                           ELSE [chan_start |-> recording.chanStart,
                                 no_chan |-> recording.nChanpkts,
                                 pkt_start |-> recording.pktStart]]
           /\ datas' = [a \in DOMAIN datas \cup {id} |->
                           IF a # id THEN datas[a]
                           ELSE write_ext_header(header_left)]
    /\ offsets' = Append(offsets, header_left)
    /\ header_left' = 0
    /\ iAnt' = iAnt + 1
    /\ UNCHANGED <<recording, conv_pc, nRead>>

ConvFilesOpen ==
    /\ conv_pc = "antennas" /\ iAnt = recording.nAnts
    /\ conv_pc' = "loop"
    /\ UNCHANGED <<recording, iAnt, header_left, nRead, texts, datas, offsets>>

\* One turn of the loop over the data: a read and convert, then a write for
\* each antenna.
ConvRead ==
    /\ conv_pc = "loop"
    /\ recording.length - nRead >= inBufferLen(recording)
    /\ nRead' = nRead + inBufferLen(recording)
    /\ conv_pc' = "write" /\ iAnt' = 0
    /\ UNCHANGED <<recording, header_left, texts, datas, offsets>>

\* The first len bytes of dataout[ant] go to the antenna's file, at the offset
\* of its descriptor: two antennas of one number overwrite each other.
WriteOut(ant, len) ==
    LET id == recording.antIDs[ant + 1]
        new == {[at |-> offsets[ant + 1] + m.out,
                 from |-> nRead - inBufferLen(recording) + m.in, half |-> m.half] :
                  m \in {c \in convert(recording, ant) : c.out < len}}
    IN  datas' = [datas EXCEPT ![id] = {d \in @ : \A n \in new : n.at # d.at} \cup new]

ConvWrite ==
    /\ conv_pc = "write"
    /\ WriteOut(iAnt, outBufferLen(recording))
    /\ offsets' = [offsets EXCEPT ![iAnt + 1] = @ + outBufferLen(recording)]
    /\ iAnt' = iAnt + 1
    /\ conv_pc' = IF iAnt' = recording.nAnts THEN "loop" ELSE "write"
    /\ UNCHANGED <<recording, header_left, nRead, texts>>

\* A short read ends the loop; what it read is not converted.
ConvEnd ==
    /\ conv_pc = "loop"
    /\ recording.length - nRead < inBufferLen(recording)
    /\ conv_pc' = "end"
    /\ UNCHANGED <<recording, iAnt, header_left, nRead, texts, datas, offsets>>

\* An open, read or malloc fails, or a write is short: error() ends the process.
ConvError ==
    /\ \/ conv_pc \in {"start", "antennas", "loop"} /\ UNCHANGED datas
       \/ /\ conv_pc = "write"
          /\ \E len \in 0 .. outBufferLen(recording) - 1 : WriteOut(iAnt, len)
    /\ conv_pc' = "error"
    /\ UNCHANGED <<recording, iAnt, header_left, nRead, texts, offsets>>

ConvNext ==
    \/ ConvStart \/ ConvAntenna \/ ConvFilesOpen
    \/ ConvRead \/ ConvWrite \/ ConvEnd
    \/ ConvError

------------------------------------------------------------------------------
\* Byte n of sample m of channel packet l of an antenna at time t: where the
\* processing thread puts it in a block of the recording (see
\* ProcessingThread!Offset), and where it belongs in the antenna's file.
InRecording(r, t, ant, l, m, n) ==
    ((t * r.nAnts + ant) * r.nChanpkts + l) * RX_DATA_LEN + m * ROW + n
InFile(r, t, l, m, n) ==
    ((t * SAMPLES_PER_PACKET + m) * r.nChanpkts + l) * ROW + n

\* The antenna's number is its own.
Alone(r, i) == \A j \in 1 .. r.nAnts : r.antIDs[j] = r.antIDs[i] => j = i

\* The file of antenna i after a number of time steps: h bytes of header, then
\* the time series.
SampleAfter(h, r, i, t, l, m, n, half) ==
    [at |-> h + BITS_MULTIPLAYER(r) * InFile(r, t, l, m, n) + half,
     from |-> InRecording(r, t, i - 1, l, m, n), half |-> half]
SeriesAfter(h, r, i, steps) ==
    {[at |-> b, from |-> -1, half |-> 0] : b \in 0 .. h - 1}
    \cup {SampleAfter(h, r, i, t, l, m, n, half) :
            t \in 0 .. steps - 1, l \in 0 .. r.nChanpkts - 1,
            m \in 0 .. SAMPLES_PER_PACKET - 1, n \in 0 .. ROW - 1,
            half \in 0 .. BITS_MULTIPLAYER(r) - 1}

\* How many bytes of header a file may begin with.
HeaderLengths(r) == IF r.add_header THEN {0, HEADER_LEN} ELSE {0}

\* At every moment of a conversion, also one that an error cuts short in the
\* middle of a write, the file of each antenna with a number of its own is a
\* prefix of that antenna's time series: the samples in order, every channel of a
\* sample in order, after the whole header or none of it.  (Which files have the
\* header is what HeaderInEveryFile says.)  It reaches as far as the recording was
\* read, except for the time step in hand.  Widened components keep their value
\* as 4-bit numbers.
ConvertedInPlace ==
    LET r == recording
        steps == nRead \div inBufferLen(r)
    IN  /\ \A i \in {j \in DOMAIN offsets : Alone(r, j)} :
             LET file == datas[r.antIDs[i]]
                 len == Cardinality(file)
             IN  \E h \in HeaderLengths(r) :
                   /\ file = {d \in SeriesAfter(h, r, i, steps) : d.at < len}
                   /\ len >= h + outBufferLen(r)
                             * (IF conv_pc \in {"write", "error"} THEN steps - 1 ELSE steps)
        /\ \A hi, lo \in 0 .. 15 :
             Widen(16 * hi + lo) = <<IF hi < 8 THEN hi ELSE hi - 16,
                                     IF lo < 8 THEN lo ELSE lo - 16>>

\* "for each antenna, we are alocating data, generating file name, opening data
\* file, opening text file and dumping header" (converter.c:159).  The header file
\* is read to its end for the first antenna and not rewound.
HeaderInEveryFile ==
    recording.add_header =>
      \A i \in {j \in DOMAIN offsets : Alone(recording, j)} :
        write_ext_header(HEADER_LEN) \subseteq datas[recording.antIDs[i]]
==============================================================================
