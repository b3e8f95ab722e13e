------------------------------- MODULE GuppiUdp -------------------------------
(***************************************************************************)
(* hpguppi_udp.c: the socket of a GUPPI data stream and the routines that  *)
(* put the data of a packet where it belongs in a data buffer.  The caller *)
(* (an input thread that is not part of the repository) waits, receives,   *)
(* and copies each packet the receive call accepted, by its sequence       *)
(* number.                                                                 *)
(***************************************************************************)
EXTENDS Integers, Sequences, FiniteSets, SequencesExt

CONSTANTS
    UdpConfs,   \* how a stream is set up: see UdpInit
    BYTE,       \* number of values of a byte
    MaxInits    \* bound: calls of hpguppi_udp_init

ASSUME UdpAssumption == BYTE \in Nat \ {0, 1} /\ MaxInits \in Nat

VARIABLES
    udp_conf,    \* the stream
    udp_params,  \* struct hpguppi_udp_params, and what init calls left behind
    udp_pc,      \* "closed", "open", "ready", "got", "end"
    udp_rv,      \* what the last call returned
    udp_packet,  \* struct hpguppi_udp_packet
    databuf,     \* what is in the data buffer: cell, packet and unit of the packet
    copied       \* the packets copied so far

udpVars == <<udp_conf, udp_params, udp_pc, udp_rv, udp_packet, databuf, copied>>

------------------------------------------------------------------------------
\* Sizes

PACKET_SIZE_SHORT    == 544
PACKET_SIZE_1SFA     == 8224
PACKET_SIZE_1SFA_OLD == 8160
PACKET_SIZE_PASP     == 528

\* hpguppi_read_net_params and hpguppi_read_pktsock_params: PKTFMT decides the
\* size; "none" stands for a caller that leaves it 0, "don't care".
FormatSize(fmt) ==
    CASE fmt = "PARKES" -> 2056
      [] fmt = "1SFA"   -> PACKET_SIZE_1SFA
      [] fmt = "FAST4K" -> 4128
      [] fmt = "SHORT"  -> PACKET_SIZE_SHORT
      [] fmt = "none"   -> 0
      [] OTHER          -> 8208

hpguppi_udp_packet_datasize(size) ==
    CASE size = PACKET_SIZE_1SFA  -> 8192
      [] size = PACKET_SIZE_SHORT -> 512
      [] OTHER                    -> size - 16

parkes_udp_packet_datasize(size) == size - 8

\* First byte of the data in a packet.
hpguppi_udp_packet_data(size) == IF size = PACKET_SIZE_PASP THEN 16 ELSE 8

------------------------------------------------------------------------------
\* The sequence number: eight bytes, most significant first.

change_endian64(bytes) == Reverse(bytes)

\* The machine is little endian.
LoadWord(bytes) ==
    LET v[i \in 0 .. Len(bytes)] ==
            IF i = 0 THEN 0 ELSE v[i - 1] * BYTE + bytes[Len(bytes) + 1 - i]
    IN  v[Len(bytes)]

StoreWord(n) == [i \in 1 .. 8 |-> (n \div BYTE ^ (i - 1)) % BYTE]

\* The top byte holds channel information.
hpguppi_udp_packet_seq_num(header) == LoadWord(change_endian64(header)) % BYTE ^ 7

\* parkes_to_guppi on the header: clock count to packet count.
ParkesHeader(c, header) ==
    LET counts_per_packet == (c.nchan \div 2) * c.acc_len
        count == LoadWord(change_endian64(header)) \div counts_per_packet
    IN  change_endian64(StoreWord(count))

------------------------------------------------------------------------------
\* Copies.  Each is the set of its moves: unit "in" of the packet's data to
\* unit "out" of the buffer.

\* Units of 8 bytes of the packet, -1 is a zero from memset.
PlainMoves(size) ==
    LET data == hpguppi_udp_packet_data(size) \div 8
    IN  IF size = PACKET_SIZE_1SFA_OLD
        THEN LET pad == 2  spec == 508
             IN  {[in |-> data + k, out |-> pad + k] : k \in 0 .. spec - 1}
                 \cup {[in |-> data + spec + k, out |-> pad + spec + 2 * pad + k] :
                         k \in 0 .. spec - 1}
                 \cup {[in |-> -1, out |-> k] :
                         k \in (0 .. pad - 1) \cup (pad + spec .. pad + spec + 2 * pad - 1)
                               \cup (2 * spec + 3 * pad .. 2 * spec + 4 * pad - 1)}
        ELSE {[in |-> data + k, out |-> k] :
                k \in 0 .. hpguppi_udp_packet_datasize(size) \div 8 - 1}

hpguppi_udp_packet_data_copy(c, idx, size) ==
    LET place == idx * (hpguppi_udp_packet_datasize(size) \div 8)
    IN  {[in |-> m.in, out |-> place + m.out] : m \in PlainMoves(size)}

\* Units of one 4-byte sample.  optr walks over the rows of the block, iptr
\* over the samples of one channel.
hpguppi_udp_packet_data_copy_transpose(c, idx, size) ==
    LET samp_per_packet == (hpguppi_udp_packet_datasize(size) \div 4) \div c.nchan
        samp_per_block == c.packets_per_block * samp_per_packet
        optr[ichan \in 0 .. c.nchan] ==
            IF ichan = 0 THEN idx * samp_per_packet
            ELSE optr[ichan - 1] + samp_per_packet + (samp_per_block - samp_per_packet)
    IN  {[in |-> ichan + isamp * c.nchan, out |-> optr[ichan] + isamp] :
           ichan \in 0 .. c.nchan - 1, isamp \in 0 .. samp_per_packet - 1}

\* External: the channels and the time of the packet of a block, which the
\* caller reads from the S6 header.
S6Time(c, idx) == idx \div (c.obsnchan \div c.chan_per_packet)
S6Chan(c, idx) == (idx % (c.obsnchan \div c.chan_per_packet)) * c.chan_per_packet

\* Units of 16 bits, four to a word: X0 X1 Y0 Y1 becomes X0 Y0 X1 Y1.
hpguppi_s6_packet_data_copy(c, idx, size) ==
    LET chan_per_packet == (size - 16) \div 4
        optr == (S6Time(c, idx) * c.obsnchan + S6Chan(c, idx)) * 2
        Unpack == <<0, 2, 1, 3>>
    IN  {[in |-> 4 * ichan + Unpack[u], out |-> optr + 4 * ichan + u - 1] :
           ichan \in 0 .. chan_per_packet \div 2 - 1, u \in 1 .. 4}

\* Two rows of the block per word: what the shifts and masks leave of it.
hpguppi_s6_packet_data_copy_transpose(c, idx, size) ==
    LET chan_per_packet == (size - 16) \div 4
        ntime_per_block == c.packets_per_block \div (c.obsnchan \div c.chan_per_packet)
        optr == (S6Chan(c, idx) * ntime_per_block + S6Time(c, idx)) * 2
        Rows == <<<<1, 3>>, <<0, 2>>>>
    IN  {[in |-> 4 * ichan + Rows[r][u],
          out |-> optr + (2 * ichan + r - 1) * ntime_per_block * 2 + u - 1] :
           ichan \in 0 .. chan_per_packet \div 2 - 1, r \in 1 .. 2, u \in 1 .. 2}

\* Units of 512 samples: one memcpy per channel.
hpguppi_s6mb_packet_data_copy(c, idx, size) ==
    LET ntime_per_block == c.packets_per_block \div (c.obsnchan \div c.chan_per_packet)
        optr == S6Chan(c, idx) * ntime_per_block + S6Time(c, idx)
    IN  {[in |-> ichan, out |-> optr + ichan * ntime_per_block] : ichan \in 0 .. 3}

\* Units of one byte.  The data of a packet are sorted by polarisation.
ParkesMoves(c) ==
    CASE c.npol = 2 -> {[in |-> 4 * i + 2 * pol + k, out |-> pol * c.nchan + 2 * i + k] :
                          i \in 0 .. c.nchan \div 2 - 1, pol \in 0 .. 1, k \in 0 .. 1}
      [] c.npol = 4 -> {[in |-> 4 * i + pol, out |-> pol * c.nchan + i] :
                          i \in 0 .. c.nchan - 1, pol \in 0 .. 3}

parkes_to_guppi(c, idx, size) ==
    {[in |-> m.in, out |-> idx * parkes_udp_packet_datasize(size) + m.out] : m \in ParkesMoves(c)}

------------------------------------------------------------------------------
\* External: the network.  A packet of the block, with the header its sender
\* writes; packets are lost, duplicated, reordered and of other sizes.
Packets(c) == [idx : 0 .. c.packets_per_block - 1, size : c.sizes]

\* Parkes packets count clock cycles; the others may carry channel information
\* in the top byte.
Header(c, p) ==
    Reverse(StoreWord(IF c.copy = "parkes"
                      THEN p.idx * (c.nchan \div 2) * c.acc_len + (p.idx % 2)
                      ELSE p.idx + (p.idx % 2) * BYTE ^ 7))

------------------------------------------------------------------------------
NoPacket == [idx |-> -1, size |-> 0]

UdpInit(confs) ==
    /\ udp_conf \in confs
    /\ udp_params = [packet_size |-> FormatSize(udp_conf.fmt), inits |-> 0,
                     socks |-> 0, addrinfos |-> 0]
    /\ udp_pc = "closed" /\ udp_rv = "OK"
    /\ udp_packet = NoPacket
    /\ databuf = {} /\ copied = {}

\* hpguppi_udp_init.  When bind fails, neither the socket nor the address list
\* is released; the other failures clean up.
hpguppi_udp_init ==
    /\ udp_pc = "closed" /\ udp_params.inits < MaxInits
    /\ \E outcome \in {"OK", "getaddrinfo", "socket", "bind", "connect"} :
         LET leak == IF outcome = "bind" THEN 1 ELSE 0
             open == IF outcome = "OK" THEN 1 ELSE 0
         IN  /\ udp_params' = [udp_params EXCEPT !.inits = @ + 1,
                                                 !.socks = @ + leak + open,
                                                 !.addrinfos = @ + leak]
             /\ udp_rv' = IF outcome = "OK" THEN "OK" ELSE "ERR_SYS"
             /\ udp_pc' = IF outcome = "OK" THEN "open" ELSE "closed"
    /\ UNCHANGED <<udp_conf, udp_packet, databuf, copied>>

\* poll with a timeout of one second.
hpguppi_udp_wait ==
    /\ udp_pc = "open"
    /\ udp_rv' \in {"OK", "TIMEOUT", "ERR_SYS"}
    /\ udp_pc' = IF udp_rv' = "OK" THEN "ready" ELSE "open"
    /\ UNCHANGED <<udp_conf, udp_params, udp_packet, databuf, copied>>

\* The size a stream expects: the first packet decides it when it is not set.
SizeAccepted_Any(size) == TRUE
SizeAccepted(size) == udp_params.packet_size \in {0, size}

hpguppi_udp_recv ==
    /\ udp_pc = "ready"
    /\ \/ /\ udp_packet' = [udp_packet EXCEPT !.size = -1]
          /\ udp_rv' = "ERR_SYS" /\ udp_pc' = "open"
          /\ UNCHANGED udp_params
       \/ /\ udp_packet' \in Packets(udp_conf)
          /\ IF SizeAccepted(udp_packet'.size)
             THEN /\ udp_params' = [udp_params EXCEPT !.packet_size = udp_packet'.size]
                  /\ udp_rv' = "OK" /\ udp_pc' = "got"
             ELSE /\ udp_rv' = "ERR_PACKET" /\ udp_pc' = "open"
                  /\ UNCHANGED udp_params
    /\ UNCHANGED <<udp_conf, databuf, copied>>

\* The caller copies the packet with the routine of its format.
CopyPacket ==
    /\ udp_pc = "got"
    /\ LET c == udp_conf
           header == Header(c, udp_packet)
           idx == hpguppi_udp_packet_seq_num(IF c.copy = "parkes"
                                             THEN ParkesHeader(c, header) ELSE header)
           size == udp_packet.size
           moves == CASE c.copy = "plain" -> hpguppi_udp_packet_data_copy(c, idx, size)
                      [] c.copy = "transpose" ->
                           hpguppi_udp_packet_data_copy_transpose(c, idx, size)
                      [] c.copy = "s6" -> hpguppi_s6_packet_data_copy(c, idx, size)
                      [] c.copy = "s6_transpose" ->
                           hpguppi_s6_packet_data_copy_transpose(c, idx, size)
                      [] c.copy = "s6mb" -> hpguppi_s6mb_packet_data_copy(c, idx, size)
                      [] c.copy = "parkes" -> parkes_to_guppi(c, idx, size)
           outs == {m.out : m \in moves}
       IN  databuf' = {d \in databuf : d.cell \notin outs}
                      \cup {[cell |-> m.out, pkt |-> udp_packet, unit |-> m.in] : m \in moves}
    /\ copied' = copied \cup {udp_packet}
    /\ udp_pc' = "open"
    /\ UNCHANGED <<udp_conf, udp_params, udp_rv, udp_packet>>

hpguppi_udp_close ==
    /\ udp_pc = "open"
    /\ udp_params' = [udp_params EXCEPT !.socks = @ - 1]
    /\ udp_pc' = "end" /\ udp_rv' = "OK"
    /\ UNCHANGED <<udp_conf, udp_packet, databuf, copied>>

UdpNext ==
    \/ hpguppi_udp_init
    \/ hpguppi_udp_wait
    \/ hpguppi_udp_recv
    \/ CopyPacket
    \/ hpguppi_udp_close

------------------------------------------------------------------------------
\* Where the data of a packet belong, from the layouts drawn in the comments of
\* hpguppi_udp.c: pairs of a cell of the buffer and a unit of the packet, by
\* channel, time and polarisation.  The layouts have the two channels of an S6
\* pair one after the other: order AsDrawn.
AsDrawn == [k \in 0 .. 1 |-> k]
Exchanged == [k \in 0 .. 1 |-> 1 - k]

Belongs(c, p, order) ==
    LET data == hpguppi_udp_packet_datasize(p.size)
        streams == c.obsnchan \div c.chan_per_packet
        times == c.packets_per_block \div streams
        t == p.idx \div streams
        first == (p.idx % streams) * c.chan_per_packet
        \* position in an S6 packet of polarisation q of channel ch
        S6Unit(ch, q) == 4 * (ch \div 2) + 2 * q + (ch % 2)
    IN  CASE c.copy = "plain" /\ p.size # PACKET_SIZE_1SFA_OLD ->
               LET header == IF p.size = PACKET_SIZE_PASP THEN 2 ELSE 1
               IN  {<<p.idx * (data \div 8) + k, header + k>> : k \in 0 .. data \div 8 - 1}
          [] c.copy = "plain" ->    \* two spectra of 512 words, 2 blank at each end
               {<<k, IF k % 512 \in 2 .. 509 THEN (k \div 512) * 508 + (k % 512) - 1 ELSE -1>> :
                  k \in 0 .. 1023}
          [] c.copy = "transpose" ->
               LET samples == (data \div 4) \div c.nchan
               IN  {<<ch * c.packets_per_block * samples + p.idx * samples + s, s * c.nchan + ch>> :
                      ch \in 0 .. c.nchan - 1, s \in 0 .. samples - 1}
          [] c.copy = "s6" ->
               {<<(t * c.obsnchan + first + ch) * 2 + q, S6Unit(ch, q)>> :
                  ch \in 0 .. c.chan_per_packet - 1, q \in 0 .. 1}
          [] c.copy = "s6_transpose" ->
               {<<((first + 2 * pair + order[k]) * times + t) * 2 + q, S6Unit(2 * pair + k, q)>> :
                  pair \in 0 .. c.chan_per_packet \div 2 - 1, k \in 0 .. 1, q \in 0 .. 1}
          [] c.copy = "s6mb" -> {<<(first + ch) * times + t, ch>> : ch \in 0 .. 3}
          [] c.copy = "parkes" ->
               {<<p.idx * c.npol * c.nchan + q * c.nchan + ch,
                  IF c.npol = 4 THEN 4 * ch + q ELSE 4 * (ch \div 2) + 2 * q + (ch % 2)>> :
                  q \in 0 .. c.npol - 1, ch \in 0 .. c.nchan - 1}

\* Whatever packets of a block arrive, in whatever order, twice or of another
\* size, after each copy of hpguppi_udp.c the buffer holds every unit of every
\* accepted packet at the place of its channel and time, and nothing else: no
\* packet reaches into another's cells.  Of the transposing S6 routine less is
\* claimed: the two channels of a pair are in the two rows that are drawn for the
\* pair (hpguppi_udp.c:398-403), in one order for all packets.  The drawing has
\* the even channel in the first row; the code (409-422) puts the odd one there.
CopiesExact ==
    \E order \in IF udp_conf.copy = "s6_transpose" THEN {AsDrawn, Exchanged} ELSE {AsDrawn} :
      databuf = UNION {{[cell |-> b[1], pkt |-> p, unit |-> b[2]] :
                           b \in Belongs(udp_conf, p, order)} : p \in copied}
==============================================================================
