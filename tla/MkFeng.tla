-------------------------------- MODULE MkFeng --------------------------------
(***************************************************************************)
(* F-engine packets and the layout of a data block: hpguppi_mkfeng.h and   *)
(* copy_packet_data_to_databuf of ata_volt_outer_thread.c.  The dimensions *)
(* come from the status buffer, the place of a packet in its block from    *)
(* the SPEAD items of its header, and the payload is copied row by row     *)
(* with memcpy_nt.                                                         *)
(***************************************************************************)
EXTENDS Integers, Sequences, FiniteSets, FiniteSetsExt

CONSTANTS
    BLOCK_DATA_SIZE,    \* bytes of a data block
    ObsInfos,           \* the dimensions the status buffer may give
    payload_size,       \* bytes of a packet's payload
    WIDE                \* bytes per store of memcpy_nt

ASSUME MkAssumption == /\ BLOCK_DATA_SIZE \in Nat \ {0} /\ payload_size \in Nat \ {0}
                       /\ WIDE \in Nat \ {0}
                       /\ ObsInfos \subseteq [fenchan : Nat, nants : Nat, nstrm : Nat,
                                              hntime : Nat, hnchan : Nat, hclocks : Nat,
                                              schan : Int]

VARIABLES
    obs_info,           \* struct mk_obs_info
    feng_spead_info,    \* struct mk_feng_spead_info, kept from packet to packet
    block,              \* the data block: which byte of which packet each byte is
    arrived             \* the packets copied so far

mkVars == <<obs_info, feng_spead_info, block, arrived>>

------------------------------------------------------------------------------
\* Dimensions

INVALID_SCHAN == -1

mk_obs_info_valid(oi) ==
    /\ oi.fenchan # 0 /\ oi.nants # 0 /\ oi.nstrm # 0 /\ oi.hntime # 0
    /\ oi.hnchan # 0 /\ oi.hclocks # 0
    /\ oi.schan # INVALID_SCHAN

\* 0x80000000 >> clz(x): the highest bit of x.
prevpow2(x) == IF x = 0 THEN 0 ELSE Max({p \in 1 .. x : \E k \in 0 .. 30 : p = 2 ^ k})

mk_pktidx(oi, fesi) == fesi.timestamp \div oi.hclocks
mk_obsnchan(oi) == oi.nants * oi.nstrm * oi.hnchan
mk_block_chan(oi, fesi) ==
    fesi.feng_id * oi.nstrm * oi.hnchan + (fesi.feng_chan - oi.schan)

mk_pktidx_per_block(oi) == prevpow2(BLOCK_DATA_SIZE \div (4 * mk_obsnchan(oi) * oi.hntime))

mk_ntime_WholeBlock(oi) ==
    oi.hntime * (BLOCK_DATA_SIZE \div (4 * mk_obsnchan(oi) * oi.hntime))

mk_ntime(oi) == oi.hntime * mk_pktidx_per_block(oi)
mk_block_size(oi) == 4 * mk_obsnchan(oi) * oi.hntime * mk_pktidx_per_block(oi)

\* Dimensions with which packets are copied.
Fits(oi) == mk_obs_info_valid(oi) /\ mk_pktidx_per_block(oi) # 0

\* "Assume that packets are hntime aligned within heap", says
\* copy_packet_data_to_databuf: a heap is cut into payloads of whole rows.  A
\* row is 4 * hntime bytes, whole stores of memcpy_nt.
ASSUME RowsAssumption ==
    \A oi \in ObsInfos : Fits(oi) => /\ payload_size % (4 * oi.hntime) = 0
                                    /\ (4 * oi.hntime * oi.hnchan) % payload_size = 0
                                    /\ (4 * oi.hntime) % WIDE = 0

------------------------------------------------------------------------------
\* One packet

\* A packet is the sequence of its SPEAD items; items the parser does not know
\* are skipped, the last of several of a kind counts, and a missing one leaves
\* the field as the packet before had it.
SpeadFields == {"heap_offset", "payload_size", "timestamp", "feng_id", "feng_chan"}

mk_parse_mkfeng_packet(items, fesi) ==
    [f \in SpeadFields |->
        LET S == {k \in DOMAIN items : items[k].id = f}
        IN  IF S = {} THEN fesi[f] ELSE items[Max(S)].value]

\* memcpy_nt stores whole wide words only.
memcpy_nt_len(len) == (len \div WIDE) * WIDE

\* Where the rows of a payload go: the first byte in the block, the first byte
\* of the payload, the length.
CopyRows(oi, fesi) ==
    LET istride == 4 * oi.hntime
        ostride == 4 * mk_ntime(oi)
        slot_idx == mk_pktidx(oi, fesi) % mk_pktidx_per_block(oi)
        dst == slot_idx * istride + mk_block_chan(oi, fesi) * ostride
               + (fesi.heap_offset \div istride) * ostride
        rows == (fesi.payload_size + istride - 1) \div istride
    IN  {[dst |-> dst + r * ostride, src |-> r * istride, len |-> memcpy_nt_len(istride)] :
           r \in 0 .. rows - 1}

copy_packet_data_to_databuf(oi, fesi, p) ==
    [b \in DOMAIN block |->
        LET S == {r \in CopyRows(oi, fesi) : b \in r.dst .. r.dst + r.len - 1}
        IN  IF S = {} THEN block[b]
            ELSE LET r == CHOOSE r \in S : TRUE IN [pkt |-> p, byte |-> r.src + b - r.dst]]

------------------------------------------------------------------------------
\* External: the F-engines.  Packets of one data block, each heap cut into
\* payloads; the timestamp may be anywhere in its heap's clock cycles.
Heaps(oi) ==
    [pktidx : 0 .. mk_pktidx_per_block(oi) - 1, feng_id : 0 .. oi.nants - 1,
     strm : 0 .. oi.nstrm - 1,
     part : 0 .. (4 * oi.hntime * oi.hnchan) \div payload_size - 1]

Items(oi, h) ==
    <<[id |-> "timestamp", value |-> h.pktidx * oi.hclocks + (h.part % oi.hclocks)],
      [id |-> "unknown", value |-> 0],
      [id |-> "feng_id", value |-> h.feng_id],
      [id |-> "feng_chan", value |-> oi.schan + h.strm * oi.hnchan],
      [id |-> "heap_offset", value |-> h.part * payload_size],
      [id |-> "payload_size", value |-> payload_size]>>

Nothing == [pkt |-> <<>>, byte |-> -1]

MkInit(infos) ==
    /\ obs_info \in infos
    /\ feng_spead_info = [f \in SpeadFields |-> 0]
    /\ block = [b \in 0 .. BLOCK_DATA_SIZE - 1 |-> Nothing]
    /\ arrived = {}

\* A packet is parsed and copied, in whatever order the packets come; without
\* valid dimensions, or when not even one index fits, none is (a zero
\* pktidx_per_block would be divided by).
MkPacket ==
    /\ Fits(obs_info)
    /\ \E h \in Heaps(obs_info) \ arrived :
         /\ feng_spead_info' = mk_parse_mkfeng_packet(Items(obs_info, h), feng_spead_info)
         /\ block' = copy_packet_data_to_databuf(obs_info, feng_spead_info', h)
         /\ arrived' = arrived \cup {h}
    /\ UNCHANGED obs_info

------------------------------------------------------------------------------
\* Where a byte of a heap belongs by the layout described at the head of
\* hpguppi_mkfeng.h: the samples of one F-engine and channel are consecutive
\* in time, PIPERBLK * HNTIME of them.
PlaceInBlock(oi, h, byte) ==
    LET inHeap == h.part * payload_size + byte
        chan == h.feng_id * oi.nstrm * oi.hnchan + h.strm * oi.hnchan
                + inHeap \div (4 * oi.hntime)
        time == h.pktidx * 4 * oi.hntime + (inHeap % (4 * oi.hntime))
    IN  chan * 4 * oi.hntime * mk_pktidx_per_block(oi) + time

\* Whatever the order of the packets, after each copy_packet_data_to_databuf
\* every byte of every packet so far is where the layout says, nothing else is
\* in the block, and the packets of the whole block fill exactly the
\* eff_block_size bytes that BLOCSIZE announces.
PacketsInPlace ==
    /\ \A h \in arrived : \A byte \in 0 .. payload_size - 1 :
         /\ PlaceInBlock(obs_info, h, byte) < BLOCK_DATA_SIZE
         /\ block[PlaceInBlock(obs_info, h, byte)] = [pkt |-> h, byte |-> byte]
    /\ arrived # {} /\ arrived = Heaps(obs_info) =>
         {b \in DOMAIN block : block[b] # Nothing} = 0 .. mk_block_size(obs_info) - 1
==============================================================================
