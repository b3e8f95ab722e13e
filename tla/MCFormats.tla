------------------------------ MODULE MCFormats ------------------------------
(***************************************************************************)
(* Small instances of the packet formats, recordings and status buffers,   *)
(* and the dumps of Rawspec as one more part that stands alone.            *)
(***************************************************************************)
EXTENDS Formats, Rawspec

\* Two F-engines of one stream, one of two; three F-engines, which do not divide
\* the block; dimensions that are not complete, and ones no block holds.
MCObsInfo(nants, nstrm, hntime, hnchan, schan) ==
    [fenchan |-> 8, nants |-> nants, nstrm |-> nstrm, hntime |-> hntime,
     hnchan |-> hnchan, hclocks |-> 3, schan |-> schan]
MCObsInfos ==
    {MCObsInfo(2, 1, 1, 2, 5), MCObsInfo(1, 2, 1, 2, 0), MCObsInfo(3, 1, 1, 2, 2),
     MCObsInfo(1, 1, 2, 2, 1), MCObsInfo(0, 1, 1, 2, 0), MCObsInfo(2, 1, 16, 4, 0),
     MCObsInfo(1, 1, 1, 2, INVALID_SCHAN)}

\* One stream for each copying routine: lengths accepted and others.
MCStream(copy, sizes) ==
    [fmt |-> "none", copy |-> copy, nchan |-> 2, npol |-> 2, acc_len |-> 3,
     obsnchan |-> 8, chan_per_packet |-> 4, packets_per_block |-> 4, sizes |-> sizes]
MCUdpConfs ==
    {[MCStream("plain", {544, 528}) EXCEPT !.fmt = "SHORT", !.packets_per_block = 2],
     [MCStream("plain", {544, 528}) EXCEPT !.packets_per_block = 2],
     [MCStream("plain", {8160}) EXCEPT !.packets_per_block = 1],
     [MCStream("plain", {8224, 8208}) EXCEPT !.fmt = "1SFA", !.packets_per_block = 1],
     MCStream("transpose", {32, 44}),
     MCStream("s6", {32}), MCStream("s6_transpose", {32}), MCStream("s6mb", {8208}),
     [MCStream("parkes", {16}) EXCEPT !.nchan = 4],
     [MCStream("parkes", {16}) EXCEPT !.npol = 4]}

\* Two time steps and perhaps a byte more; antennas 9 and 9 share a number, and
\* four antennas are refused.
MCRecordings ==
    {[nAnts |-> Len(ids), antIDs |-> ids, nChanpkts |-> nc, chanStart |-> 0, pktStart |-> 7,
      length |-> Len(ids) * nc * RX_DATA_LEN * 2 + extra, add_header |-> h,
      eightbits |-> e, named_bin |-> Len(ids) # 1 \/ nc = 1] :
        ids \in {<<3>>, <<3, 5>>, <<3, 9, 9>>, <<1, 2, 3, 4>>}, nc \in 1 .. 2,
        extra \in 0 .. 1, h \in BOOLEAN, e \in BOOLEAN}

\* nchan 0 is a missing key; one channel of one polarisation of four bits is
\* less than a byte.
MCStatuses ==
    {[BW |-> 1, nchan |-> nc, npol |-> np, nbits |-> nb, dt |-> 1, obs_mode |-> m,
      nbin |-> 2, blocsize |-> 24, pktsize |-> 4, pktidx |-> 3, tsubint |-> 5,
      offs_sub |-> 9, pols |-> <<1, 2>>] :
        nc \in 0 .. 3, np \in 1 .. 2, nb \in {4, 8}, m \in {"FOLD", "PSR", "SEARCH"}}

formatVars == <<mkVars, udpVars, convVars, parVars>>

RestInit == /\ MkInit(One(ObsInfos)) /\ UdpInit(One(UdpConfs))
            /\ ConvInit(One(Recordings)) /\ ParInit(One(Statuses))

MCInit == /\ \/ Init
             \/ part = "rawspec" /\ RestInit
          /\ DumpInit

MCNext == \/ Next /\ UNCHANGED dumpVars
          \/ part = "rawspec" /\ DumpNext /\ UNCHANGED <<part, formatVars>>

MCSpec == MCInit /\ [][MCNext]_<<part, formatVars, dumpVars>> /\ DumpFairness
==============================================================================
