-------------------------------- MODULE Params --------------------------------
(***************************************************************************)
(* hpguppi_params.c: the observation parameters read from the status       *)
(* buffer into the struct psrfits, whose per-channel arrays are allocated  *)
(* again on every read.  The caller is not part of the repository: it      *)
(* reads whenever it likes and frees the structure once, at the end; an    *)
(* operator changes the status buffer in between.                          *)
(***************************************************************************)
EXTENDS Integers, Sequences, FiniteSets

CONSTANTS
    Statuses,   \* the contents the status buffer may have: see ParInit
    MaxReads    \* bound: reads of the parameters

\* pols names the values of OFFSETn and SCALEn, one of each for a polarisation.
ASSUME ParAssumption ==
    /\ MaxReads \in Nat
    /\ \A s \in Statuses :
         /\ s.nchan \in Nat /\ s.npol \in Nat /\ s.nbits \in Nat /\ s.blocsize \in Nat
         /\ \A m, n \in 1 .. s.npol : s.pols[m] = s.pols[n] => m = n

VARIABLES
    status,     \* the status buffer; 0 is a missing key
    hdr,        \* struct hdrinfo
    sub,        \* struct subint: the fields read, and pointers to the arrays
    heap,       \* the live allocations: address to contents
    par_pc,     \* "new", "read", "freed", "exit", "div0", "corrupt"
    nReads      \* reads so far

parVars == <<status, hdr, sub, heap, par_pc, nReads>>

NULL == 0
Arrays == {"dat_freqs", "dat_weights", "dat_offsets", "dat_scales"}

------------------------------------------------------------------------------
\* strstr("PSR", obs_mode): the mode is looked for in the word, so a mode is a
\* fold mode when it is a part of the word.
FoldInSubint(mode) == mode \in {"PSR", "CAL", ""}
FoldInObs(mode) == FoldInSubint(mode) \/ mode = "FOLD"

bytes_per_dt(h) == (h.nchan * h.npol * h.nbits) \div 8

\* exit_on_missing, for the keys that must be there.
Missing(s) == s.BW = 0 \/ s.nchan = 0 \/ s.npol = 0 \/ s.nbits = 0 \/ s.dt = 0

ReadDims(s) ==
    [nchan |-> s.nchan, npol |-> s.npol, nbits |-> s.nbits, BW |-> s.BW, dt |-> s.dt,
     obs_mode |-> s.obs_mode,
     nbin |-> IF FoldInObs(s.obs_mode) THEN s.nbin ELSE 1]

\* The part of the bookkeeping before the arrays.  (The times are counted in
\* samples.)
ReadSubintSize(s, h) ==
    LET nsblk == s.blocsize \div bytes_per_dt(h)
    IN  [nsblk |-> nsblk,
         tsubint |-> IF FoldInObs(h.obs_mode) THEN s.tsubint ELSE nsblk,
         bytes_per_subint |-> IF FoldInObs(h.obs_mode)
                              THEN 4 * h.nbin * h.nchan * h.npol ELSE s.blocsize]

\* hpguppi_read_subint_params, with the dimensions of the last read of the
\* observation parameters.
hpguppi_read_subint_params(s, h, tsubint) ==
    LET fold == FoldInSubint(h.obs_mode)
        t == IF fold THEN s.tsubint ELSE tsubint
    IN  [packets_per_block |-> IF s.pktsize > 0 THEN s.blocsize \div s.pktsize ELSE s.blocsize,
         tsubint |-> t,
         offs |-> IF fold THEN s.offs_sub
                  ELSE (s.pktidx * s.pktsize) \div bytes_per_dt(h) + t \div 2]

------------------------------------------------------------------------------
\* The arrays

hpguppi_free_psrfits_None(p, mem) == mem

\* The pointers keep their values.
hpguppi_free_psrfits(p, mem) ==
    [a \in DOMAIN mem \ {p[x] : x \in Arrays} |-> mem[a]]

FreesTwice(p, mem) == \E x \in Arrays : p[x] # NULL /\ p[x] \notin DOMAIN mem

\* Element counts of the four mallocs.
ArrayLen(h) == [x \in Arrays |-> IF x \in {"dat_freqs", "dat_weights"} THEN h.nchan
                                 ELSE h.nchan * h.npol]

\* What the loops write: the frequency of each channel as a step of df, weight
\* one, and the OFFSETn and SCALEn of each polarisation, channel by channel.
Filled(s, h) ==
    [x \in Arrays |->
        CASE x = "dat_freqs" -> [i \in 0 .. h.nchan - 1 |-> i]
          [] x = "dat_weights" -> [i \in 0 .. h.nchan - 1 |-> 1]
          [] OTHER -> [i \in 0 .. h.nchan * h.npol - 1 |-> <<x, s.pols[(i \div h.nchan) + 1]>>]]

\* malloc returns addresses that are not in use, freed ones among them.
Allocated(mem) ==
    LET free == (1 .. Cardinality(DOMAIN mem) + 4) \ DOMAIN mem
        Kth(k) == CHOOSE a \in free : Cardinality({b \in free : b <= a}) = k
    IN  [x \in Arrays |-> CASE x = "dat_freqs" -> Kth(1) [] x = "dat_weights" -> Kth(2)
                            [] x = "dat_offsets" -> Kth(3) [] x = "dat_scales" -> Kth(4)]

------------------------------------------------------------------------------
ParInit(statuses) ==
    /\ status \in statuses
    /\ hdr = [nchan |-> 0, npol |-> 0, nbits |-> 0, BW |-> 0, dt |-> 0, obs_mode |-> "",
              nbin |-> 0]
    /\ sub = [p |-> [x \in Arrays |-> NULL], size |-> [nsblk |-> 0, tsubint |-> 0,
                                                     bytes_per_subint |-> 0],
              packets_per_block |-> 0, offs |-> 0]
    /\ heap = [a \in {} |-> 0]
    /\ par_pc = "new" /\ nReads = 0

\* External: the operator.
SetStatus ==
    /\ par_pc \in {"new", "read"}
    /\ status' \in Statuses \ {status}
    /\ UNCHANGED <<hdr, sub, heap, par_pc, nReads>>

\* hpguppi_read_obs_params.  A missing key ends the process, and so does the
\* division when a sample of all channels is shorter than a byte.
ReadFails ==
    /\ par_pc \in {"new", "read"} /\ nReads < MaxReads
    /\ \/ Missing(status) /\ par_pc' = "exit"
       \/ ~Missing(status) /\ bytes_per_dt(status) = 0 /\ par_pc' = "div0"
    /\ nReads' = nReads + 1
    /\ UNCHANGED <<status, hdr, sub, heap>>

hpguppi_read_obs_params ==
    /\ par_pc \in {"new", "read"} /\ nReads < MaxReads
    /\ ~Missing(status) /\ bytes_per_dt(status) # 0
    /\ hdr' = ReadDims(status)
    /\ LET size == ReadSubintSize(status, hdr')
           freed == hpguppi_free_psrfits(sub.p, heap)
           p == Allocated(freed)
           at == hpguppi_read_subint_params(status, hdr', size.tsubint)
           data == Filled(status, hdr')
           len == ArrayLen(hdr')
       IN  /\ heap' = [a \in DOMAIN freed \cup {p[x] : x \in Arrays} |->
                          IF a \in DOMAIN freed THEN freed[a]
                          ELSE LET x == CHOOSE x \in Arrays : p[x] = a
                               IN  [i \in 0 .. len[x] - 1 |-> data[x][i]]]
           /\ sub' = [p |-> p, size |-> [size EXCEPT !.tsubint = at.tsubint],
                      packets_per_block |-> at.packets_per_block, offs |-> at.offs]
           /\ par_pc' = IF FreesTwice(sub.p, heap)
                           \/ \E x \in Arrays : DOMAIN data[x] # 0 .. len[x] - 1
                        THEN "corrupt" ELSE "read"
    /\ nReads' = nReads + 1
    /\ UNCHANGED status

\* hpguppi_read_subint_params on its own, once the dimensions are known.
ReadSubint ==
    /\ par_pc = "read"
    /\ LET at == hpguppi_read_subint_params(status, hdr, sub.size.tsubint)
       IN  sub' = [sub EXCEPT !.size.tsubint = at.tsubint, !.offs = at.offs,
                              !.packets_per_block = at.packets_per_block]
    /\ UNCHANGED <<status, hdr, heap, par_pc, nReads>>

FreeAtEnd ==
    /\ par_pc = "read"
    /\ heap' = hpguppi_free_psrfits(sub.p, heap)
    /\ par_pc' = "freed"
    /\ UNCHANGED <<status, hdr, sub, nReads>>

ParNext == SetStatus \/ ReadFails \/ hpguppi_read_obs_params \/ ReadSubint \/ FreeAtEnd

------------------------------------------------------------------------------
\* For a block that holds a sample: the loop halves the number of samples down
\* to one, the shift behind it doubles that as often.
calc_ntime_per_block(max_block_size, obsnchan) ==
    LET ntime == max_block_size \div (4 * obsnchan)
        shifted[n \in 1 .. ntime] == IF n = 1 THEN 1 ELSE 2 * shifted[n \div 2]
    IN  shifted[ntime]

\* However often the parameters are read while the operator changes them,
\* hpguppi_read_obs_params neither frees an array twice nor writes past one,
\* leaves exactly four arrays allocated, each as long as the dimensions it
\* read with them and with the values of the right polarisation, and the free
\* at the end leaves none; and calc_ntime_per_block finds the largest power of
\* two of samples a block holds.
ArraysFit ==
    /\ par_pc # "corrupt"
    /\ par_pc = "freed" => DOMAIN heap = {}
    /\ par_pc = "read" =>
         /\ DOMAIN heap = {sub.p[x] : x \in Arrays} /\ Cardinality(DOMAIN heap) = 4
         /\ \A x \in Arrays :
              Cardinality(DOMAIN heap[sub.p[x]])
                = hdr.nchan * (IF x \in {"dat_freqs", "dat_weights"} THEN 1 ELSE hdr.npol)
         /\ \A x \in {"dat_offsets", "dat_scales"} : \A ch \in 0 .. hdr.nchan - 1 :
              Cardinality({heap[sub.p[x]][pol * hdr.nchan + ch] : pol \in 0 .. hdr.npol - 1})
                = hdr.npol
         /\ status.blocsize >= 4 * hdr.nchan =>
              LET n == calc_ntime_per_block(status.blocsize, hdr.nchan)
              IN  4 * hdr.nchan * n <= status.blocsize /\ status.blocsize < 8 * hdr.nchan * n
==============================================================================
