------------------------------- MODULE Rawspec -------------------------------
(***************************************************************************)
(* hpguppi_rawspec.c: the spectra that the GPU dumps into one host buffer  *)
(* per output product are written to the product's file by a thread that   *)
(* is created after each dump and joined before the next one, and          *)
(* rawspec_stop waits for the threads and closes the files.                *)
(***************************************************************************)
EXTENDS Integers, Sequences, FiniteSets

CONSTANTS
    No,             \* number of output products
    h_pwrbuf_size,  \* units of a dump
    MaxDumps,       \* bound: dumps per product
    MaxFaults       \* bound: failing calls of write and pthread_create

ASSUME RawAssumption ==
    /\ No \in Nat \ {0} /\ h_pwrbuf_size \in Nat \ {0}
    /\ MaxDumps \in Nat /\ MaxFaults \in Nat

Products == 1 .. No
Units == 0 .. h_pwrbuf_size - 1

VARIABLES
    gpu,                  \* per product: "idle", "pre", "copy", "post"
    dump,                 \* the dump the GPU is at, 0 before the first
    h_pwrbuf,             \* which dump each unit of the host buffer is of
    nCopied,              \* units of the dump copied to the host buffer
    output_thread_valid,
    thread,               \* "none", "running", "ended": the last thread created
    bytes_remaining,      \* of write_all, in units
    fd,                   \* "open", "closed"
    file,                 \* what was written, in order
    stop,                 \* how far rawspec_stop is: a product, or one of the next
    broken,               \* dumps of which a write or the thread's creation failed
    nFaults

NotCalled == -1
Waiting == 0
Stopped == No + 1

gpuVars == <<gpu, dump, h_pwrbuf, nCopied>>
threadVars == <<output_thread_valid, thread, bytes_remaining>>
dumpVars == <<gpuVars, threadVars, fd, file, stop, broken, nFaults>>

DumpInit ==
    /\ gpu = [i \in Products |-> "idle"]
    /\ dump = [i \in Products |-> 0]
    /\ h_pwrbuf = [i \in Products |-> [u \in Units |-> 0]]
    /\ nCopied = [i \in Products |-> 0]
    /\ output_thread_valid = [i \in Products |-> FALSE]
    /\ thread = [i \in Products |-> "none"]
    /\ bytes_remaining = [i \in Products |-> 0]
    /\ fd = [i \in Products |-> "open"]
    /\ file = [i \in Products |-> <<>>]
    /\ stop = NotCalled
    /\ broken = [i \in Products |-> {}]
    /\ nFaults = 0

------------------------------------------------------------------------------
\* External: the GPU starts a dump and copies it into the host buffer, unit by
\* unit, between the two callbacks.
StartDump(i) ==
    /\ stop = NotCalled /\ gpu[i] = "idle" /\ dump[i] < MaxDumps
    /\ gpu' = [gpu EXCEPT ![i] = "pre"]
    /\ dump' = [dump EXCEPT ![i] = @ + 1]
    /\ UNCHANGED <<h_pwrbuf, nCopied, threadVars, fd, file, stop, broken, nFaults>>

CopyUnit(i) ==
    /\ gpu[i] = "copy"
    /\ h_pwrbuf' = [h_pwrbuf EXCEPT ![i][nCopied[i]] = dump[i]]
    /\ nCopied' = [nCopied EXCEPT ![i] = (@ + 1) % h_pwrbuf_size]
    /\ gpu' = [gpu EXCEPT ![i] = IF nCopied[i] + 1 = h_pwrbuf_size THEN "post" ELSE @]
    /\ UNCHANGED <<dump, threadVars, fd, file, stop, broken, nFaults>>

------------------------------------------------------------------------------
\* pthread_join returns when the thread has ended.
MayJoin_AtOnce(i) == TRUE
MayJoin(i) == output_thread_valid[i] => thread[i] = "ended"

\* rawspec_dump_callback, PRE_DUMP.
PreDump(i) ==
    /\ gpu[i] = "pre"
    /\ MayJoin(i)
    /\ output_thread_valid' = [output_thread_valid EXCEPT ![i] = FALSE]
    /\ gpu' = [gpu EXCEPT ![i] = "copy"]
    /\ UNCHANGED <<dump, h_pwrbuf, nCopied, thread, bytes_remaining, fd, file, stop, broken,
                   nFaults>>

\* rawspec_dump_callback, POST_DUMP: the thread is created, or cannot be.
PostDump(i) ==
    /\ gpu[i] = "post"
    /\ gpu' = [gpu EXCEPT ![i] = "idle"]
    /\ \/ /\ thread' = [thread EXCEPT ![i] = "running"]
          /\ bytes_remaining' = [bytes_remaining EXCEPT ![i] = h_pwrbuf_size]
          /\ output_thread_valid' = [output_thread_valid EXCEPT ![i] = TRUE]
          /\ UNCHANGED <<broken, nFaults>>
       \/ /\ nFaults < MaxFaults /\ nFaults' = nFaults + 1
          /\ broken' = [broken EXCEPT ![i] = @ \cup {dump[i]}]
          /\ UNCHANGED threadVars
    /\ UNCHANGED <<dump, h_pwrbuf, nCopied, fd, file, stop>>

\* When the loop of write_all ends.
AllWritten_Below(left) == left < 0
AllWritten(left) == left = 0

\* One turn of the loop of write_all in rawspec_dump_file_thread_func: write
\* accepts some of what is left.
WriteSome(i) ==
    /\ thread[i] = "running"
    /\ \E n \in 1 .. bytes_remaining[i] :
         LET first == h_pwrbuf_size - bytes_remaining[i]
         IN  /\ file' = [file EXCEPT ![i] = @ \o
                           [k \in 1 .. n |-> [dump |-> h_pwrbuf[i][first + k - 1],
                                              unit |-> first + k - 1]]]
             /\ bytes_remaining' = [bytes_remaining EXCEPT ![i] = @ - n]
    /\ thread' = [thread EXCEPT ![i] = IF AllWritten(bytes_remaining'[i]) THEN "ended" ELSE @]
    /\ UNCHANGED <<gpuVars, output_thread_valid, fd, stop, broken, nFaults>>

\* write fails: write_all gives up, and its caller does not look.
WriteFails(i) ==
    /\ thread[i] = "running"
    /\ nFaults < MaxFaults /\ nFaults' = nFaults + 1
    /\ thread' = [thread EXCEPT ![i] = "ended"]
    /\ broken' = [broken EXCEPT ![i] = @ \cup {h_pwrbuf[i][0]}]
    /\ UNCHANGED <<gpuVars, output_thread_valid, bytes_remaining, fd, file, stop>>

------------------------------------------------------------------------------
\* rawspec_stop: wait for the GPU, then join and close, product by product.
StopCalled ==
    /\ stop = NotCalled
    /\ stop' = Waiting
    /\ UNCHANGED <<gpuVars, threadVars, fd, file, broken, nFaults>>

GpuCompleted ==
    /\ stop = Waiting
    /\ \A i \in Products : gpu[i] = "idle"
    /\ stop' = 1
    /\ UNCHANGED <<gpuVars, threadVars, fd, file, broken, nFaults>>

StopProduct(i) ==
    /\ stop = i
    /\ MayJoin(i)
    /\ output_thread_valid' = [output_thread_valid EXCEPT ![i] = FALSE]
    /\ fd' = [fd EXCEPT ![i] = "closed"]
    /\ stop' = i + 1
    /\ UNCHANGED <<gpuVars, thread, bytes_remaining, file, broken, nFaults>>

GpuStep(i) == CopyUnit(i) \/ PreDump(i) \/ PostDump(i)
StopStep == GpuCompleted \/ \E i \in Products : StopProduct(i)

DumpNext ==
    \/ \E i \in Products : StartDump(i) \/ GpuStep(i) \/ WriteSome(i) \/ WriteFails(i)
    \/ StopCalled
    \/ StopStep

\* The GPU, the threads and the caller of rawspec_stop are scheduled; write
\* either fails or accepts something.
DumpFairness ==
    /\ \A i \in Products : WF_dumpVars(GpuStep(i)) /\ WF_dumpVars(WriteSome(i))
    /\ WF_dumpVars(StopStep)

DumpSpec == DumpInit /\ [][DumpNext]_dumpVars /\ DumpFairness

------------------------------------------------------------------------------
\* The file of a product is its dumps in order, each from its first unit on and
\* whole, except those whose write or thread failed and the one being written:
\* no dump overwrites the buffer that the thread of rawspec_dump_callback is
\* still writing, and rawspec_stop closes no file a thread writes to.
DumpsIntact ==
    \A i \in Products :
        LET cells == {[dump |-> d, unit |-> u] : d \in 1 .. MaxDumps, u \in Units}
            Written(d) == {k \in DOMAIN file[i] : file[i][k].dump = d}
        IN  /\ \A k \in DOMAIN file[i] :
                 /\ file[i][k] \in cells
                 /\ file[i][k].unit = 0 \/ /\ k > 1
                                           /\ file[i][k - 1].dump = file[i][k].dump
                                           /\ file[i][k - 1].unit = file[i][k].unit - 1
                 /\ k > 1 => \/ file[i][k - 1].dump < file[i][k].dump
                             \/ file[i][k - 1].dump = file[i][k].dump /\ file[i][k].unit > 0
            /\ \A d \in (1 .. dump[i]) \ broken[i] :
                 d < dump[i] \/ gpu[i] = "idle" =>
                   \/ Cardinality(Written(d)) = h_pwrbuf_size
                   \/ thread[i] = "running" /\ h_pwrbuf[i] = [u \in Units |-> d]
            /\ thread[i] = "running" => fd[i] = "open"

\* Every call of rawspec_stop returns, and then each file holds every dump that
\* did not fail.
StopEnds ==
    (stop = Waiting) ~>
        /\ stop = Stopped
        /\ \A i \in Products : /\ thread[i] # "running" /\ fd[i] = "closed"
                               /\ \A d \in (1 .. dump[i]) \ broken[i] :
                                    \E k \in DOMAIN file[i] :
                                      file[i][k] = [dump |-> d, unit |-> h_pwrbuf_size - 1]
==============================================================================
