-------------------------------- MODULE Flows --------------------------------
(***************************************************************************)
(* Which destination addresses the receiver listens to, from the second's  *)
(* part of ata_volt_outer_thread.c's wait loop: the operator writes        *)
(* DESTIP into the status buffer as A.B.C.D or A.B.C.D+N, the thread       *)
(* installs one flow per address at the packet thread, and reports DESTIP  *)
(* and NSTRM back.                                                         *)
(*                                                                         *)
(* External: the operator, and hpguppi_ibvpkt_flow, which sets or clears   *)
(* one entry of the packet thread's flow table and may fail.               *)
(***************************************************************************)
EXTENDS Integers, FiniteSets, FiniteSetsExt

CONSTANTS
    Dests,              \* the DESTIP strings the operator may write
    MaxFlowsValues,     \* the values MAXFLOWS may have in the status buffer
    MaxWrites,          \* bound: how often the operator writes DESTIP
    FlowsMayFail        \* whether hpguppi_ibvpkt_flow may fail

\* A string is the address it starts with (INADDR_ANY is 0, no address at all
\* -1) and the number after the '+' (-1 if there is none).
Dest == [addr : Int, plus : Nat \cup {-1}]
Zeros == [addr |-> 0, plus |-> -1]
EmptyString == [addr |-> -1, plus |-> -1]

ASSUME FlowsAssumption ==
    /\ Dests \subseteq Dest /\ Zeros \in Dests
    /\ MaxFlowsValues \subseteq Nat /\ MaxWrites \in Nat /\ FlowsMayFail \in BOOLEAN

VARIABLES
    DESTIP, NSTRM,              \* fields of the status buffer
    max_flows,                  \* MAXFLOWS
    dest_ip_stream_str,         \* the destination in force
    dest_ip_stream_str_new,     \* what was read from the status buffer
    nstreams,
    flows,                      \* the packet thread's table: index to address
    writes,                     \* how often the operator wrote DESTIP
    flowFailed                  \* history: hpguppi_ibvpkt_flow has failed

flowVars == <<DESTIP, NSTRM, max_flows, dest_ip_stream_str, dest_ip_stream_str_new, nstreams,
              flows, writes, flowFailed>>

\* The status buffer is new: no DESTIP or NSTRM is left in it.
FlowsInit ==
    /\ DESTIP = EmptyString /\ NSTRM = 0
    /\ max_flows \in MaxFlowsValues
    /\ dest_ip_stream_str = EmptyString /\ dest_ip_stream_str_new = EmptyString
    /\ nstreams = 0 /\ flows = {}
    /\ writes = 0 /\ flowFailed = FALSE

WriteDest ==
    /\ writes < MaxWrites
    /\ writes' = writes + 1
    /\ DESTIP' \in Dests
    /\ UNCHANGED <<NSTRM, max_flows, dest_ip_stream_str, dest_ip_stream_str_new, nstreams,
                   flows, flowFailed>>

\* The status buffer is locked while DESTIP is read, and again later while the
\* result is stored; in between it is the operator's.
ReadDest ==
    /\ dest_ip_stream_str_new' = DESTIP
    /\ UNCHANGED <<DESTIP, NSTRM, max_flows, dest_ip_stream_str, nstreams, flows, writes,
                   flowFailed>>

DestChanged == dest_ip_stream_str # dest_ip_stream_str_new

SwitchAllowed_Always == TRUE
SwitchAllowed == nstreams = 0 \/ dest_ip_stream_str_new = Zeros

AddrValid == dest_ip_stream_str_new.addr # -1

StoreDest(str, n) ==
    /\ DESTIP' = str
    /\ NSTRM' = n

\* A change that is not allowed, or a string that is no address.
RefuseDest ==
    /\ ~(SwitchAllowed /\ AddrValid)
    /\ StoreDest(dest_ip_stream_str, nstreams)
    /\ UNCHANGED <<max_flows, dest_ip_stream_str, dest_ip_stream_str_new, nstreams, flows,
                   writes, flowFailed>>

TakeDest(n, table, failed) ==
    /\ nstreams' = n
    /\ flows' = table
    /\ flowFailed' = (flowFailed \/ failed)
    /\ dest_ip_stream_str' = dest_ip_stream_str_new
    /\ StoreDest(dest_ip_stream_str_new, n)
    /\ UNCHANGED <<max_flows, dest_ip_stream_str_new, writes>>

\* hpguppi_ibvpkt_flow on the entries idxs: the table afterwards.
FlowCleared(idxs) == {f \in flows : f.idx \notin idxs}
FlowSet(idxs, addr) ==
    FlowCleared(idxs) \cup {[idx |-> k, addr |-> addr + k] : k \in idxs}

\* All flows are removed; one that cannot be is reported and left.
RemoveFlows ==
    /\ SwitchAllowed /\ dest_ip_stream_str_new.addr = 0
    /\ \E kept \in SUBSET (0 .. nstreams - 1) :
         /\ kept = {} \/ FlowsMayFail
         /\ TakeDest(0, FlowCleared((0 .. nstreams - 1) \ kept), kept # {})

Requested ==
    Min({IF dest_ip_stream_str_new.plus = -1 THEN 1 ELSE dest_ip_stream_str_new.plus + 1,
         max_flows})

\* One flow per address, up to the first that cannot be added; nstreams counts
\* those that were not added too.
AddFlows ==
    /\ SwitchAllowed /\ dest_ip_stream_str_new.addr > 0
    /\ \E added \in 0 .. Requested :
         /\ added = Requested \/ FlowsMayFail
         /\ TakeDest(Requested, FlowSet(0 .. added - 1, dest_ip_stream_str_new.addr),
                     added < Requested)

UpdateDest ==
    IF DestChanged THEN RefuseDest \/ RemoveFlows \/ AddFlows ELSE UNCHANGED flowVars

------------------------------------------------------------------------------
\* The flows a DESTIP string asks for.
Wanted(dest) ==
    IF dest.addr <= 0 THEN {}
    ELSE {f \in [idx : 0 .. max_flows - 1, addr : dest.addr .. dest.addr + max_flows - 1] :
            /\ f.addr = dest.addr + f.idx
            /\ f.idx <= dest.plus \/ f.idx = 0}

\* As long as no hpguppi_ibvpkt_flow failed, the packet thread listens to
\* exactly the addresses of the destination in force, at most MAXFLOWS of
\* them, and nstreams, which decides whether a switch is allowed and how many
\* flows are removed, counts them: no flow of an earlier DESTIP is left.
FlowsInForce ==
    ~flowFailed => /\ flows = Wanted(dest_ip_stream_str)
                   /\ nstreams = Cardinality(flows)
                   /\ NSTRM = nstreams
==============================================================================
