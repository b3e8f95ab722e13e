------------------------------- MODULE Formats -------------------------------
(***************************************************************************)
(* The parts of the system that give data their place: F-engine packets    *)
(* (MkFeng), GUPPI packets (GuppiUdp), the converter (Converter) and the   *)
(* observation parameters (Params).  They do not interact with each other; *)
(* a behaviour of this module is a behaviour of one of them.               *)
(***************************************************************************)
EXTENDS MkFeng, GuppiUdp, Converter, Params

VARIABLE part    \* which of them

\* A part that is not looked at stands still in one of its initial states.
One(S) == {CHOOSE x \in S : TRUE}
MayStart(p, S) == IF part = p THEN S ELSE One(S)

Init ==
    /\ part \in {"mkfeng", "udp", "converter", "params"}
    /\ MkInit(MayStart("mkfeng", ObsInfos))
    /\ UdpInit(MayStart("udp", UdpConfs))
    /\ ConvInit(MayStart("converter", Recordings))
    /\ ParInit(MayStart("params", Statuses))

Next ==
    /\ \/ part = "mkfeng" /\ MkPacket /\ UNCHANGED <<udpVars, convVars, parVars>>
       \/ part = "udp" /\ UdpNext /\ UNCHANGED <<mkVars, convVars, parVars>>
       \/ part = "converter" /\ ConvNext /\ UNCHANGED <<mkVars, udpVars, parVars>>
       \/ part = "params" /\ ParNext /\ UNCHANGED <<mkVars, udpVars, convVars>>
    /\ UNCHANGED part

Spec == Init /\ [][Next]_<<part, mkVars, udpVars, convVars, parVars>>
==============================================================================
