---------------------------- MODULE MCSequential ----------------------------
(***************************************************************************)
(* The four components that are sequential algorithms, in one instance:    *)
(* the creation limiter, the FLV parser with its cache, the normalisation  *)
(* of answers, and the fragment buffer.  They share nothing; a behaviour   *)
(* runs one of them and leaves the others where they start.                *)
(***************************************************************************)
EXTENDS CreateLimiter, FlvHeader, AnswerSdp, FragmentBuffer

VARIABLE part    \* the component that runs

-----------------------------------------------------------------------------
(* Outputs of FFmpeg *)

Tag(type, payload) == [type |-> type, payload |-> payload]

\* A script tag whose payload starts like an AVC sequence header.
Script == Tag(18, <<23, 0>>)

\* H.264, and enhanced FLV with its keyframe and FourCC bytes.
Headers == {Tag(9, <<23, 0, 1>>), Tag(9, <<144, 104>>)}

\* Key and inter frames in both formats, an empty payload, a one-byte payload,
\* and a payload whose size needs the second of the three size bytes.
Frames ==
    {Tag(9, <<23, 1>>), Tag(9, <<145, 0>>), Tag(9, <<>>), Tag(9, <<23>>),
     Tag(9, [i \in 1 .. 258 |-> IF i = 1 THEN 39 ELSE 0])}

\* A header after nothing, a script tag, or a frame; with frames, with a second
\* header, or with nothing behind it; and an output that has none.
Outputs ==
    {before \o <<h>> \o behind :
       before \in {<<>>} \cup {<<t>> : t \in {Script} \cup Frames} \cup {<<Script, f>> : f \in Frames},
       h \in Headers,
       behind \in {<<>>, <<Tag(9, <<23, 1>>)>>, <<Tag(9, <<23, 0, 1>>)>>}}
    \cup {<<Script, f>> : f \in Frames}

(* Lines of an answer: each credential with two values, so that copies show. *)

AnswerLines ==
    {[kind |-> k, value |-> 0] : k \in {"empty", "m=", "other"}}
    \cup {[kind |-> k, value |-> v] : k \in {"a=ice-ufrag:", "a=ice-pwd:"}, v \in {1, 2}}

-----------------------------------------------------------------------------
LimiterIdle == now = 0 /\ rate = 0 /\ last_create = 0 /\ passed = {} /\ refusal = NoRefusal
FlvIdle == mpegts = FALSE /\ tags = <<>> /\ read = 0 /\ init_cache = <<>> /\ init_complete = FALSE
SdpIdle == sdp = <<>> /\ original = <<>> /\ calls = 0
FragmentsIdle ==
    flight = [lengths |-> <<>>, mtus |-> {}] /\ buffer = Empty /\ seen = {} /\ reads = 0

SeqInit ==
    \/ part = "limiter" /\ Init /\ FlvIdle /\ SdpIdle /\ FragmentsIdle
    \/ part = "flv" /\ LimiterIdle /\ FlvInit /\ SdpIdle /\ FragmentsIdle
    \/ part = "sdp" /\ LimiterIdle /\ FlvIdle /\ SdpInit /\ FragmentsIdle
    \/ part = "fragments" /\ LimiterIdle /\ FlvIdle /\ SdpIdle /\ FragmentInit

SeqNext ==
    /\ UNCHANGED part
    /\ \/ part = "limiter" /\ Next /\ UNCHANGED <<flvVars, sdpVars, fragmentVars>>
       \/ part = "flv" /\ FlvNext /\ UNCHANGED <<vars, sdpVars, fragmentVars>>
       \/ part = "sdp" /\ SdpNext /\ UNCHANGED <<vars, flvVars, fragmentVars>>
       \/ part = "fragments" /\ FragmentNext /\ UNCHANGED <<vars, flvVars, sdpVars>>

SeqSpec == SeqInit /\ [][SeqNext]_<<part, vars, flvVars, sdpVars, fragmentVars>>

=============================================================================
