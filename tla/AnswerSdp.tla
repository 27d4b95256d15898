------------------------------ MODULE AnswerSdp ------------------------------
(***************************************************************************)
(* normalize_remote_answer_sdp (signaling.rs): an answer whose ICE         *)
(* credentials stand in its media section only, as Firefox writes it, gets *)
(* copies of them in its session section, where webrtc-rs looks for them.  *)
(*                                                                         *)
(* A line is its kind and what stands behind it; line endings, which the   *)
(* function makes uniform, are left out but for the empty lines they may   *)
(* make of an input.                                                       *)
(***************************************************************************)
EXTENDS Integers, Sequences, SequencesExt

CONSTANTS
    Lines,      \* lines an answer may have
    MaxLines    \* bound on an answer's length

VARIABLES sdp, original, calls

sdpVars == <<sdp, original, calls>>

EmptyLine == [kind |-> "empty", value |-> 0]

\* Answers to an offer with one media section: at most one m= line.
Answers ==
    {l \in SeqOf(Lines, MaxLines) :
        \A i, j \in DOMAIN l : l[i].kind = "m=" /\ l[j].kind = "m=" => i = j}

NonEmpty(input) ==
    FoldLeft(LAMBDA kept, l : IF l = EmptyLine THEN kept ELSE Append(kept, l), <<>>, input)

Has(lines, kind) == \E i \in DOMAIN lines : lines[i].kind = kind

\* The first line of a kind, as a sequence of at most one line.
FirstOf(lines, kind) ==
    LET i == SelectInSeq(lines, LAMBDA l : l.kind = kind)
    IN  IF i = 0 THEN <<>> ELSE <<lines[i]>>

\* Where the first media section begins, or the end.
FirstMedia(lines) ==
    IF Has(lines, "m=") THEN SelectInSeq(lines, LAMBDA l : l.kind = "m=") ELSE Len(lines) + 1

SessionPart(lines) == SubSeq(lines, 1, FirstMedia(lines) - 1)
MediaPart(lines) == SubSeq(lines, FirstMedia(lines), Len(lines))

\* Faulty variant: an answer whose session section has one credential is left alone.
NormalizeIfBare(input) ==
    LET lines   == NonEmpty(input)
        session == SessionPart(lines)
        media   == MediaPart(lines)
    IN  IF Has(session, "a=ice-ufrag:") \/ Has(session, "a=ice-pwd:") THEN lines
        ELSE session \o FirstOf(media, "a=ice-ufrag:") \o FirstOf(media, "a=ice-pwd:") \o media

\* Faulty variant: a credential is copied although the session section has it.
NormalizeAlways(input) ==
    LET lines   == NonEmpty(input)
        session == SessionPart(lines)
        media   == MediaPart(lines)
    IN  session \o FirstOf(media, "a=ice-ufrag:") \o FirstOf(media, "a=ice-pwd:") \o media

\* The early returns for "both there" and "neither found" add nothing, like the
\* general case.
Normalize(input) ==
    LET lines   == NonEmpty(input)
        session == SessionPart(lines)
        media   == MediaPart(lines)
        ufrag   == IF Has(session, "a=ice-ufrag:") THEN <<>> ELSE FirstOf(media, "a=ice-ufrag:")
        pwd     == IF Has(session, "a=ice-pwd:") THEN <<>> ELSE FirstOf(media, "a=ice-pwd:")
    IN  session \o ufrag \o pwd \o media

SdpInit ==
    /\ original \in Answers
    /\ sdp = original
    /\ calls = 0

\* The reader normalises every answer it receives; here also its own result.
ReceiveAnswer ==
    /\ calls < 2
    /\ calls' = calls + 1
    /\ sdp' = Normalize(sdp)
    /\ UNCHANGED original

SdpNext == ReceiveAnswer

SdpSpec == SdpInit /\ [][SdpNext]_sdpVars

-----------------------------------------------------------------------------
(* Properties *)

Credentials == {"a=ice-ufrag:", "a=ice-pwd:"}

\* A credential that stands anywhere in the answer stands in its session section
\* afterwards.
SessionHasCredentials ==
    calls > 0 => \A k \in Credentials : Has(original, k) => Has(SessionPart(sdp), k)

\* Nothing else changes: without what was appended to the session section, the answer
\* is the original without its empty lines, and a second call changes nothing.
OnlyAppends ==
    calls > 0 =>
        LET lines == NonEmpty(original)
            added == Len(sdp) - Len(lines)
            n     == Len(SessionPart(lines))
        IN  /\ added \in 0 .. 2
            /\ lines = SubSeq(sdp, 1, n) \o SubSeq(sdp, n + added + 1, Len(sdp))
            /\ \A i \in n + 1 .. n + added : sdp[i] \in ToSet(MediaPart(lines))
            /\ \A k \in Credentials : Has(SessionPart(lines), k) =>
                   \A i \in n + 1 .. n + added : sdp[i].kind # k

=============================================================================
