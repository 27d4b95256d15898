------------------------------ MODULE FlvHeader ------------------------------
(***************************************************************************)
(* The initialisation data a live stream keeps for its viewers: the relay  *)
(* task of spawn_ffmpeg (live.rs) appends every chunk FFmpeg writes to     *)
(* init_cache until flv_seq_hdr_end finds the end of the video sequence    *)
(* header, where it cuts and freezes the cache.  Chunks are cut by the     *)
(* pipe, not at tags, so the parser runs again on every longer prefix.     *)
(*                                                                         *)
(* A byte is a number; only the bytes the parser looks at are told apart,  *)
(* all others are 0.                                                       *)
(***************************************************************************)
EXTENDS Integers, Sequences, SequencesExt

CONSTANTS
    Output,     \* what FFmpeg may write: sequences of tags
    ChunkSize,  \* numbers of bytes one read may return
    None

ASSUME FlvConstants ==
    /\ Output \subseteq Seq([type : Nat, payload : Seq(Nat)])
    /\ ChunkSize \subseteq Nat
    /\ None \notin Nat

VARIABLES
    mpegts,         \* the mode of the stream
    tags,           \* what FFmpeg writes in this behaviour
    read,           \* bytes read from its pipe so far
    init_cache,
    init_complete

flvVars == <<mpegts, tags, read, init_cache, init_complete>>

-----------------------------------------------------------------------------
(* FFmpeg's muxer *)

Zeros(n) == [i \in 1..n |-> 0]

\* 11 bytes of tag header with the payload size in 24 bits, payload, 4 bytes of size.
TagBytes(t) ==
    LET n == Len(t.payload)
    IN  <<t.type, (n \div 256) \div 256, (n \div 256) % 256, n % 256>> \o Zeros(7) \o t.payload \o Zeros(4)

\* What has been written after so many tags: 9 bytes of file header, 4 bytes of size,
\* and the tags.
Written(ts) ==
    LET written[i \in 0 .. Len(ts)] ==
            IF i = 0 THEN Zeros(13) ELSE written[i - 1] \o TagBytes(ts[i])
    IN  written

FlvBytes(ts) == Written(ts)[Len(ts)]

-----------------------------------------------------------------------------
(* The parser *)

\* A size of three bytes.
Size24(high, middle, low) == high * 65536 + middle * 256 + low

\* An AVC sequence header, or an enhanced-FLV SequenceStart.
IsSequenceHeader(first, second) ==
    IF first < 128 THEN first = 23 /\ second = 0 ELSE first % 16 = 0

\* Faulty variant: the size at the end of a tag is not counted.
FlvSeqHdrEndShort(data) ==
    LET scan[pos \in 0 .. Len(data)] ==
          LET size   == Size24(data[pos + 2], data[pos + 3], data[pos + 4])
              tagEnd == pos + 11 + size
          IN  IF pos + 11 > Len(data) \/ tagEnd > Len(data) THEN None
              ELSE IF /\ data[pos + 1] = 9
                      /\ size >= 2
                      /\ IsSequenceHeader(data[pos + 12], data[pos + 13])
                   THEN tagEnd
                   ELSE scan[tagEnd]
    IN  IF Len(data) < 13 THEN None ELSE scan[13]

\* The offset behind the first complete sequence header tag, or None.  Offsets
\* count from 0, as in the code.
FlvSeqHdrEnd(data) ==
    LET scan[pos \in 0 .. Len(data)] ==
          LET size   == Size24(data[pos + 2], data[pos + 3], data[pos + 4])
              tagEnd == pos + 11 + size + 4
          IN  IF pos + 11 > Len(data) \/ tagEnd > Len(data) THEN None
              ELSE IF /\ data[pos + 1] = 9
                      /\ size >= 2
                      /\ IsSequenceHeader(data[pos + 12], data[pos + 13])
                   THEN tagEnd
                   ELSE scan[tagEnd]
    IN  IF Len(data) < 13 THEN None ELSE scan[13]

-----------------------------------------------------------------------------
(* The relay task *)

FlvInit ==
    /\ mpegts \in BOOLEAN
    /\ tags \in Output
    /\ read = 0
    /\ init_cache = <<>>
    /\ init_complete = mpegts

\* Faulty variant: the cache is frozen with the whole chunk.
ReadChunkUncut(n) ==
    LET cache == init_cache \o SubSeq(FlvBytes(tags), read + 1, read + n)
    IN  /\ read + n <= Len(FlvBytes(tags))
        /\ read' = read + n
        /\ IF init_complete
           THEN UNCHANGED <<init_cache, init_complete>>
           ELSE /\ init_cache' = cache
                /\ init_complete' = (FlvSeqHdrEnd(cache) # None)
        /\ UNCHANGED <<mpegts, tags>>

\* One read of the pipe.
ReadChunk(n) ==
    LET data  == SubSeq(FlvBytes(tags), read + 1, read + n)
        cache == init_cache \o data
        end   == FlvSeqHdrEnd(cache)
    IN  /\ read + n <= Len(FlvBytes(tags))
        /\ read' = read + n
        /\ IF init_complete
           THEN UNCHANGED <<init_cache, init_complete>>
           ELSE /\ init_cache' = IF end = None THEN cache ELSE SubSeq(cache, 1, end)
                /\ init_complete' = (end # None)
        /\ UNCHANGED <<mpegts, tags>>

FlvNext == \E n \in ChunkSize : ReadChunk(n)

FlvSpec == FlvInit /\ [][FlvNext]_flvVars

-----------------------------------------------------------------------------
(* Properties *)

IsHeaderTag(t) ==
    t.type = 9 /\ Len(t.payload) >= 2 /\ IsSequenceHeader(t.payload[1], t.payload[2])

HasHeader == \E i \in DOMAIN tags : IsHeaderTag(tags[i])

\* Where the first sequence header ends, read off the tags and not off the bytes.
HeaderEnd ==
    LET first == CHOOSE i \in DOMAIN tags :
                   IsHeaderTag(tags[i]) /\ \A j \in 1 .. i - 1 : ~IsHeaderTag(tags[j])
    IN  Len(Written(tags)[first])

\* However the pipe cuts the output, the relay freezes the cache with the very
\* chunk that completes the sequence header tag, not before and not after.
HeaderIsFound ==
    ~mpegts => (init_complete <=> HasHeader /\ read >= HeaderEnd)

\* The frozen cache is the output up to the end of the sequence header and holds no
\* frame behind it; before, it is everything read; for MPEG-TS it stays empty.
CacheIsHeader ==
    init_cache = IF mpegts THEN <<>>
                 ELSE SubSeq(FlvBytes(tags), 1, IF init_complete THEN HeaderEnd ELSE read)

=============================================================================
