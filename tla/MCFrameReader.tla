--------------------------- MODULE MCFrameReader ---------------------------
(***************************************************************************)
(* Streams of up to MaxFrames frames followed by a remainder, for TLC.     *)
(***************************************************************************)
EXTENDS FrameReader

CONSTANT MaxFrames

LOCAL SE == INSTANCE SequencesExt

\* Bodies that are empty, short, as long as MAX_LENGTH allows, and one that
\* looks like a header.
Bodies == {<<>>, <<7>>, <<0, 1, 0, 1>>, <<11, 12, 13, 14, 15>>}

EncodeHead(id, len) == IF WithId THEN SendNodeHead(id, len) ELSE EncodeShort(len)

EncodeFrame(id, body) == EncodeHead(id, Len(body)) \o body

\* Remainders: none, pieces of a header or of a body, an id or a length that
\* is too large, lengths that are negative as a short: -1 and one below.
Tails == {<<>>, SubSeq(EncodeHead(0, 1), 1, HeadLen - 1), EncodeHead(2, 3) \o <<9>>,
          EncodeHead(1, MAX_LENGTH + 1), EncodeHead(1, -32768) \o <<5>>,
          EncodeHead(1, -1) \o <<5, 6, 7>>}
         \cup (IF WithId THEN {EncodeHead(MAX_LENGTH + 1, 0) \o <<3>>} ELSE {})

FrameIds  == IF WithId THEN {2, -3} ELSE {0}
FrameSeqs == UNION {[1 .. n -> FrameIds \X Bodies] : n \in 0 .. MaxFrames}

StreamOf(fs, tail) ==
  LET enc == [i \in DOMAIN fs |-> EncodeFrame(fs[i][1], fs[i][2])]
      upTo(n) == SE!FlattenSeq(SubSeq(enc, 1, n))
  IN  [bytes |-> upTo(Len(fs)) \o tail,
       start |-> <<0>> \o [n \in 1 .. Len(fs) |-> Len(upTo(n))]]

MCStreams == {StreamOf(fs, tail) : fs \in FrameSeqs, tail \in Tails}
=============================================================================
