------------------------------- MODULE Codec -------------------------------
(***************************************************************************)
(* internal/proto/codec.go below the level of frames: Encode and           *)
(* WriteChunk as writes to a bufio.Writer, whose overflow cuts frames in   *)
(* two, and Decode over the stream that comes out of it.  A cell stands    *)
(* for one field or one unit of payload; the length fields of a chunk keep *)
(* their finite width.                                                     *)
(***************************************************************************)
EXTENDS Integers, Sequences

CONSTANTS
  Scripts,     \* what the encoder may be asked to send: sequences of frames
  BufSize,     \* cells in the bufio.Writer
  PathRange,   \* 2^16: values of the path length field
  DataRange    \* 2^32: values of the data length field

Cell == Nat

(* The type byte. *)
CONTROL   == 1
DATACHUNK == 2

Chunk(p, o, d, l) == [type |-> DATACHUNK, path |-> p, offset |-> o, data |-> d, last |-> l]
Control(b)        == [type |-> CONTROL, body |-> b]

Frame ==
  [type : {DATACHUNK}, path : Seq(Cell), offset : Cell, data : Seq(Cell), last : 0..1]
    \cup [type : {CONTROL}, body : Seq(Cell)]

ASSUME CodecAssumption ==
  /\ Scripts \subseteq Seq(Frame)
  /\ BufSize \in Nat \ {0}
  /\ PathRange \in Nat \ {0}
  /\ DataRange \in Nat \ {0}

VARIABLES
  script,    \* frames still to be encoded
  pieces,    \* writes left of the frame being encoded
  flushes,   \* whether that frame ends with a Flush
  buf,       \* the bufio.Writer's cells
  wire,      \* cells written to the connection, not yet decoded
  encoded,   \* history: frames begun
  decoded    \* history: frames decoded

vars == <<script, pieces, flushes, buf, wire, encoded, decoded>>

Init ==
  /\ script \in Scripts
  /\ pieces = <<>>
  /\ flushes = FALSE
  /\ buf = <<>> /\ wire = <<>>
  /\ encoded = <<>> /\ decoded = <<>>

-----------------------------------------------------------------------------
(* bufio.Writer.Write: what does not fit fills the buffer and pushes it     *)
(* out; what would not even fit in an empty buffer goes out directly.       *)
Drop(s, k) == SubSeq(s, k + 1, Len(s))

Avail == BufSize - Len(buf)

Pushed(p) ==
  IF Len(p) <= Avail THEN <<>>
  ELSE IF buf = <<>> \/ Len(p) - Avail > BufSize THEN buf \o p
  ELSE buf \o SubSeq(p, 1, Avail)

Kept(p) ==
  IF Len(p) <= Avail THEN buf \o p
  ELSE IF buf = <<>> \/ Len(p) - Avail > BufSize THEN <<>>
  ELSE Drop(p, Avail)

-----------------------------------------------------------------------------
(* The writes of Encode (the type byte, then gob's length and payload) and  *)
(* of WriteChunk (six of them).  Conversions to uint16 and uint32 wrap.     *)
PiecesUnmarked(f) ==                       \* Mutant: the last byte is left out
  IF f.type = CONTROL
  THEN << <<CONTROL>>, <<Len(f.body)>> \o f.body >>
  ELSE << <<DATACHUNK>>, <<Len(f.path) % PathRange>>, f.path,
          <<f.offset, Len(f.data) % DataRange>>, f.data >>

Pieces(f) ==
  IF f.type = CONTROL
  THEN << <<CONTROL>>, <<Len(f.body)>> \o f.body >>
  ELSE << <<DATACHUNK>>, <<Len(f.path) % PathRange>>, f.path,
          <<f.offset, Len(f.data) % DataRange>>, f.data, <<f.last>> >>

BeginFrame ==
  /\ pieces = <<>> /\ ~flushes /\ script # <<>>
  /\ pieces' = Pieces(Head(script))
  /\ flushes' = (Head(script).type = CONTROL)
  /\ encoded' = Append(encoded, Head(script))
  /\ script' = Tail(script)
  /\ UNCHANGED <<buf, wire, decoded>>

Write ==
  /\ pieces # <<>>
  /\ LET p == Head(pieces) IN
     /\ wire' = wire \o Pushed(p)
     /\ buf' = Kept(p)
  /\ pieces' = Tail(pieces)
  /\ UNCHANGED <<script, flushes, encoded, decoded>>

FlushSkipped ==                            \* Mutant: Encode does not flush
  /\ pieces = <<>> /\ flushes
  /\ flushes' = FALSE
  /\ UNCHANGED <<script, pieces, buf, wire, encoded, decoded>>

Flush ==
  /\ pieces = <<>> /\ flushes
  /\ wire' = wire \o buf
  /\ buf' = <<>>
  /\ flushes' = FALSE
  /\ UNCHANGED <<script, pieces, encoded, decoded>>

-----------------------------------------------------------------------------
(* Decode: the cells of the first frame on the wire.  It waits for all of   *)
(* them, however the stream is cut; at an unknown type byte it fails.       *)
PathLen   == wire[2]
OffsetAt  == PathLen + 3                   \* Mutant: of the length of the data
DataLenAt == PathLen + 4
DataLen   == wire[DataLenAt]

WholeControl ==
  Len(wire) >= 2 /\ wire[1] = CONTROL /\ Len(wire) >= 2 + wire[2]

WholeChunk ==
  /\ Len(wire) >= 2 /\ wire[1] = DATACHUNK
  /\ Len(wire) >= DataLenAt
  /\ Len(wire) >= DataLenAt + DataLen + 1

Decode ==
  /\ \/ /\ WholeControl
        /\ decoded' = Append(decoded, Control(SubSeq(wire, 3, 2 + wire[2])))
        /\ wire' = Drop(wire, 2 + wire[2])
     \/ /\ WholeChunk
        /\ decoded' = Append(decoded,
             Chunk(SubSeq(wire, 3, 2 + PathLen), wire[PathLen + 3],
                   SubSeq(wire, DataLenAt + 1, DataLenAt + DataLen),
                   IF wire[DataLenAt + DataLen + 1] = 1 THEN 1 ELSE 0))
        /\ wire' = Drop(wire, DataLenAt + DataLen + 1)
  /\ UNCHANGED <<script, pieces, flushes, buf, encoded>>

Finished ==
  /\ script = <<>> /\ pieces = <<>> /\ ~flushes
  /\ UNCHANGED vars

Next == BeginFrame \/ Write \/ Flush \/ Decode \/ Finished

Spec == Init /\ [][Next]_vars

FairSpec == Spec /\ WF_vars(BeginFrame \/ Write \/ Flush) /\ WF_vars(Decode)

-----------------------------------------------------------------------------
TypeOK ==
  /\ script \in Seq(Frame)
  /\ pieces \in Seq(Seq(Cell))
  /\ flushes \in BOOLEAN
  /\ buf \in Seq(Cell) /\ Len(buf) <= BufSize
  /\ wire \in Seq(Cell)
  /\ encoded \in Seq(Frame) /\ decoded \in Seq(Frame)

Fits(f) ==
  f.type = DATACHUNK => Len(f.path) < PathRange /\ Len(f.data) < DataRange

AllFit == \A i \in 1..Len(encoded) : Fits(encoded[i])

(* What is decoded is what was encoded, frame by frame and in order, across *)
(* every way a full buffer cuts the stream, up to the first chunk whose     *)
(* path or data is too long for its length field: nothing checks that one.  *)
DecodesWhatWasEncoded ==
  /\ AllFit => Len(decoded) <= Len(encoded)
  /\ \A i \in 1..Len(decoded) :
       i <= Len(encoded) /\ (\A j \in 1..i : Fits(encoded[j]))
         => decoded[i] = encoded[i]

(* A flush never leaves the reader with half a frame: once a control frame  *)
(* is out, everything encoded so far can be decoded without another write.  *)
FlushCompletesFrames ==
  AllFit /\ buf = <<>> /\ pieces = <<>> /\ wire # <<>> => WholeControl \/ WholeChunk

(* The frames before a control frame, and that frame, arrive.               *)
ControlArrives ==
  \A k \in 1..3 :
    (Len(encoded) >= k /\ encoded[k].type = CONTROL)
      ~> (AllFit => Len(decoded) >= k)
=============================================================================
