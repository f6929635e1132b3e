----------------------------- MODULE CodecProofs -----------------------------
(***************************************************************************)
(* What the codec promises, proved for any frames, any size of the buffer  *)
(* and any width of the length fields.                                     *)
(***************************************************************************)
EXTENDS Codec, SequenceTheorems, TLAPS

(* The writes that are left of a frame, at most six, put together. *)
Piece(ps, i) == IF i <= Len(ps) THEN ps[i] ELSE <<>>

Joined(ps) ==
  Piece(ps, 1) \o (Piece(ps, 2) \o (Piece(ps, 3) \o
    (Piece(ps, 4) \o (Piece(ps, 5) \o Piece(ps, 6)))))

(* Every cell between the encoder and the decoder, in order. *)
Stream == wire \o (buf \o Joined(pieces))

(* A frame lies in a sequence of cells from place a on. *)
Size(f) ==
  IF f.type = CONTROL THEN 2 + Len(f.body) ELSE Len(f.path) + Len(f.data) + 5

LiesAt(s, a, f) ==
  IF f.type = CONTROL
  THEN /\ s[a] = CONTROL /\ s[a + 1] = Len(f.body)
       /\ \A j \in 1..Len(f.body) : s[a + 1 + j] = f.body[j]
  ELSE LET p == Len(f.path)  d == Len(f.data) IN
       /\ s[a] = DATACHUNK /\ s[a + 1] = p
       /\ \A j \in 1..p : s[a + 1 + j] = f.path[j]
       /\ s[a + p + 2] = f.offset /\ s[a + p + 3] = d
       /\ \A j \in 1..d : s[a + p + 3 + j] = f.data[j]
       /\ s[a + p + d + 4] = f.last

FitUpTo(n) == \A j \in 1..n : Fits(encoded[j])

(* The frames not yet decoded lie one after the other on the stream, up to  *)
(* the first that does not fit, and nothing else does if all fit.           *)
Places(at) ==
  /\ at[Len(decoded) + 1] = 1
  /\ \A n \in Len(decoded) + 1..Len(encoded) :
       FitUpTo(n) =>
         /\ at[n] >= 1 /\ at[n + 1] = at[n] + Size(encoded[n])
         /\ at[n + 1] <= Len(Stream) + 1
         /\ LiesAt(Stream, at[n], encoded[n])
         /\ \A m \in Len(decoded) + 1..n : at[m] + Size(encoded[m]) <= at[n + 1]
  /\ AllFit => at[Len(encoded) + 1] = Len(Stream) + 1

(* The frame the decoder must take next, if there is one that fits. *)
Waits(d, f) ==
  d = Len(decoded) /\ d + 1 \in 1..Len(encoded) /\ FitUpTo(d + 1) /\ f = encoded[d + 1]

StreamInv == \E at \in [Nat -> Int] : Places(at)

CodecInv ==
  /\ TypeOK /\ Len(pieces) <= 6
  /\ StreamInv /\ DecodesWhatWasEncoded
-----------------------------------------------------------------------------
(* Joining cells is associative. *)
LEMMA CellsAssociate ==
  ASSUME NEW s \in Seq(Cell), NEW t \in Seq(Cell), NEW u \in Seq(Cell)
  PROVE  (s \o t) \o u = s \o (t \o u)
BY ConcatAssociative

(* At most six pieces join to a sequence of cells. *)
LEMMA JoinedType ==
  ASSUME NEW ps \in Seq(Seq(Cell))
  PROVE  /\ \A i \in 1..6 : Piece(ps, i) \in Seq(Cell)
         /\ Joined(ps) \in Seq(Cell)
<1>1. Len(ps) \in Nat
  BY LenProperties
<1>2. \A i \in 1..6 : Piece(ps, i) \in Seq(Cell)
  BY <1>1, ElementOfSeq, EmptySeq DEF Piece
<1> QED
  BY <1>2, ConcatProperties DEF Joined

(* Taking a piece away takes it away from the front. *)
LEMMA JoinedTail ==
  ASSUME NEW ps \in Seq(Seq(Cell)), ps # <<>>, Len(ps) <= 6
  PROVE  /\ Head(ps) \in Seq(Cell) /\ Tail(ps) \in Seq(Seq(Cell))
         /\ Len(Tail(ps)) <= 6
         /\ Joined(ps) = Head(ps) \o Joined(Tail(ps))
<1>1. /\ Head(ps) \in Seq(Cell) /\ Tail(ps) \in Seq(Seq(Cell))
      /\ Len(Tail(ps)) = Len(ps) - 1 /\ Len(ps) \in Nat \ {0}
      /\ \A i \in 1..Len(Tail(ps)) : Tail(ps)[i] = ps[i + 1]
  BY HeadTailProperties, EmptySeq
<1>2. Head(ps) = Piece(ps, 1)
  BY <1>1 DEF Piece
<1>3. /\ Piece(Tail(ps), 1) = Piece(ps, 2) /\ Piece(Tail(ps), 2) = Piece(ps, 3)
      /\ Piece(Tail(ps), 3) = Piece(ps, 4) /\ Piece(Tail(ps), 4) = Piece(ps, 5)
      /\ Piece(Tail(ps), 5) = Piece(ps, 6) /\ Piece(Tail(ps), 6) = <<>>
  BY <1>1 DEF Piece
<1>4. Piece(ps, 6) \o <<>> = Piece(ps, 6)
  BY JoinedType, ConcatEmptySeq
<1>5. Joined(Tail(ps)) = Piece(ps, 2) \o (Piece(ps, 3) \o (Piece(ps, 4) \o
                           (Piece(ps, 5) \o Piece(ps, 6))))
  BY <1>3, <1>4, Zenon DEF Joined
<1>6. Joined(ps) = Head(ps) \o Joined(Tail(ps))
  BY <1>2, <1>5, Zenon DEF Joined
<1>7. Len(Tail(ps)) <= 6
  BY <1>1
<1> QED
  BY <1>1, <1>6, <1>7

(* A write is pushed out or kept, cell by cell. *)
LEMMA WriteKeepsCells ==
  ASSUME TypeOK, NEW p \in Seq(Cell)
  PROVE  /\ Pushed(p) \in Seq(Cell) /\ Kept(p) \in Seq(Cell)
         /\ Len(Kept(p)) <= BufSize
         /\ Pushed(p) \o Kept(p) = buf \o p
<1>1. /\ buf \in Seq(Cell) /\ Len(buf) \in Nat /\ Len(p) \in Nat
      /\ BufSize \in Nat \ {0} /\ Len(buf) <= BufSize
      /\ buf \o p \in Seq(Cell) /\ Len(buf \o p) = Len(buf) + Len(p)
  BY CodecAssumption, LenProperties, ConcatProperties DEF TypeOK
<1>2. CASE Len(p) <= Avail
  BY <1>1, <1>2, EmptySeq, ConcatEmptySeq DEF Pushed, Kept, Avail
<1>3. CASE ~ (Len(p) <= Avail) /\ (buf = <<>> \/ Len(p) - Avail > BufSize)
  <2>1. Pushed(p) = buf \o p /\ Kept(p) = <<>>
    BY <1>3 DEF Pushed, Kept
  <2>2. <<>> \in Seq(Cell) /\ Len(<<>>) = 0 /\ (buf \o p) \o <<>> = buf \o p
    BY <1>1, EmptySeq, ConcatEmptySeq
  <2> QED
    BY <1>1, <2>1, <2>2
<1>4. CASE ~ (Len(p) <= Avail) /\ ~ (buf = <<>> \/ Len(p) - Avail > BufSize)
  <2> DEFINE a == Avail
  <2>1. a \in 0..Len(p) /\ Len(p) - a <= BufSize /\ a < Len(p)
    BY <1>1, <1>4 DEF Avail
  <2>2. /\ Pushed(p) = buf \o SubSeq(p, 1, a)
        /\ Kept(p) = SubSeq(p, a + 1, Len(p))
    BY <1>4 DEF Pushed, Kept, Drop
  <2>3. \A i \in 1..Len(p) : p[i] \in Cell
    BY ElementOfSeq
  <2>4. SubSeq(p, 1, a) \in Seq(Cell)
    BY <1>1, <2>1, <2>3, SubSeqProperties
  <2>5. /\ SubSeq(p, a + 1, Len(p)) \in Seq(Cell)
        /\ Len(SubSeq(p, a + 1, Len(p))) = Len(p) - a
    <3>1. \A i \in a + 1..Len(p) : p[i] \in Cell
      BY <1>1, <2>1, <2>3
    <3>2. a + 1 \in Int /\ Len(p) \in Int /\ a + 1 <= Len(p)
      BY <1>1, <2>1
    <3> HIDE DEF a
    <3> QED
      BY <1>1, <2>1, <3>1, <3>2, SubSeqProperties
  <2>6. SubSeq(p, 1, a) \o SubSeq(p, a + 1, Len(p)) = p
    <3>1. /\ 1 \in 1..Len(p) + 1 /\ a \in 1 - 1..Len(p) /\ Len(p) \in a..Len(p)
      BY <1>1, <2>1
    <3>2. SubSeq(p, 1, Len(p)) = p
      BY SubSeqFull
    <3> QED
      BY <3>1, <3>2, ConcatAdjacentSubSeq
  <2>7. (buf \o SubSeq(p, 1, a)) \o SubSeq(p, a + 1, Len(p))
          = buf \o (SubSeq(p, 1, a) \o SubSeq(p, a + 1, Len(p)))
    BY <1>1, <2>4, <2>5, CellsAssociate, Zenon
  <2>8. buf \o SubSeq(p, 1, a) \in Seq(Cell)
    BY <1>1, <2>4, ConcatProperties
  <2> HIDE DEF a
  <2> QED
    BY <1>1, <2>1, <2>2, <2>5, <2>6, <2>7, <2>8
<1> QED
  BY <1>2, <1>3, <1>4
-----------------------------------------------------------------------------
(* A length field keeps what is below its range, and is a cell. *)
LEMMA Widths ==
  /\ PathRange \in Nat \ {0} /\ DataRange \in Nat \ {0}
  /\ CONTROL = 1 /\ DATACHUNK = 2 /\ CONTROL \in Cell /\ DATACHUNK \in Cell
  /\ \A n \in Nat : n % PathRange \in Cell /\ n % DataRange \in Cell
  /\ \A n \in Nat : n < PathRange => n % PathRange = n
  /\ \A n \in Nat : n < DataRange => n % DataRange = n
BY CodecAssumption DEF CONTROL, DATACHUNK, Cell

(* Where the cells of two sequences are once they are joined. *)
LEMMA Joining ==
  ASSUME NEW s \in Seq(Cell), NEW t \in Seq(Cell)
  PROVE  /\ Len(s) \in Nat /\ Len(t) \in Nat
         /\ s \o t \in Seq(Cell) /\ Len(s \o t) = Len(s) + Len(t)
         /\ \A j \in 1..Len(s) : (s \o t)[j] = s[j]
         /\ \A j \in 1..Len(t) : (s \o t)[Len(s) + j] = t[j]
<1>1. Len(s) \in Nat /\ Len(t) \in Nat
  BY LenProperties
<1>2. /\ s \o t \in Seq(Cell) /\ Len(s \o t) = Len(s) + Len(t)
      /\ \A i \in 1..Len(s) + Len(t) :
           (s \o t)[i] = IF i <= Len(s) THEN s[i] ELSE t[i - Len(s)]
  BY ConcatProperties
<1>3. \A j \in 1..Len(s) : (s \o t)[j] = s[j]
  BY <1>1, <1>2
<1>4. \A j \in 1..Len(t) : (s \o t)[Len(s) + j] = t[j]
  BY <1>1, <1>2
<1> QED
  BY <1>1, <1>2, <1>3, <1>4

(* A sequence of one cell. *)
LEMMA OneCell ==
  ASSUME NEW c \in Cell
  PROVE  <<c>> \in Seq(Cell) /\ Len(<<c>>) = 1 /\ <<c>>[1] = c
OBVIOUS

(* A frame is a control frame or a chunk, and has a length. *)
LEMMA FrameFacts ==
  ASSUME NEW f \in Frame
  PROVE  /\ Size(f) \in Nat /\ Size(f) >= 2
         /\ f.type = CONTROL =>
              /\ f.body \in Seq(Cell) /\ Len(f.body) \in Cell
              /\ Size(f) = 2 + Len(f.body) /\ f = Control(f.body)
         /\ f.type # CONTROL =>
              /\ f.type = DATACHUNK /\ f.path \in Seq(Cell) /\ f.data \in Seq(Cell)
              /\ f.offset \in Cell /\ f.last \in {0, 1} /\ f.last \in Cell
              /\ Len(f.path) \in Cell /\ Len(f.data) \in Cell
              /\ Size(f) = Len(f.path) + Len(f.data) + 5
              /\ f = Chunk(f.path, f.offset, f.data, f.last)
<1>1. CASE f.type = CONTROL
  <2>1. f \in [type : {CONTROL}, body : Seq(Cell)]
    BY <1>1 DEF Frame, CONTROL, DATACHUNK
  <2>2. f.body \in Seq(Cell) /\ Len(f.body) \in Nat
    BY <2>1, LenProperties
  <2>3. f = Control(f.body)
    BY <1>1, <2>1 DEF Control
  <2> QED
    BY <1>1, <2>2, <2>3 DEF Size, Cell
<1>2. CASE f.type # CONTROL
  <2>1. f \in [type : {DATACHUNK}, path : Seq(Cell), offset : Cell, data : Seq(Cell),
               last : 0..1]
    BY <1>2 DEF Frame
  <2>2. /\ f.path \in Seq(Cell) /\ f.data \in Seq(Cell) /\ f.type = DATACHUNK
        /\ f.offset \in Cell /\ f.last \in {0, 1}
    BY <2>1
  <2>3. Len(f.path) \in Nat /\ Len(f.data) \in Nat
    BY <2>2, LenProperties
  <2>4. f = Chunk(f.path, f.offset, f.data, f.last)
    BY <2>1 DEF Chunk
  <2>5. Size(f) = Len(f.path) + Len(f.data) + 5
    BY <1>2 DEF Size
  <2>6. Size(f) \in Nat /\ Size(f) >= 2
    <3>1. \A x, y \in Nat : x + y + 5 \in Nat /\ x + y + 5 >= 2
      OBVIOUS
    <3> QED
      BY <2>3, <2>5, <3>1, Zenon
  <2>6a. f.last \in Nat
    BY <2>2
  <2>7. f.last \in Cell /\ Len(f.path) \in Cell /\ Len(f.data) \in Cell
    BY <2>3, <2>6a DEF Cell
  <2> QED
    BY <1>2, <2>2, <2>4, <2>5, <2>6, <2>7
<1> QED
  BY <1>1, <1>2

(* What a frame that fits puts on the stream is that frame, from end to end. *)
LEMMA ControlPieces ==
  ASSUME NEW f \in Frame, f.type = CONTROL
  PROVE  LET ps == Pieces(f) IN
           /\ ps \in Seq(Seq(Cell)) /\ ps # <<>> /\ Len(ps) <= 6
           /\ Len(Joined(ps)) = Size(f) /\ LiesAt(Joined(ps), 1, f)
<1> DEFINE ps == Pieces(f)
           head == <<CONTROL>>
           body == <<Len(f.body)>> \o f.body
<1>1. /\ f.body \in Seq(Cell) /\ Len(f.body) \in Nat /\ Size(f) = 2 + Len(f.body)
  BY FrameFacts DEF Cell
<1>2. head \in Seq(Cell) /\ Len(head) = 1 /\ head[1] = CONTROL
  BY Widths
<1>3. <<Len(f.body)>> \in Seq(Cell) /\ Len(<<Len(f.body)>>) = 1
  BY <1>1 DEF Cell
<1>4. /\ body \in Seq(Cell) /\ Len(body) = 1 + Len(f.body)
      /\ body[1] = Len(f.body)
      /\ \A j \in 1..Len(f.body) : body[1 + j] = f.body[j]
  BY <1>1, <1>3, ConcatProperties
<1>5. ps = << head, body >>
  BY DEF Pieces
<1> HIDE DEF head, body, ps
<1>6. ps \in Seq(Seq(Cell)) /\ Len(ps) = 2 /\ ps # <<>>
  BY <1>2, <1>4, <1>5
<1>7. /\ Piece(ps, 1) = head /\ Piece(ps, 2) = body /\ Piece(ps, 3) = <<>>
      /\ Piece(ps, 4) = <<>> /\ Piece(ps, 5) = <<>> /\ Piece(ps, 6) = <<>>
  BY <1>5, <1>6 DEF Piece
<1>8. <<>> \o <<>> = <<>> /\ body \o <<>> = body
  BY <1>4, EmptySeq, ConcatEmptySeq
<1>9. Joined(ps) = head \o body
  BY <1>7, <1>8, Zenon DEF Joined
<1>10. /\ Len(head \o body) = 2 + Len(f.body)
       /\ (head \o body)[1] = CONTROL /\ (head \o body)[2] = Len(f.body)
       /\ \A j \in 1..Len(f.body) : (head \o body)[2 + j] = f.body[j]
  <2>1. /\ Len(head \o body) = Len(head) + Len(body)
        /\ \A j \in 1..Len(head) : (head \o body)[j] = head[j]
        /\ \A j \in 1..Len(body) : (head \o body)[Len(head) + j] = body[j]
    BY <1>2, <1>4, Joining, Zenon
  <2> DEFINE s == head \o body
  <2> HIDE DEF s
  <2>2. /\ Len(s) = 2 + Len(f.body) /\ s[1] = CONTROL /\ s[1 + 1] = Len(f.body)
        /\ \A j \in 1..Len(f.body) : s[1 + (1 + j)] = f.body[j]
    BY <1>1, <1>2, <1>4, <2>1 DEF s
  <2> QED
    BY <1>1, <2>2 DEF s
<1>11. LiesAt(head \o body, 1, f)
  BY <1>1, <1>10 DEF LiesAt
<1> QED
  BY <1>1, <1>6, <1>9, <1>10, <1>11 DEF ps

(* The same for a chunk, if its path and data fit their fields. *)
LEMMA ChunkPieces ==
  ASSUME NEW f \in Frame, f.type # CONTROL
  PROVE  LET ps == Pieces(f) IN
           /\ ps \in Seq(Seq(Cell)) /\ ps # <<>> /\ Len(ps) <= 6
           /\ Fits(f) => Len(Joined(ps)) = Size(f) /\ LiesAt(Joined(ps), 1, f)
<1> DEFINE ps == Pieces(f)
           p == Len(f.path)
           d == Len(f.data)
           c1 == <<DATACHUNK>>
           c2 == <<p % PathRange>>
           c3 == f.path
           c4 == <<f.offset, d % DataRange>>
           c5 == f.data
           c6 == <<f.last>>
<1>1. /\ c3 \in Seq(Cell) /\ c5 \in Seq(Cell) /\ f.offset \in Cell /\ f.last \in Cell
      /\ p \in Nat /\ d \in Nat /\ Size(f) = p + d + 5 /\ f.type = DATACHUNK
  BY FrameFacts DEF Cell
<1>2. p % PathRange \in Cell /\ d % DataRange \in Cell
  BY <1>1, Widths
<1>3. /\ c1 \in Seq(Cell) /\ Len(c1) = 1 /\ c1[1] = DATACHUNK
      /\ c2 \in Seq(Cell) /\ Len(c2) = 1 /\ c2[1] = p % PathRange
      /\ c6 \in Seq(Cell) /\ Len(c6) = 1 /\ c6[1] = f.last
  BY <1>1, <1>2, Widths, OneCell, Zenon
<1>4. /\ c4 \in Seq(Cell) /\ Len(c4) = 2 /\ c4[1] = f.offset /\ c4[2] = d % DataRange
  BY <1>1, <1>2
<1>5. ps = << c1, c2, c3, c4, c5, c6 >>
  BY DEF Pieces
<1>6. Fits(f) => p % PathRange = p /\ d % DataRange = d
  BY <1>1, Widths DEF Fits
<1>6a. Len(c3) = p /\ Len(c5) = d
  OBVIOUS
<1> HIDE DEF ps, c1, c2, c4, c6
<1>7. ps \in Seq(Seq(Cell)) /\ Len(ps) = 6 /\ ps # <<>>
  BY <1>1, <1>3, <1>4, <1>5
<1>8. /\ Piece(ps, 1) = c1 /\ Piece(ps, 2) = c2 /\ Piece(ps, 3) = c3
      /\ Piece(ps, 4) = c4 /\ Piece(ps, 5) = c5 /\ Piece(ps, 6) = c6
  BY <1>5, <1>7 DEF Piece
<1> DEFINE j5 == c5 \o c6
           j4 == c4 \o j5
           j3 == c3 \o j4
           j2 == c2 \o j3
           j1 == c1 \o j2
<1>9. Joined(ps) = j1
  BY <1>8, Zenon DEF Joined
<1> HIDE DEF j1, j2, j3, j4, j5, c3, c5, p, d
<1>10. /\ j5 \in Seq(Cell) /\ Len(j5) = d + 1 /\ j5[d + 1] = f.last
       /\ \A j \in 1..d : j5[j] = c5[j]
  <2>1. /\ j5 \in Seq(Cell) /\ Len(j5) = Len(c5) + Len(c6)
        /\ \A j \in 1..Len(c5) : j5[j] = c5[j]
        /\ \A j \in 1..Len(c6) : j5[Len(c5) + j] = c6[j]
    BY <1>1, <1>3, <1>6a, Joining, Zenon DEF j5
  <2> QED
    BY <1>1, <1>3, <1>6a, <2>1
<1>11. /\ j4 \in Seq(Cell) /\ Len(j4) = d + 3
       /\ j4[1] = f.offset /\ j4[2] = d % DataRange
       /\ \A j \in 1..d + 1 : j4[2 + j] = j5[j]
  <2>1. /\ j4 \in Seq(Cell) /\ Len(j4) = Len(c4) + Len(j5)
        /\ \A j \in 1..Len(c4) : j4[j] = c4[j]
        /\ \A j \in 1..Len(j5) : j4[Len(c4) + j] = j5[j]
    BY <1>1, <1>4, <1>10, Joining, Zenon DEF j4
  <2> QED
    BY <1>1, <1>4, <1>10, <2>1
<1>12. /\ j3 \in Seq(Cell) /\ Len(j3) = p + d + 3
       /\ \A j \in 1..p : j3[j] = c3[j]
       /\ \A j \in 1..d + 3 : j3[p + j] = j4[j]
  <2>1. /\ j3 \in Seq(Cell) /\ Len(j3) = Len(c3) + Len(j4)
        /\ \A j \in 1..Len(c3) : j3[j] = c3[j]
        /\ \A j \in 1..Len(j4) : j3[Len(c3) + j] = j4[j]
    BY <1>1, <1>6a, <1>11, Joining, Zenon DEF j3
  <2> QED
    BY <1>1, <1>6a, <1>11, <2>1
<1>13. /\ j2 \in Seq(Cell) /\ Len(j2) = p + d + 4 /\ j2[1] = p % PathRange
       /\ \A j \in 1..p + d + 3 : j2[1 + j] = j3[j]
  <2>1. /\ j2 \in Seq(Cell) /\ Len(j2) = Len(c2) + Len(j3)
        /\ \A j \in 1..Len(c2) : j2[j] = c2[j]
        /\ \A j \in 1..Len(j3) : j2[Len(c2) + j] = j3[j]
    BY <1>1, <1>3, <1>12, Joining, Zenon DEF j2
  <2> QED
    BY <1>1, <1>3, <1>12, <2>1
<1>14. /\ Len(j1) = p + d + 5 /\ j1[1] = DATACHUNK
       /\ \A j \in 1..p + d + 4 : j1[1 + j] = j2[j]
  <2>1. /\ j1 \in Seq(Cell) /\ Len(j1) = Len(c1) + Len(j2)
        /\ \A j \in 1..Len(c1) : j1[j] = c1[j]
        /\ \A j \in 1..Len(j2) : j1[Len(c1) + j] = j2[j]
    BY <1>1, <1>3, <1>13, Joining, Zenon DEF j1
  <2> QED
    BY <1>1, <1>3, <1>13, <2>1
<1>15. j1[2] = p % PathRange
  BY <1>1, <1>13, <1>14
<1>16. \A j \in 1..p + d + 3 : j1[2 + j] = j3[j]
  <2> TAKE j \in 1..p + d + 3
  <2>1. j1[1 + (1 + j)] = j2[1 + j]
    BY <1>1, <1>14
  <2> QED
    BY <1>1, <1>13, <2>1
<1>17. \A j \in 1..p : j1[2 + j] = c3[j]
  BY <1>1, <1>12, <1>16
<1>18. \A j \in 1..d + 3 : j1[p + 2 + j] = j4[j]
  <2> TAKE j \in 1..d + 3
  <2>1. j1[2 + (p + j)] = j3[p + j]
    BY <1>1, <1>16
  <2> QED
    BY <1>1, <1>12, <2>1
<1>19. j1[p + 3] = f.offset /\ j1[p + 4] = d % DataRange
  <2>1. j1[p + 2 + 1] = j4[1] /\ j1[p + 2 + 2] = j4[2]
    BY <1>1, <1>18
  <2> QED
    BY <1>1, <1>11, <2>1
<1>20. \A j \in 1..d + 1 : j1[p + 4 + j] = j5[j]
  <2> TAKE j \in 1..d + 1
  <2>1. j1[p + 2 + (2 + j)] = j4[2 + j]
    BY <1>1, <1>18
  <2> QED
    BY <1>1, <1>11, <2>1
<1>21. j1[p + d + 5] = f.last
  <2>1. j1[p + 4 + (d + 1)] = j5[d + 1]
    BY <1>1, <1>20
  <2> QED
    BY <1>1, <1>10, <2>1
<1>22. \A j \in 1..d : j1[p + 4 + j] = c5[j]
  BY <1>1, <1>10, <1>20
<1>23. ASSUME Fits(f) PROVE LiesAt(j1, 1, f)
  <2>1. /\ j1[1] = DATACHUNK /\ j1[2] = p
        /\ \A j \in 1..p : j1[2 + j] = c3[j]
        /\ j1[p + 3] = f.offset /\ j1[p + 4] = d
        /\ \A j \in 1..d : j1[p + 4 + j] = c5[j]
        /\ j1[p + d + 5] = f.last
    BY <1>6, <1>14, <1>15, <1>17, <1>19, <1>21, <1>22, <1>23
  <2>2. /\ 1 + 1 = 2 /\ 1 + p + 2 = p + 3 /\ 1 + p + 3 = p + 4 /\ 1 + p + d + 4 = p + d + 5
        /\ \A j \in 1..p : 1 + 1 + j = 2 + j
        /\ \A j \in 1..d : 1 + p + 3 + j = p + 4 + j
    BY <1>1
  <2> QED
    BY <2>1, <2>2 DEF LiesAt, p, d, c3, c5
<1> QED
  BY <1>1, <1>7, <1>9, <1>14, <1>23 DEF ps

(* The pieces of a frame, whatever its type. *)
LEMMA PiecesOf ==
  ASSUME NEW f \in Frame
  PROVE  LET ps == Pieces(f) IN
           /\ ps \in Seq(Seq(Cell)) /\ ps # <<>> /\ Len(ps) <= 6
           /\ Fits(f) => Len(Joined(ps)) = Size(f) /\ LiesAt(Joined(ps), 1, f)
BY ControlPieces, ChunkPieces
-----------------------------------------------------------------------------
(* A frame lies wherever its cells do. *)
LEMMA LiesElsewhere ==
  ASSUME NEW f \in Frame, NEW s, NEW t, NEW a \in Nat, NEW b \in Nat,
         \A j \in 0..Size(f) - 1 : t[b + j] = s[a + j],
         LiesAt(s, a, f)
  PROVE  LiesAt(t, b, f)
<1>1. CASE f.type = CONTROL
  <2>1. Len(f.body) \in Nat /\ Size(f) = 2 + Len(f.body)
    BY <1>1, FrameFacts DEF Cell
  <2>2. t[b] = s[a] /\ t[b + 1] = s[a + 1]
    <3>1. 0 \in 0..Size(f) - 1 /\ 1 \in 0..Size(f) - 1
      BY <2>1
    <3>2. t[b + 0] = s[a + 0] /\ t[b + 1] = s[a + 1]
      BY <3>1
    <3> QED
      BY <3>2
  <2>3. \A j \in 1..Len(f.body) : t[b + 1 + j] = s[a + 1 + j]
    <3> TAKE j \in 1..Len(f.body)
    <3>1. t[b + (1 + j)] = s[a + (1 + j)]
      BY <2>1
    <3> QED
      BY <2>1, <3>1
  <2> QED
    BY <1>1, <2>2, <2>3 DEF LiesAt
<1>2. CASE f.type # CONTROL
  <2> DEFINE p == Len(f.path)
             d == Len(f.data)
  <2>1. p \in Nat /\ d \in Nat /\ Size(f) = p + d + 5
    BY <1>2, FrameFacts DEF Cell
  <2>2. LiesAt(s, a, f) <=>
          /\ s[a] = DATACHUNK /\ s[a + 1] = p
          /\ \A j \in 1..p : s[a + 1 + j] = f.path[j]
          /\ s[a + p + 2] = f.offset /\ s[a + p + 3] = d
          /\ \A j \in 1..d : s[a + p + 3 + j] = f.data[j]
          /\ s[a + p + d + 4] = f.last
    BY <1>2 DEF LiesAt
  <2>3. LiesAt(t, b, f) <=>
          /\ t[b] = DATACHUNK /\ t[b + 1] = p
          /\ \A j \in 1..p : t[b + 1 + j] = f.path[j]
          /\ t[b + p + 2] = f.offset /\ t[b + p + 3] = d
          /\ \A j \in 1..d : t[b + p + 3 + j] = f.data[j]
          /\ t[b + p + d + 4] = f.last
    BY <1>2 DEF LiesAt
  <2> HIDE DEF p, d
  <2>4. t[b] = s[a] /\ t[b + 1] = s[a + 1]
    <3>1. t[b + 0] = s[a + 0] /\ t[b + 1] = s[a + 1]
      BY <2>1
    <3> QED
      BY <3>1
  <2>5. /\ t[b + p + 2] = s[a + p + 2] /\ t[b + p + 3] = s[a + p + 3]
        /\ t[b + p + d + 4] = s[a + p + d + 4]
    <3>1. /\ t[b + (p + 2)] = s[a + (p + 2)] /\ t[b + (p + 3)] = s[a + (p + 3)]
          /\ t[b + (p + d + 4)] = s[a + (p + d + 4)]
      BY <2>1
    <3>2. /\ b + (p + 2) = b + p + 2 /\ a + (p + 2) = a + p + 2
          /\ b + (p + 3) = b + p + 3 /\ a + (p + 3) = a + p + 3
          /\ b + (p + d + 4) = b + p + d + 4 /\ a + (p + d + 4) = a + p + d + 4
      BY <2>1
    <3> QED
      BY <3>1, <3>2
  <2>6. \A j \in 1..p : t[b + 1 + j] = s[a + 1 + j]
    <3> TAKE j \in 1..p
    <3>1. t[b + (1 + j)] = s[a + (1 + j)]
      BY <2>1
    <3> QED
      BY <2>1, <3>1
  <2>7. \A j \in 1..d : t[b + p + 3 + j] = s[a + p + 3 + j]
    <3> TAKE j \in 1..d
    <3>1. t[b + (p + 3 + j)] = s[a + (p + 3 + j)]
      BY <2>1
    <3>2. b + (p + 3 + j) = b + p + 3 + j /\ a + (p + 3 + j) = a + p + 3 + j
      BY <2>1
    <3> QED
      BY <3>1, <3>2
  <2> QED
    BY <2>2, <2>3, <2>4, <2>5, <2>6, <2>7
<1> QED
  BY <1>1, <1>2
-----------------------------------------------------------------------------
(* Cells that are appended or, from the front, taken away. *)
LEMMA LiesBefore ==
  ASSUME NEW f \in Frame, NEW s \in Seq(Cell), NEW t \in Seq(Cell), NEW a \in Nat,
         a >= 1, a + Size(f) <= Len(s) + 1, LiesAt(s, a, f)
  PROVE  LiesAt(s \o t, a, f)
<1>1. Size(f) \in Nat /\ Len(s) \in Nat
  BY FrameFacts, LenProperties
<1>2. \A j \in 0..Size(f) - 1 : a + j \in 1..Len(s)
  BY <1>1
<1>3. \A j \in 0..Size(f) - 1 : (s \o t)[a + j] = s[a + j]
  BY <1>2, Joining
<1> QED
  BY <1>3, LiesElsewhere

(* What lies in the second part lies behind the first. *)
LEMMA LiesBehind ==
  ASSUME NEW f \in Frame, NEW s \in Seq(Cell), NEW t \in Seq(Cell),
         Len(t) = Size(f), LiesAt(t, 1, f)
  PROVE  LiesAt(s \o t, Len(s) + 1, f)
<1>1. Size(f) \in Nat /\ Len(s) \in Nat /\ Len(s) + 1 \in Nat
  BY FrameFacts, LenProperties
<1>2. \A j \in 0..Size(f) - 1 : (s \o t)[Len(s) + 1 + j] = t[1 + j]
  <2> TAKE j \in 0..Size(f) - 1
  <2>1. 1 + j \in 1..Len(t) /\ Len(s) + (1 + j) = Len(s) + 1 + j
    BY <1>1
  <2>2. (s \o t)[Len(s) + (1 + j)] = t[1 + j]
    BY <2>1, Joining
  <2> QED
    BY <2>1, <2>2
<1> QED
  BY <1>1, <1>2, LiesElsewhere

(* Where the cells are once the first d are gone. *)
LEMMA Dropping ==
  ASSUME NEW s \in Seq(Cell), NEW d \in 0..Len(s)
  PROVE  /\ Drop(s, d) \in Seq(Cell) /\ Len(Drop(s, d)) = Len(s) - d
         /\ \A j \in 1..Len(s) - d : Drop(s, d)[j] = s[d + j]
<1>1. Len(s) \in Nat
  BY LenProperties
<1>2. \A i \in d + 1..Len(s) : s[i] \in Cell
  BY <1>1, ElementOfSeq
<1>3. d + 1 \in Int /\ Len(s) \in Int
  BY <1>1
<1>4. /\ Drop(s, d) \in Seq(Cell)
      /\ Len(Drop(s, d)) = IF d + 1 <= Len(s) THEN Len(s) - (d + 1) + 1 ELSE 0
      /\ \A j \in 1..Len(s) - (d + 1) + 1 : Drop(s, d)[j] = s[d + 1 + j - 1]
  BY <1>2, <1>3, SubSeqProperties DEF Drop
<1>5. Len(Drop(s, d)) = Len(s) - d
  BY <1>1, <1>4
<1>6. \A j \in 1..Len(s) - d : Drop(s, d)[j] = s[d + j]
  <2> TAKE j \in 1..Len(s) - d
  <2>1. d + 1 + j - 1 = d + j /\ j \in 1..Len(s) - (d + 1) + 1
    BY <1>1
  <2> QED
    BY <1>4, <2>1
<1> QED
  BY <1>4, <1>5, <1>6

(* Dropping from the first part is dropping from the whole. *)
LEMMA DropFirst ==
  ASSUME NEW s \in Seq(Cell), NEW t \in Seq(Cell), NEW d \in 0..Len(s)
  PROVE  Drop(s, d) \o t = Drop(s \o t, d)
<1> DEFINE u == Drop(s, d) \o t
           v == Drop(s \o t, d)
<1>1. /\ Len(s) \in Nat /\ Len(t) \in Nat /\ d \in Nat /\ d <= Len(s)
      /\ s \o t \in Seq(Cell) /\ Len(s \o t) = Len(s) + Len(t)
  BY Joining
<1>2. d \in 0..Len(s \o t)
  BY <1>1
<1>3. /\ v \in Seq(Cell) /\ Len(v) = Len(s) + Len(t) - d
      /\ \A j \in 1..Len(s) + Len(t) - d : v[j] = (s \o t)[d + j]
  <2> DEFINE w == s \o t
  <2>1. w \in Seq(Cell) /\ Len(w) = Len(s) + Len(t) /\ d \in 0..Len(w)
    BY <1>1, <1>2
  <2> HIDE DEF w
  <2>2. /\ Drop(w, d) \in Seq(Cell) /\ Len(Drop(w, d)) = Len(w) - d
        /\ \A j \in 1..Len(w) - d : Drop(w, d)[j] = w[d + j]
    BY <2>1, Dropping
  <2>3. v = Drop(w, d)
    BY DEF w
  <2> HIDE DEF v
  <2>4. /\ v \in Seq(Cell) /\ Len(v) = Len(s) + Len(t) - d
        /\ \A j \in 1..Len(s) + Len(t) - d : v[j] = w[d + j]
    BY <2>1, <2>2, <2>3
  <2> QED
    BY <2>4 DEF w
<1>4. /\ Drop(s, d) \in Seq(Cell) /\ Len(Drop(s, d)) = Len(s) - d
      /\ \A j \in 1..Len(s) - d : Drop(s, d)[j] = s[d + j]
  BY Dropping
<1>5. /\ u \in Seq(Cell) /\ Len(u) = (Len(s) - d) + Len(t)
      /\ \A j \in 1..Len(s) - d : u[j] = Drop(s, d)[j]
      /\ \A j \in 1..Len(t) : u[(Len(s) - d) + j] = t[j]
  <2> DEFINE w == Drop(s, d)
  <2>1. w \in Seq(Cell) /\ Len(w) = Len(s) - d /\ u = w \o t
    BY <1>4
  <2> HIDE DEF w, u
  <2>2. /\ w \o t \in Seq(Cell) /\ Len(w \o t) = Len(w) + Len(t)
        /\ \A j \in 1..Len(w) : (w \o t)[j] = w[j]
        /\ \A j \in 1..Len(t) : (w \o t)[Len(w) + j] = t[j]
    BY <2>1, Joining, Zenon
  <2>3. /\ u \in Seq(Cell) /\ Len(u) = (Len(s) - d) + Len(t)
        /\ \A j \in 1..Len(s) - d : u[j] = w[j]
        /\ \A j \in 1..Len(t) : u[(Len(s) - d) + j] = t[j]
    BY <2>1, <2>2, Zenon
  <2> QED
    BY <2>3 DEF w
<1>6. /\ \A j \in 1..Len(s) : (s \o t)[j] = s[j]
      /\ \A j \in 1..Len(t) : (s \o t)[Len(s) + j] = t[j]
  BY Joining
<1> HIDE DEF u, v
<1>7. ASSUME NEW j \in 1..Len(u) PROVE u[j] = v[j]
  <2>1. CASE j <= Len(s) - d
    <3>1. j \in 1..Len(s) - d /\ d + j \in 1..Len(s) /\ j \in 1..Len(s) + Len(t) - d
      BY <1>1, <1>5, <2>1
    <3> QED
      BY <1>3, <1>4, <1>5, <1>6, <3>1
  <2>2. CASE j > Len(s) - d
    <3> DEFINE i == j - (Len(s) - d)
    <3>1. i \in 1..Len(t) /\ (Len(s) - d) + i = j /\ d + j = Len(s) + i
          /\ j \in 1..Len(s) + Len(t) - d
      BY <1>1, <1>5, <2>2
    <3> HIDE DEF i
    <3>2. u[j] = t[i]
      BY <1>5, <3>1
    <3>3. v[j] = (s \o t)[d + j]
      BY <1>3, <3>1
    <3>4. (s \o t)[Len(s) + i] = t[i]
      BY <1>6, <3>1
    <3> QED
      BY <3>1, <3>2, <3>3, <3>4
  <2> QED
    BY <1>1, <1>5, <2>1, <2>2
<1>8. Len(u) = Len(v)
  BY <1>1, <1>3, <1>5
<1> QED
  BY <1>3, <1>5, <1>7, <1>8, SeqEqual DEF u, v

(* What lies behind the cells that go moves to the front. *)
LEMMA LiesAfterDrop ==
  ASSUME NEW f \in Frame, NEW s \in Seq(Cell), NEW d \in 0..Len(s), NEW a \in Nat,
         a > d, a + Size(f) <= Len(s) + 1, LiesAt(s, a, f)
  PROVE  LiesAt(Drop(s, d), a - d, f)
<1>0. Size(f) \in Nat /\ Len(s) \in Nat
  BY FrameFacts, LenProperties
<1>1. Size(f) \in Nat /\ Len(s) \in Nat /\ a - d \in Nat
  BY <1>0
<1>2. \A j \in 0..Size(f) - 1 : Drop(s, d)[a - d + j] = s[a + j]
  <2> TAKE j \in 0..Size(f) - 1
  <2>1. a - d + j \in 1..Len(s) - d /\ d + (a - d + j) = a + j
    BY <1>1
  <2>2. Drop(s, d)[a - d + j] = s[d + (a - d + j)]
    BY <2>1, Dropping
  <2> QED
    BY <2>1, <2>2
<1> QED
  BY <1>1, <1>2, LiesElsewhere
-----------------------------------------------------------------------------
(* What the decoder does with a frame at the head of the stream: it waits   *)
(* for all of it and takes it.                                              *)
LEMMA DecodeTakes ==
  ASSUME TypeOK, NEW f \in Frame, NEW s \in Seq(Cell),
         LiesAt(wire \o s, 1, f), Size(f) <= Len(wire \o s), Decode
  PROVE  /\ decoded' = Append(decoded, f)
         /\ Size(f) <= Len(wire) /\ wire' = Drop(wire, Size(f))
<1> DEFINE u == wire \o s
<1>1. /\ wire \in Seq(Cell) /\ Len(wire) \in Nat
      /\ \A j \in 1..Len(wire) : u[j] = wire[j]
  BY Joining DEF TypeOK
<1>2. Len(wire) >= 2 /\ 1 \in 1..Len(wire) /\ 2 \in 1..Len(wire)
  BY <1>1 DEF Decode, WholeControl, WholeChunk
<1>3. wire[1] = u[1] /\ wire[2] = u[2]
  BY <1>1, <1>2
<1>4. LiesAt(u, 1, f)
  OBVIOUS
<1> HIDE DEF u
<1>5. CASE f.type = CONTROL
  <2> DEFINE b == Len(f.body)
  <2>1. /\ f.body \in Seq(Cell) /\ b \in Nat /\ Size(f) = 2 + b /\ f = Control(f.body)
    BY <1>5, FrameFacts DEF Cell
  <2>2. /\ u[1] = CONTROL /\ u[1 + 1] = b
        /\ \A j \in 1..b : u[1 + 1 + j] = f.body[j]
    BY <1>4, <1>5 DEF LiesAt
  <2>3. wire[1] = CONTROL /\ wire[2] = b /\ wire[1] # DATACHUNK
    BY <1>3, <2>2 DEF CONTROL, DATACHUNK
  <2>4. WholeControl /\ Len(wire) >= 2 + b
        /\ decoded' = Append(decoded, Control(SubSeq(wire, 3, 2 + b)))
        /\ wire' = Drop(wire, 2 + b)
    BY <2>3 DEF Decode, WholeControl, WholeChunk
  <2>5. SubSeq(wire, 3, 2 + b) = f.body
    <3> HIDE DEF b
    <3> DEFINE v == SubSeq(wire, 3, 2 + b)
    <3>1. \A i \in 3..2 + b : wire[i] \in Cell
      BY <1>1, <2>1, <2>4, ElementOfSeq
    <3>2. /\ v \in Seq(Cell) /\ Len(v) = IF 3 <= 2 + b THEN 2 + b - 3 + 1 ELSE 0
          /\ \A i \in 1..2 + b - 3 + 1 : v[i] = wire[3 + i - 1]
      BY <2>1, <3>1, SubSeqProperties
    <3>3. Len(v) = b
      BY <2>1, <3>2
    <3>4. ASSUME NEW i \in 1..b PROVE v[i] = f.body[i]
      <4>1. i \in 1..2 + b - 3 + 1 /\ 3 + i - 1 = 2 + i /\ 1 + 1 + i = 2 + i /\ 2 + i \in 1..Len(wire)
        BY <1>1, <2>1, <2>4
      <4> QED
        BY <1>1, <2>2, <3>2, <4>1
    <3> HIDE DEF v
    <3>5. Len(f.body) = b
      BY DEF b
    <3> QED
      BY <2>1, <3>2, <3>3, <3>4, <3>5, SeqEqual DEF v
  <2> QED
    BY <2>1, <2>4, <2>5
<1>6. CASE f.type # CONTROL
  <2> DEFINE p == Len(f.path)
             d == Len(f.data)
  <2>1. /\ f.path \in Seq(Cell) /\ f.data \in Seq(Cell) /\ p \in Nat /\ d \in Nat
        /\ f.last \in {0, 1} /\ Size(f) = p + d + 5
        /\ f = Chunk(f.path, f.offset, f.data, f.last)
    BY <1>6, FrameFacts DEF Cell
  <2>2. /\ u[1] = DATACHUNK /\ u[1 + 1] = p
        /\ \A j \in 1..p : u[1 + 1 + j] = f.path[j]
        /\ u[1 + p + 2] = f.offset /\ u[1 + p + 3] = d
        /\ \A j \in 1..d : u[1 + p + 3 + j] = f.data[j]
        /\ u[1 + p + d + 4] = f.last
    BY <1>4, <1>6 DEF LiesAt
  <2>3. wire[1] = DATACHUNK /\ wire[2] = p /\ wire[1] # CONTROL
    BY <1>3, <2>2 DEF CONTROL, DATACHUNK
  <2>4. PathLen = p /\ DataLenAt = p + 4
    BY <2>3 DEF PathLen, DataLenAt
  <2>5. WholeChunk
    BY <2>3 DEF Decode, WholeControl
  <2>6. Len(wire) >= p + 4 /\ p + 4 \in 1..Len(wire) /\ p + 3 \in 1..Len(wire)
    BY <1>1, <2>1, <2>4, <2>5 DEF WholeChunk
  <2> HIDE DEF p, d
  <2>7. DataLen = d
    <3>1. 1 + p + 3 = p + 4
      BY <2>1
    <3> QED
      BY <1>1, <2>2, <2>4, <2>6, <3>1 DEF DataLen
  <2>8. Len(wire) >= p + 4 + d + 1
    BY <2>4, <2>5, <2>7 DEF WholeChunk
  <2>9. wire[p + 3] = f.offset
    <3>1. 1 + p + 2 = p + 3
      BY <2>1
    <3> QED
      BY <1>1, <2>2, <2>6, <3>1
  <2>10. wire[p + 4 + d + 1] = f.last
    <3>1. 1 + p + d + 4 = p + 4 + d + 1 /\ p + 4 + d + 1 \in 1..Len(wire)
      BY <1>1, <2>1, <2>8
    <3> QED
      BY <1>1, <2>2, <3>1
  <2>11. SubSeq(wire, 3, 2 + p) = f.path
    <3> DEFINE v == SubSeq(wire, 3, 2 + p)
    <3>1. \A i \in 3..2 + p : wire[i] \in Cell
      BY <1>1, <2>1, <2>6, ElementOfSeq
    <3>2. /\ v \in Seq(Cell) /\ Len(v) = IF 3 <= 2 + p THEN 2 + p - 3 + 1 ELSE 0
          /\ \A i \in 1..2 + p - 3 + 1 : v[i] = wire[3 + i - 1]
      BY <2>1, <3>1, SubSeqProperties
    <3>3. Len(v) = p
      BY <2>1, <3>2
    <3>4. ASSUME NEW i \in 1..p PROVE v[i] = f.path[i]
      <4>1. i \in 1..2 + p - 3 + 1 /\ 3 + i - 1 = 2 + i /\ 1 + 1 + i = 2 + i /\ 2 + i \in 1..Len(wire)
        BY <1>1, <2>1, <2>6
      <4> QED
        BY <1>1, <2>2, <3>2, <4>1
    <3> HIDE DEF v
    <3>5. Len(f.path) = p
      BY DEF p
    <3> QED
      BY <2>1, <3>2, <3>3, <3>4, <3>5, SeqEqual DEF v
  <2>12. SubSeq(wire, p + 4 + 1, p + 4 + d) = f.data
    <3> DEFINE m == p + 5
               n == p + 4 + d
               v == SubSeq(wire, m, n)
    <3>1. /\ m \in Int /\ n \in Int /\ p + 4 + 1 = m /\ n - m + 1 = d
          /\ (m <= n <=> d # 0) /\ n <= Len(wire) /\ m >= 1
          /\ \A i \in 1..d : 1 + p + 3 + i = m + i - 1 /\ m + i - 1 \in 1..Len(wire)
          /\ \A i \in m..n : i \in 1..Len(wire)
      BY <1>1, <2>1, <2>8
    <3>a. n = p + 4 + d
      OBVIOUS
    <3> HIDE DEF m, n
    <3>2. \A i \in m..n : wire[i] \in Cell
      BY <1>1, <3>1, ElementOfSeq
    <3>3. /\ v \in Seq(Cell) /\ Len(v) = IF m <= n THEN n - m + 1 ELSE 0
          /\ \A i \in 1..n - m + 1 : v[i] = wire[m + i - 1]
      BY <3>1, <3>2, SubSeqProperties
    <3>4. Len(v) = d
      BY <2>1, <3>1, <3>3
    <3> HIDE DEF v
    <3>5. ASSUME NEW i \in 1..d PROVE v[i] = f.data[i]
      <4>1. v[i] = wire[m + i - 1]
        BY <3>1, <3>3
      <4>2. u[1 + p + 3 + i] = f.data[i]
        BY <2>2
      <4> QED
        BY <1>1, <3>1, <4>1, <4>2
    <3>6. Len(f.data) = d
      BY DEF d
    <3>7. v = f.data
      BY <2>1, <3>3, <3>4, <3>5, <3>6, SeqEqual
    <3> QED
      BY <3>1, <3>7, <3>a DEF v
  <2>13. /\ decoded' = Append(decoded,
              Chunk(SubSeq(wire, 3, 2 + p), wire[p + 3], SubSeq(wire, p + 4 + 1, p + 4 + d),
                    IF wire[p + 4 + d + 1] = 1 THEN 1 ELSE 0))
         /\ wire' = Drop(wire, p + 4 + d + 1)
    BY <2>3, <2>4, <2>7 DEF Decode, WholeControl
  <2>14. (IF f.last = 1 THEN 1 ELSE 0) = f.last
    BY <2>1
  <2>15. p + 4 + d + 1 = Size(f)
    BY <2>1
  <2> QED
    BY <2>1, <2>8, <2>9, <2>10, <2>11, <2>12, <2>13, <2>14, <2>15
<1> QED
  BY <1>5, <1>6

(* And if all of it is there, it waits no longer. *)
LEMMA WholeIsSeen ==
  ASSUME TypeOK, NEW f \in Frame, LiesAt(wire, 1, f), Size(f) <= Len(wire)
  PROVE  WholeControl \/ WholeChunk
<1>1. CASE f.type = CONTROL
  <2>1. Size(f) = 2 + Len(f.body) /\ Len(f.body) \in Nat
    BY <1>1, FrameFacts DEF Cell
  <2>2. wire[1] = CONTROL /\ wire[1 + 1] = Len(f.body)
    BY <1>1 DEF LiesAt
  <2>3. Len(wire) \in Nat
    BY LenProperties DEF TypeOK
  <2>4. wire[2] = Len(f.body) /\ Len(wire) >= 2
    BY <2>1, <2>2, <2>3
  <2> QED
    BY <2>1, <2>2, <2>4 DEF WholeControl
<1>2. CASE f.type # CONTROL
  <2> DEFINE p == Len(f.path)
             d == Len(f.data)
  <2>1. Size(f) = p + d + 5 /\ p \in Nat /\ d \in Nat
    BY <1>2, FrameFacts DEF Cell
  <2>2. wire[1] = DATACHUNK /\ wire[1 + 1] = p /\ wire[1 + p + 3] = d
    BY <1>2 DEF LiesAt
  <2>3. Len(wire) \in Nat
    BY LenProperties DEF TypeOK
  <2> HIDE DEF p, d
  <2>4. wire[2] = p /\ wire[p + 4] = d
    <3>1. 1 + 1 = 2 /\ 1 + p + 3 = p + 4
      BY <2>1
    <3> QED
      BY <2>2, <3>1
  <2>5. PathLen = p /\ DataLenAt = p + 4 /\ DataLen = d
    BY <2>4 DEF PathLen, DataLenAt, DataLen
  <2>6. Len(wire) >= 2 /\ Len(wire) >= p + 4 /\ Len(wire) >= p + 4 + d + 1
    BY <2>1, <2>3
  <2> QED
    BY <2>2, <2>5, <2>6 DEF WholeChunk
<1> QED
  BY <1>1, <1>2
-----------------------------------------------------------------------------
(* The types of everything the stream is made of. *)
LEMMA StreamType ==
  ASSUME TypeOK
  PROVE  /\ Joined(pieces) \in Seq(Cell) /\ buf \o Joined(pieces) \in Seq(Cell)
         /\ Stream \in Seq(Cell) /\ Len(Stream) \in Nat
         /\ Len(encoded) \in Nat /\ Len(decoded) \in Nat
         /\ \A n \in 1..Len(encoded) : encoded[n] \in Frame
<1>1. Joined(pieces) \in Seq(Cell)
  BY JoinedType DEF TypeOK
<1>2. buf \o Joined(pieces) \in Seq(Cell)
  BY <1>1, ConcatProperties DEF TypeOK
<1>3. Stream \in Seq(Cell)
  BY <1>2, ConcatProperties DEF TypeOK, Stream
<1>4. Len(Stream) \in Nat /\ Len(encoded) \in Nat /\ Len(decoded) \in Nat
  BY <1>3, LenProperties DEF TypeOK
<1> QED
  BY <1>1, <1>2, <1>3, <1>4, ElementOfSeq DEF TypeOK

(* Cells that only move on, in order, leave everything where it was. *)
LEMMA StreamMoves ==
  ASSUME CodecInv, Stream' = Stream, UNCHANGED <<encoded, decoded>>
  PROVE  StreamInv' /\ DecodesWhatWasEncoded'
<1>1. /\ \A n : FitUpTo(n)' <=> FitUpTo(n)
      /\ AllFit' <=> AllFit
  BY DEF FitUpTo, AllFit
<1>2. PICK at \in [Nat -> Int] : Places(at)
  BY DEF CodecInv, StreamInv
<1>3. Places(at)'
  BY <1>1, <1>2 DEF Places
<1>4. StreamInv'
  BY <1>3 DEF StreamInv
<1> QED
  BY <1>1, <1>4 DEF CodecInv, DecodesWhatWasEncoded

(* A write moves cells from the pieces to the buffer and the wire. *)
LEMMA WriteStep ==
  ASSUME CodecInv, Write
  PROVE  CodecInv'
<1>1. TypeOK /\ Len(pieces) <= 6
  BY DEF CodecInv
<1> DEFINE p == Head(pieces)
<1>2. /\ pieces # <<>> /\ wire' = wire \o Pushed(p) /\ buf' = Kept(p)
      /\ pieces' = Tail(pieces) /\ UNCHANGED <<script, flushes, encoded, decoded>>
  BY DEF Write
<1>3. /\ p \in Seq(Cell) /\ pieces' \in Seq(Seq(Cell)) /\ Len(pieces') <= 6
      /\ Joined(pieces) = p \o Joined(pieces') /\ Joined(pieces') \in Seq(Cell)
  BY <1>1, <1>2, JoinedTail, JoinedType DEF TypeOK
<1> HIDE DEF p
<1>4. /\ Pushed(p) \in Seq(Cell) /\ buf' \in Seq(Cell) /\ Len(buf') <= BufSize
      /\ Pushed(p) \o buf' = buf \o p
  BY <1>1, <1>2, <1>3, WriteKeepsCells
<1>5. wire' \in Seq(Cell) /\ wire \in Seq(Cell) /\ buf \in Seq(Cell)
  BY <1>1, <1>2, <1>4, ConcatProperties DEF TypeOK
<1>6. TypeOK'
  BY <1>1, <1>2, <1>3, <1>4, <1>5 DEF TypeOK
<1>7. Stream' = Stream
  <2> DEFINE r == Joined(pieces')
  <2>1. Stream' = wire' \o (buf' \o r)
    BY DEF Stream, Joined, Piece
  <2>2. Stream = wire \o (buf \o (p \o r))
    BY <1>3 DEF Stream
  <2>3. r \in Seq(Cell)
    BY <1>3
  <2> HIDE DEF r
  <2>4. buf \o (p \o r) = (buf \o p) \o r
    BY <1>3, <1>5, <2>3, CellsAssociate
  <2>5. (Pushed(p) \o buf') \o r = Pushed(p) \o (buf' \o r)
    BY <1>4, <2>3, CellsAssociate
  <2>6. buf' \o r \in Seq(Cell)
    BY <1>4, <2>3, ConcatProperties
  <2>7. (wire \o Pushed(p)) \o (buf' \o r) = wire \o (Pushed(p) \o (buf' \o r))
    BY <1>4, <1>5, <2>6, CellsAssociate
  <2> QED
    BY <1>2, <1>4, <2>1, <2>2, <2>4, <2>5, <2>7, Zenon
<1>8. StreamInv' /\ DecodesWhatWasEncoded'
  BY <1>2, <1>7, StreamMoves
<1> QED
  BY <1>3, <1>6, <1>8 DEF CodecInv

(* A flush moves the buffer to the wire. *)
LEMMA FlushStep ==
  ASSUME CodecInv, Flush
  PROVE  CodecInv'
<1>1. TypeOK /\ Len(pieces) <= 6
  BY DEF CodecInv
<1>2. /\ wire' = wire \o buf /\ buf' = <<>> /\ pieces' = pieces /\ flushes' = FALSE
      /\ UNCHANGED <<script, encoded, decoded>>
  BY DEF Flush
<1>3. /\ wire' \in Seq(Cell) /\ buf' \in Seq(Cell) /\ Len(buf') <= BufSize
  <2>1. wire \o buf \in Seq(Cell)
    BY <1>1, ConcatProperties DEF TypeOK
  <2>2. Len(<<>>) = 0 /\ <<>> \in Seq(Cell) /\ 0 <= BufSize
    BY EmptySeq, CodecAssumption
  <2> QED
    BY <1>2, <2>1, <2>2
<1>4. TypeOK'
  BY <1>1, <1>2, <1>3 DEF TypeOK
<1>5. Stream' = Stream
  <2> DEFINE r == Joined(pieces)
  <2>1. r \in Seq(Cell) /\ wire \in Seq(Cell) /\ buf \in Seq(Cell)
    BY <1>1, StreamType DEF TypeOK
  <2>2. Stream' = wire' \o (buf' \o r) /\ Stream = wire \o (buf \o r)
    BY <1>2 DEF Stream, Joined, Piece
  <2> HIDE DEF r
  <2>3. <<>> \o r = r
    BY <2>1, ConcatEmptySeq
  <2>4. (wire \o buf) \o r = wire \o (buf \o r)
    BY <2>1, CellsAssociate
  <2> QED
    BY <1>2, <2>2, <2>3, <2>4, Zenon
<1>6. StreamInv' /\ DecodesWhatWasEncoded'
  BY <1>2, <1>5, StreamMoves
<1> QED
  BY <1>1, <1>2, <1>4, <1>6 DEF CodecInv

(* A new frame lies behind all others, if they and it fit. *)
LEMMA BeginFrameStep ==
  ASSUME CodecInv, BeginFrame
  PROVE  CodecInv'
<1>1. TypeOK /\ DecodesWhatWasEncoded
  BY DEF CodecInv
<1>a. /\ Head(script) \in Frame /\ Tail(script) \in Seq(Frame)
      /\ Len(encoded) \in Nat /\ Len(decoded) \in Nat
  BY <1>1, StreamType, HeadTailProperties DEF TypeOK, BeginFrame
<1>b. PICK f \in Frame : f = Head(script)
  BY <1>a
<1>n. PICK n \in Nat : n = Len(encoded)
  BY <1>a
<1>d. PICK d \in Nat : d = Len(decoded)
  BY <1>a
<1>2. /\ script # <<>> /\ pieces = <<>> /\ pieces' = Pieces(f)
      /\ flushes' \in BOOLEAN
      /\ encoded' = Append(encoded, f) /\ script' = Tail(script)
      /\ UNCHANGED <<buf, wire, decoded>>
  BY <1>b DEF BeginFrame
<1>3. f \in Frame /\ script' \in Seq(Frame)
  BY <1>2, <1>a
<1>4. /\ pieces' \in Seq(Seq(Cell)) /\ Len(pieces') <= 6
      /\ Fits(f) => Len(Joined(pieces')) = Size(f) /\ LiesAt(Joined(pieces'), 1, f)
  BY <1>2, <1>3, PiecesOf
<1>5. /\ encoded' \in Seq(Frame) /\ n \in Nat /\ Len(encoded') = n + 1
      /\ encoded'[n + 1] = f /\ \A i \in 1..n : encoded'[i] = encoded[i]
  BY <1>1, <1>2, <1>3, <1>n, AppendProperties, LenProperties DEF TypeOK
<1>6. TypeOK'
  BY <1>1, <1>2, <1>3, <1>4, <1>5 DEF TypeOK
<1>7. /\ \A i \in 1..n : FitUpTo(i)' <=> FitUpTo(i)
      /\ FitUpTo(n + 1)' => AllFit /\ Fits(f)
      /\ AllFit' => AllFit /\ Fits(f)
  <2>1. \A i \in 1..n : FitUpTo(i)' <=> FitUpTo(i)
    <3> TAKE i \in 1..n
    <3>1. \A j \in 1..i : encoded'[j] = encoded[j]
      BY <1>5
    <3> QED
      BY <3>1 DEF FitUpTo
  <2>2. ASSUME \A j \in 1..n + 1 : Fits(encoded'[j])
        PROVE  AllFit /\ Fits(f)
    <3>1. \A j \in 1..n : j \in 1..n + 1 /\ encoded'[j] = encoded[j]
      BY <1>5
    <3>2. n + 1 \in 1..n + 1
      BY <1>5
    <3> QED
      BY <1>5, <1>n, <2>2, <3>1, <3>2 DEF AllFit
  <2>3. FitUpTo(n + 1)' => \A j \in 1..n + 1 : Fits(encoded'[j])
    BY DEF FitUpTo
  <2>4. AllFit' => \A j \in 1..n + 1 : Fits(encoded'[j])
    BY <1>5 DEF AllFit
  <2> QED
    BY <2>1, <2>2, <2>3, <2>4
<1> DEFINE r == Joined(pieces')
<1>8. r \in Seq(Cell) /\ Len(r) \in Nat
  BY <1>4, JoinedType, LenProperties
<1>9. Stream' = Stream \o r
  <2>1. Joined(pieces) = <<>>
    <3>1. \A i \in 1..6 : Piece(pieces, i) = <<>>
      BY <1>2 DEF Piece
    <3>2. <<>> \o <<>> = <<>>
      BY EmptySeq, ConcatEmptySeq
    <3> QED
      BY <3>1, <3>2 DEF Joined
  <2>2. wire \in Seq(Cell) /\ buf \in Seq(Cell) /\ buf \o <<>> = buf
    BY <1>1, ConcatEmptySeq DEF TypeOK
  <2>3. Stream = wire \o buf
    BY <2>1, <2>2 DEF Stream
  <2>4. Stream' = wire \o (buf \o r)
    BY <1>2 DEF Stream, Joined, Piece
  <2> HIDE DEF r
  <2> QED
    BY <1>8, <2>2, <2>3, <2>4, CellsAssociate
<1>10. Stream \in Seq(Cell) /\ Len(Stream) \in Nat /\ Len(decoded) \in Nat
  BY <1>1, StreamType
<1>11. PICK at \in [Nat -> Int] : Places(at)
  BY DEF CodecInv, StreamInv
<1>12. Fits(f) => Len(r) = Size(f) /\ LiesAt(r, 1, f)
  BY <1>4
<1> HIDE DEF r
<1>13. Len(Stream') = Len(Stream) + Len(r)
  BY <1>8, <1>9, <1>10, Joining
<1>14. Size(f) \in Nat
  BY <1>3, FrameFacts
<1>15. PICK bt \in [Nat -> Int] :
         /\ \A i \in Nat : i # n + 2 => bt[i] = at[i]
         /\ bt[n + 2] = at[n + 1] + Size(f)
  <2> DEFINE g == [at EXCEPT ![n + 2] = at[n + 1] + Size(f)]
  <2>1. at[n + 1] + Size(f) \in Int
    BY <1>14
  <2>2. g \in [Nat -> Int] /\ \A i \in Nat : i # n + 2 => g[i] = at[i]
    BY <2>1
  <2>3. g[n + 2] = at[n + 1] + Size(f)
    BY <2>1
  <2> HIDE DEF g
  <2> QED
    BY <2>2, <2>3
<1>16. bt[n + 2] = at[n + 1] + Size(f)
  BY <1>15
<1>17. AllFit => d <= n /\ at[n + 1] = Len(Stream) + 1
  BY <1>1, <1>11, <1>n, <1>d DEF Places, DecodesWhatWasEncoded
<1>18. Len(decoded') = d /\ d \in Nat
  BY <1>2, <1>d
<1>19. ASSUME d <= n PROVE StreamInv'
  <2>1. bt[d + 1] = 1
    BY <1>5, <1>11, <1>15, <1>18, <1>19, <1>d DEF Places
  <2>2. ASSUME NEW i \in d + 1..n, FitUpTo(i)
        PROVE  /\ bt[i] >= 1 /\ bt[i + 1] = bt[i] + Size(encoded'[i])
               /\ bt[i + 1] <= Len(Stream') + 1
               /\ LiesAt(Stream', bt[i], encoded'[i])
               /\ \A m \in d + 1..i : bt[m] + Size(encoded'[m]) <= bt[i + 1]
    <3>1. i \in Nat /\ i + 1 \in Nat /\ i # n + 2 /\ i + 1 # n + 2 /\ i \in 1..n
      BY <1>5, <1>18
    <3>2. bt[i] = at[i] /\ bt[i + 1] = at[i + 1] /\ encoded'[i] = encoded[i]
      BY <1>5, <1>15, <3>1
    <3>3. /\ at[i] >= 1 /\ at[i + 1] = at[i] + Size(encoded[i])
          /\ at[i + 1] <= Len(Stream) + 1 /\ LiesAt(Stream, at[i], encoded[i])
          /\ \A m \in d + 1..i : at[m] + Size(encoded[m]) <= at[i + 1]
      BY <1>11, <2>2, <1>d, <1>n DEF Places
    <3>4. at[i] \in Int /\ encoded[i] \in Frame /\ Size(encoded[i]) \in Nat
      BY <1>1, <1>n, <3>1, StreamType, FrameFacts
    <3>5. at[i] \in Nat /\ at[i] + Size(encoded[i]) <= Len(Stream) + 1
      <4>1. \A x \in Int : x >= 1 => x \in Nat
        OBVIOUS
      <4> QED
        BY <3>3, <3>4, <4>1, Zenon
    <3>6. LiesAt(Stream \o r, at[i], encoded[i])
      BY <1>8, <1>10, <3>3, <3>4, <3>5, LiesBefore
    <3>7. at[i + 1] <= Len(Stream) + Len(r) + 1
      <4>1. at[i + 1] \in Int
        BY <3>1
      <4>2. \A x \in Int, y, z \in Nat : x <= y + 1 => x <= y + z + 1
        OBVIOUS
      <4> QED
        BY <1>8, <1>10, <3>3, <4>1, <4>2
    <3>8. \A m \in d + 1..i : bt[m] = at[m] /\ encoded'[m] = encoded[m]
      <4>1. \A m \in d + 1..i : m \in Nat /\ m # n + 2 /\ m \in 1..n
        BY <3>1
      <4> QED
        BY <1>5, <1>15, <4>1
    <3> QED
      BY <1>9, <1>13, <3>2, <3>3, <3>6, <3>7, <3>8
  <2>3. ASSUME AllFit, Fits(f)
        PROVE  /\ bt[n + 1] >= 1 /\ bt[n + 2] = bt[n + 1] + Size(f)
               /\ bt[n + 2] = Len(Stream') + 1
               /\ LiesAt(Stream', bt[n + 1], f)
               /\ \A m \in d + 1..n + 1 : bt[m] + Size(encoded'[m]) <= bt[n + 2]
    <3>1. bt[n + 1] = at[n + 1] /\ at[n + 1] = Len(Stream) + 1
      BY <1>5, <1>15, <1>17, <2>3
    <3>2. LiesAt(Stream \o r, Len(Stream) + 1, f)
      BY <1>3, <1>8, <1>10, <1>12, <2>3, LiesBehind
    <3>3. Len(r) = Size(f)
      BY <1>12, <2>3
    <3>4. /\ Len(Stream) + 1 >= 1
          /\ Len(Stream) + 1 + Size(f) = Len(Stream) + Len(r) + 1
      BY <1>10, <1>14, <3>3
    <3>5. ASSUME NEW m \in d + 1..n + 1
          PROVE  bt[m] + Size(encoded'[m]) <= bt[n + 2]
      <4>1. CASE m = n + 1
        <5>1. bt[n + 2] = bt[m] + Size(encoded'[m])
          BY <1>5, <1>16, <3>1, <4>1, Zenon
        <5>2. bt[n + 2] \in Int /\ \A x \in Int : x <= x
          OBVIOUS
        <5> QED
          BY <5>1, <5>2, Zenon
      <4>2. CASE m # n + 1
        <5>1. m \in d + 1..n /\ m \in 1..n /\ m \in Nat /\ m # n + 2 /\ m + 1 \in Nat
          BY <4>2
        <5>2. FitUpTo(m)
          <6>1. \A j \in 1..m : j \in 1..n
            BY <5>1
          <6> QED
            BY <1>n, <2>3, <6>1 DEF AllFit, FitUpTo
        <5>3. at[m + 1] = at[m] + Size(encoded[m]) /\ at[m + 1] <= Len(Stream) + 1
          BY <1>11, <1>d, <1>n, <5>1, <5>2 DEF Places
        <5>4. bt[m] = at[m] /\ encoded'[m] = encoded[m] /\ at[m + 1] \in Int
          BY <1>5, <1>15, <5>1
        <5>5. bt[n + 2] = Len(Stream) + 1 + Size(f)
          BY <1>16, <3>1
        <5> QED
          BY <1>10, <1>14, <5>3, <5>4, <5>5
      <4> QED
        BY <4>1, <4>2
    <3> QED
      BY <1>9, <1>13, <1>16, <3>1, <3>2, <3>4, <3>5
  <2>4. ASSUME NEW i \in d + 1..n + 1, FitUpTo(i)'
        PROVE  /\ bt[i] >= 1 /\ bt[i + 1] = bt[i] + Size(encoded'[i])
               /\ bt[i + 1] <= Len(Stream') + 1
               /\ LiesAt(Stream', bt[i], encoded'[i])
               /\ \A m \in d + 1..i : bt[m] + Size(encoded'[m]) <= bt[i + 1]
    <3>1. CASE i = n + 1
      <4>1. AllFit /\ Fits(f)
        BY <1>7, <2>4, <3>1
      <4>2. n + 1 + 1 = n + 2 /\ Len(Stream') + 1 <= Len(Stream') + 1
        BY <1>5, <1>8, <1>10, <1>13
      <4> QED
        BY <1>5, <2>3, <3>1, <4>1, <4>2
    <3>2. CASE i # n + 1
      <4>1. i \in d + 1..n /\ i \in 1..n
        BY <1>5, <1>18, <3>2
      <4> QED
        BY <1>7, <2>2, <2>4, <4>1
    <3> QED
      BY <3>1, <3>2
  <2>5. AllFit' => bt[n + 1 + 1] = Len(Stream') + 1
    <3>1. n + 1 + 1 = n + 2
      BY <1>5
    <3> QED
      BY <1>7, <2>3, <3>1
  <2>6. Places(bt)'
    BY <1>5, <1>18, <2>1, <2>4, <2>5 DEF Places
  <2> QED
    BY <2>6, Zenon DEF StreamInv
<1>20. ASSUME ~ (d <= n) PROVE StreamInv'
  <2>1. ~ AllFit /\ ~ AllFit'
    BY <1>5, <1>7, <1>17, <1>18, <1>20
  <2>2. at[d + 1] = 1
    BY <1>11, <1>d DEF Places
  <2>3. \A i \in d + 1..n + 1 : ~ FitUpTo(i)'
    <3>1. \A i \in d + 1..n + 1 : i = n + 1
      BY <1>5, <1>18, <1>20
    <3> QED
      BY <1>7, <2>1, <3>1
  <2>4. Places(at)'
    BY <1>5, <1>18, <2>1, <2>2, <2>3 DEF Places
  <2> QED
    BY <2>4, Zenon DEF StreamInv
<1>21. DecodesWhatWasEncoded'
  <2>1. AllFit' => d <= n + 1
    BY <1>5, <1>7, <1>17, <1>18
  <2>2. ASSUME NEW i \in 1..d, i <= n + 1, \A j \in 1..i : Fits(encoded'[j])
        PROVE  decoded[i] = encoded'[i]
    <3>1. CASE i = n + 1
      <4>1. FitUpTo(n + 1)'
        BY <2>2, <3>1 DEF FitUpTo
      <4> QED
        BY <1>5, <1>7, <1>17, <1>18, <3>1, <4>1
    <3>2. CASE i # n + 1
      <4>1. i \in 1..n /\ \A j \in 1..i : j \in 1..n
        BY <1>5, <1>18, <2>2, <3>2
      <4>2. \A j \in 1..i : Fits(encoded[j])
        BY <1>5, <2>2, <4>1
      <4>3. decoded[i] = encoded[i]
        <5>1. i \in 1..Len(decoded) /\ i <= Len(encoded)
          BY <1>d, <1>n, <4>1
        <5> QED
          BY <1>1, <4>2, <5>1 DEF DecodesWhatWasEncoded
      <4> QED
        BY <1>5, <4>1, <4>3
    <3> QED
      BY <3>1, <3>2
  <2> QED
    BY <1>2, <1>5, <1>18, <2>1, <2>2 DEF DecodesWhatWasEncoded
<1> QED
  BY <1>4, <1>6, <1>19, <1>20, <1>21 DEF CodecInv

(* Taking a frame from the stream moves the others to the front. *)
LEMMA DecodeFirst ==
  ASSUME CodecInv, NEW f \in Frame, NEW d \in Nat, Waits(d, f), Decode
  PROVE  CodecInv'
<1>0. FitUpTo(d + 1) /\ f = encoded[d + 1]
  BY DEF Waits
<1>1. TypeOK /\ DecodesWhatWasEncoded /\ Len(pieces) <= 6
  BY DEF CodecInv
<1>2. UNCHANGED <<script, pieces, flushes, buf, encoded>>
  BY DEF Decode
<1>3. /\ Stream \in Seq(Cell) /\ Len(Stream) \in Nat /\ buf \o Joined(pieces) \in Seq(Cell)
      /\ Len(encoded) \in Nat /\ wire \in Seq(Cell) /\ Len(wire) \in Nat
  BY <1>1, StreamType, LenProperties DEF TypeOK
<1>4. PICK n \in Nat : n = Len(encoded)
  BY <1>3
<1>d. d = Len(decoded)
  BY DEF Waits
<1>w. d + 1 \in 1..n /\ d + 1 <= n
  <2>1. d + 1 \in 1..n
    BY <1>4, Zenon DEF Waits
  <2> QED
    BY <2>1
<1>5. PICK at \in [Nat -> Int] : Places(at)
  BY DEF CodecInv, StreamInv
<1>6. PICK z \in Nat : z = Size(f) /\ z >= 2
  BY FrameFacts
<1>7. /\ at[d + 1] = 1 /\ at[d + 2] = 1 + z /\ 1 + z <= Len(Stream) + 1
      /\ LiesAt(Stream, 1, f)
  <2>1. d + 1 \in Len(decoded) + 1..Len(encoded) /\ d + 1 + 1 = d + 2
    <3>1. d + 1 \in d + 1..n /\ d + 1 + 1 = d + 2
      BY <1>w
    <3> QED
      BY <1>4, <1>d, <3>1, Zenon
  <2>2. /\ at[d + 1] = 1 /\ at[d + 1 + 1] = at[d + 1] + Size(encoded[d + 1])
        /\ at[d + 1 + 1] <= Len(Stream) + 1 /\ LiesAt(Stream, at[d + 1], encoded[d + 1])
    BY <1>0, <1>5, <1>d, <2>1 DEF Places
  <2> QED
    BY <1>0, <1>6, <2>1, <2>2
<1>8. Stream = wire \o (buf \o Joined(pieces))
  BY DEF Stream
<1>9. /\ decoded' = Append(decoded, f)
      /\ z <= Len(wire) /\ wire' = Drop(wire, z)
  <2>1. z <= Len(Stream)
    BY <1>3, <1>7
  <2> QED
    BY <1>1, <1>3, <1>6, <1>7, <1>8, <2>1, DecodeTakes
<1>10. /\ decoded' \in Seq(Frame) /\ Len(decoded') = d + 1 /\ decoded'[d + 1] = f
       /\ \A i \in 1..d : decoded'[i] = decoded[i]
  BY <1>1, <1>9, <1>d, AppendProperties DEF TypeOK
<1>11. z \in 0..Len(wire) /\ wire' \in Seq(Cell)
  BY <1>3, <1>6, <1>9, Dropping
<1>12. TypeOK'
  BY <1>1, <1>2, <1>10, <1>11 DEF TypeOK
<1>13. Stream' = Drop(Stream, z)
  <2>1. Drop(wire, z) \o (buf \o Joined(pieces)) = Drop(wire \o (buf \o Joined(pieces)), z)
    BY <1>3, <1>11, DropFirst
  <2>2. Stream' = wire' \o (buf \o Joined(pieces))
    BY <1>2 DEF Stream, Joined, Piece
  <2> QED
    BY <1>8, <1>9, <2>1, <2>2
<1>14. z \in 0..Len(Stream) /\ Len(Stream') = Len(Stream) - z
  <2>1. z \in 0..Len(Stream)
    BY <1>3, <1>6, <1>7
  <2> QED
    BY <1>3, <1>13, <2>1, Dropping
<1>15. /\ \A i : FitUpTo(i)' <=> FitUpTo(i)
       /\ AllFit' <=> AllFit
  BY <1>2 DEF FitUpTo, AllFit
<1>16. PICK bt \in [Nat -> Int] : \A i \in Nat : bt[i] = at[i] - z
  <2>1. [i \in Nat |-> at[i] - z] \in [Nat -> Int]
    BY <1>6
  <2> QED
    BY <2>1
<1>17. bt[d + 2] = 1
  BY <1>6, <1>7, <1>16
<1>18. ASSUME NEW i \in d + 2..n, FitUpTo(i)
       PROVE  /\ bt[i] >= 1 /\ bt[i + 1] = bt[i] + Size(encoded[i])
              /\ bt[i + 1] <= Len(Stream') + 1
              /\ LiesAt(Stream', bt[i], encoded[i])
              /\ \A m \in d + 2..i : bt[m] + Size(encoded[m]) <= bt[i + 1]
  <2>1. /\ i \in Nat /\ i + 1 \in Nat /\ i \in 1..n
        /\ i \in Len(decoded) + 1..Len(encoded)
    <3>1. i \in Nat /\ i + 1 \in Nat /\ i \in 1..n /\ i \in d + 1..n
      OBVIOUS
    <3> QED
      BY <1>4, <1>d, <3>1, Zenon
  <2>2. /\ at[i] >= 1 /\ at[i + 1] = at[i] + Size(encoded[i])
        /\ at[i + 1] <= Len(Stream) + 1 /\ LiesAt(Stream, at[i], encoded[i])
        /\ \A m \in d + 1..i : at[m] + Size(encoded[m]) <= at[i + 1]
    BY <1>5, <1>18, <1>d, <2>1 DEF Places
  <2>3. encoded[i] \in Frame /\ Size(encoded[i]) \in Nat
    BY <1>1, <1>4, <2>1, StreamType, FrameFacts
  <2>4. bt[i] = at[i] - z /\ bt[i + 1] = at[i + 1] - z /\ at[i] \in Int /\ at[i + 1] \in Int
    BY <1>16, <2>1
  <2>5. 1 + z <= at[i]
    <3> DEFINE h == i - 1
    <3>0. /\ h \in d + 1..n /\ h + 1 = i /\ \A j \in 1..h : j \in 1..i
          /\ d + 1 \in d + 1..h
      OBVIOUS
    <3>1. /\ h \in Len(decoded) + 1..Len(encoded) /\ h + 1 = i /\ \A j \in 1..h : j \in 1..i
          /\ d + 1 \in Len(decoded) + 1..h
      BY <1>4, <1>d, <3>0, Zenon
    <3>2. FitUpTo(h)
      BY <1>18, <3>1 DEF FitUpTo
    <3> HIDE DEF h
    <3>3. at[d + 1] + Size(encoded[d + 1]) <= at[h + 1]
      BY <1>5, <3>1, <3>2 DEF Places
    <3> QED
      BY <1>0, <1>6, <1>7, <3>1, <3>3, Zenon
  <2>6. at[i] \in Nat /\ at[i] > z /\ at[i] + Size(encoded[i]) <= Len(Stream) + 1
    <3>1. \A x \in Int : 1 + z <= x => x \in Nat /\ x > z
      OBVIOUS
    <3> QED
      BY <2>2, <2>4, <2>5, <3>1, Zenon
  <2>7. LiesAt(Drop(Stream, z), at[i] - z, encoded[i])
    BY <1>3, <1>14, <2>2, <2>3, <2>6, LiesAfterDrop
  <2>8. ASSUME NEW m \in d + 2..i PROVE bt[m] + Size(encoded[m]) <= bt[i + 1]
    <3>1. m \in Nat /\ m \in d + 1..i /\ m \in 1..Len(encoded)
      <4>1. m \in Nat /\ m \in d + 1..i /\ m \in 1..n
        OBVIOUS
      <4> QED
        BY <1>4, <4>1, Zenon
    <3>2. at[m] + Size(encoded[m]) <= at[i + 1] /\ bt[m] = at[m] - z /\ at[m] \in Int
      BY <1>16, <2>2, <3>1
    <3>3. Size(encoded[m]) \in Nat
      BY <1>1, <3>1, StreamType, FrameFacts
    <3>4. \A x, y \in Int, s \in Nat : x + s <= y => x - z + s <= y - z
      OBVIOUS
    <3> QED
      BY <2>4, <3>2, <3>3, <3>4, Zenon
  <2>9. bt[i] >= 1 /\ bt[i + 1] = bt[i] + Size(encoded[i])
    <3>1. \A x, y \in Int, s \in Nat :
            1 + z <= x /\ y = x + s => x - z >= 1 /\ y - z = x - z + s
      OBVIOUS
    <3>2. at[i] - z >= 1 /\ at[i + 1] - z = at[i] - z + Size(encoded[i])
      BY <2>2, <2>3, <2>4, <2>5, <3>1, Zenon
    <3> QED
      BY <2>4, <3>2, Zenon
  <2>10. bt[i + 1] <= Len(Stream') + 1
    <3>1. \A x \in Int, s \in Nat : x <= s + 1 => x - z <= s - z + 1
      OBVIOUS
    <3> QED
      BY <1>3, <1>14, <2>2, <2>4, <3>1, Zenon
  <2> QED
    BY <1>13, <2>4, <2>7, <2>8, <2>9, <2>10
<1>19. AllFit => bt[n + 1] = Len(Stream') + 1
  <2>1. AllFit => at[n + 1] = Len(Stream) + 1
    BY <1>4, <1>5 DEF Places
  <2> QED
    BY <1>3, <1>6, <1>14, <1>16, <2>1
<1>20. Places(bt)'
  <2>1. d + 1 + 1 = d + 2
    OBVIOUS
  <2> QED
    BY <1>2, <1>4, <1>10, <1>15, <1>17, <1>18, <1>19, <2>1 DEF Places
<1>21. StreamInv'
  BY <1>20 DEF StreamInv
<1>22. DecodesWhatWasEncoded'
  <2>1. d + 1 <= n
    BY <1>w
  <2>2. ASSUME NEW i \in 1..d + 1, i <= n, \A j \in 1..i : Fits(encoded[j])
        PROVE  decoded'[i] = encoded[i]
    <3>1. CASE i = d + 1
      BY <1>0, <1>10, <3>1
    <3>2. CASE i # d + 1
      <4>1. i \in 1..d
        BY <3>2
      <4>2. i \in 1..Len(decoded) /\ i <= Len(encoded)
        BY <1>4, <1>d, <2>2, <4>1, Zenon
      <4> QED
        BY <1>1, <1>10, <2>2, <4>1, <4>2 DEF DecodesWhatWasEncoded
    <3> QED
      BY <3>1, <3>2
  <2> QED
    BY <1>2, <1>4, <1>10, <2>1, <2>2 DEF DecodesWhatWasEncoded
<1> QED
  BY <1>1, <1>2, <1>12, <1>21, <1>22 DEF CodecInv

(* Whatever the decoder takes, it keeps the types. *)
LEMMA DecodeType ==
  ASSUME TypeOK, Decode
  PROVE  /\ wire' \in Seq(Cell) /\ TypeOK'
         /\ \E g \in Frame : decoded' = Append(decoded, g)
<1>1. wire \in Seq(Cell) /\ Len(wire) \in Nat /\ \A i \in 1..Len(wire) : wire[i] \in Nat
  BY LenProperties, ElementOfSeq DEF TypeOK, Cell
<1>2. CASE WholeControl /\ decoded' = Append(decoded, Control(SubSeq(wire, 3, 2 + wire[2])))
             /\ wire' = Drop(wire, 2 + wire[2])
  <2>1. Len(wire) >= 2 /\ 2 \in 1..Len(wire)
    BY <1>1, <1>2 DEF WholeControl
  <2>2. PICK b \in Nat : b = wire[2]
    BY <1>1, <2>1
  <2>3. 2 + b \in 0..Len(wire)
    BY <1>1, <1>2, <2>2 DEF WholeControl
  <2>4. SubSeq(wire, 3, 2 + b) \in Seq(Cell)
    <3>1. \A i \in 3..2 + b : wire[i] \in Cell
      BY <1>1, <2>3 DEF Cell
    <3> QED
      BY <3>1, SubSeqProperties
  <2>5. Control(SubSeq(wire, 3, 2 + b)) \in Frame
    BY <2>4 DEF Control, Frame
  <2>6. wire' \in Seq(Cell)
    BY <1>1, <1>2, <2>2, <2>3, Dropping
  <2>7. \E g \in Frame : decoded' = Append(decoded, g)
    BY <1>2, <2>2, <2>5
  <2> QED
    BY <2>6, <2>7, AppendProperties DEF TypeOK, Decode
<1>3. CASE /\ WholeChunk
           /\ decoded' = Append(decoded,
                Chunk(SubSeq(wire, 3, 2 + PathLen), wire[PathLen + 3],
                      SubSeq(wire, DataLenAt + 1, DataLenAt + DataLen),
                      IF wire[DataLenAt + DataLen + 1] = 1 THEN 1 ELSE 0))
           /\ wire' = Drop(wire, DataLenAt + DataLen + 1)
  <2>1. Len(wire) >= 2 /\ 2 \in 1..Len(wire)
    BY <1>1, <1>3 DEF WholeChunk
  <2>2. PICK p \in Nat : p = PathLen
    BY <1>1, <2>1 DEF PathLen
  <2>3. DataLenAt = p + 4 /\ p + 4 \in 1..Len(wire) /\ p + 3 \in 1..Len(wire)
    BY <1>1, <1>3, <2>2 DEF WholeChunk, DataLenAt
  <2>4. PICK d \in Nat : d = DataLen
    BY <1>1, <2>3 DEF DataLen
  <2>5. p + 4 + d + 1 \in 0..Len(wire)
    BY <1>1, <1>3, <2>3, <2>4 DEF WholeChunk
  <2>6. SubSeq(wire, 3, 2 + p) \in Seq(Cell)
    <3>1. \A i \in 3..2 + p : wire[i] \in Cell
      BY <1>1, <2>3 DEF Cell
    <3> QED
      BY <3>1, SubSeqProperties
  <2>7. SubSeq(wire, p + 4 + 1, p + 4 + d) \in Seq(Cell)
    <3>1. /\ \A i \in p + 4 + 1..p + 4 + d : wire[i] \in Cell
          /\ p + 4 + 1 \in Int /\ p + 4 + d \in Int
      BY <1>1, <2>5 DEF Cell
    <3> QED
      BY <3>1, SubSeqProperties, Zenon
  <2>8. wire[p + 3] \in Cell
    BY <1>1, <2>3 DEF Cell
  <2> DEFINE l == IF wire[p + 4 + d + 1] = 1 THEN 1 ELSE 0
             g == Chunk(SubSeq(wire, 3, 2 + p), wire[p + 3],
                        SubSeq(wire, p + 4 + 1, p + 4 + d), l)
  <2>9. l \in 0..1
    OBVIOUS
  <2>10. g \in Frame
    <3> HIDE DEF l
    <3> QED
      BY <2>6, <2>7, <2>8, <2>9 DEF Chunk, Frame
  <2>11. wire' \in Seq(Cell)
    BY <1>1, <1>3, <2>3, <2>4, <2>5, Dropping
  <2>12. decoded' = Append(decoded, g)
    BY <1>3, <2>2, <2>3, <2>4
  <2>13. \E h \in Frame : decoded' = Append(decoded, h)
    BY <2>10, <2>12
  <2> QED
    BY <2>11, <2>13, AppendProperties DEF TypeOK, Decode
<1> QED
  BY <1>2, <1>3 DEF Decode

(* Behind a frame that does not fit nothing is promised. *)
LEMMA DecodeOther ==
  ASSUME CodecInv, NEW d \in Nat, d = Len(decoded),
         ~ (d + 1 \in 1..Len(encoded) /\ FitUpTo(d + 1)),
         Decode
  PROVE  CodecInv'
<1>1. TypeOK /\ DecodesWhatWasEncoded /\ Len(pieces) <= 6
  BY DEF CodecInv
<1>2. UNCHANGED <<script, pieces, flushes, buf, encoded>>
  BY DEF Decode
<1>3. TypeOK' /\ \E g \in Frame : decoded' = Append(decoded, g)
  BY <1>1, DecodeType
<1>4. /\ Len(decoded') = d + 1 /\ \A i \in 1..d : decoded'[i] = decoded[i]
  BY <1>1, <1>3, AppendProperties DEF TypeOK
<1>5. PICK n \in Nat : n = Len(encoded)
  BY <1>1, StreamType
<1>6. ~ AllFit
  <2>1. SUFFICES ASSUME AllFit PROVE FALSE
    OBVIOUS
  <2>2. d <= n
    BY <1>1, <1>5, <2>1 DEF DecodesWhatWasEncoded
  <2>3. CASE d < n
    <3>1. d + 1 \in 1..Len(encoded) /\ \A j \in 1..d + 1 : j \in 1..Len(encoded)
      BY <1>5, <2>3
    <3>2. FitUpTo(d + 1)
      BY <2>1, <3>1 DEF AllFit, FitUpTo
    <3> QED
      BY <3>1, <3>2
  <2>4. CASE d = n
    <3>1. PICK at \in [Nat -> Int] : Places(at)
      BY DEF CodecInv, StreamInv
    <3>2. Len(Stream) = 0
      <4>1. at[d + 1] = 1 /\ at[n + 1] = Len(Stream) + 1
        BY <1>5, <2>1, <3>1 DEF Places
      <4>2. Len(Stream) \in Nat
        BY <1>1, StreamType
      <4> QED
        BY <2>4, <4>1, <4>2
    <3>3. Len(Stream) = Len(wire) + Len(buf \o Joined(pieces))
          /\ Len(wire) \in Nat /\ Len(buf \o Joined(pieces)) \in Nat
      BY <1>1, StreamType, Joining DEF Stream, TypeOK
    <3>4. Len(wire) = 0
      <4>1. \A x, y \in Nat : x + y = 0 => x = 0
        OBVIOUS
      <4> QED
        BY <3>2, <3>3, <4>1, Zenon
    <3> QED
      BY <3>4 DEF Decode, WholeControl, WholeChunk
  <2> QED
    BY <1>5, <2>2, <2>3, <2>4
<1>7. \A i \in d + 1..n : ~ FitUpTo(i)
  <2>1. SUFFICES ASSUME NEW i \in d + 1..n, FitUpTo(i) PROVE FALSE
    OBVIOUS
  <2>2. d + 1 \in 1..Len(encoded) /\ \A j \in 1..d + 1 : j \in 1..i
    BY <1>5
  <2>3. FitUpTo(d + 1)
    BY <2>1, <2>2 DEF FitUpTo
  <2> QED
    BY <2>2, <2>3
<1>8. /\ \A i : FitUpTo(i)' <=> FitUpTo(i)
      /\ AllFit' <=> AllFit
  BY <1>2 DEF FitUpTo, AllFit
<1>9. StreamInv'
  <2>1. PICK at \in [Nat -> Int] : at[d + 2] = 1
    <3>1. [i \in Nat |-> 1] \in [Nat -> Int] /\ [i \in Nat |-> 1][d + 2] = 1
      OBVIOUS
    <3> QED
      BY <3>1
  <2>2. /\ d + 1 + 1 = d + 2
        /\ \A i \in d + 2..n : i \in d + 1..n
    OBVIOUS
  <2>3. Places(at)'
    BY <1>2, <1>4, <1>5, <1>6, <1>7, <1>8, <2>1, <2>2 DEF Places
  <2> QED
    BY <2>3 DEF StreamInv
<1>10. DecodesWhatWasEncoded'
  <2>1. ASSUME NEW i \in 1..d + 1, i <= n, \A j \in 1..i : Fits(encoded[j])
        PROVE  decoded'[i] = encoded[i]
    <3>1. FitUpTo(i)
      BY <2>1 DEF FitUpTo
    <3>2. i # d + 1
      BY <1>7, <2>1, <3>1
    <3>3. i \in 1..d /\ i \in 1..Len(decoded) /\ i <= Len(encoded)
      BY <1>5, <2>1, <3>2
    <3> QED
      BY <1>1, <1>4, <2>1, <3>3 DEF DecodesWhatWasEncoded
  <2> QED
    BY <1>2, <1>4, <1>5, <1>6, <1>8, <2>1 DEF DecodesWhatWasEncoded
<1> QED
  BY <1>1, <1>2, <1>3, <1>9, <1>10 DEF CodecInv

(* A decoded frame, whether the first is one that fits or not. *)
LEMMA DecodeStep ==
  ASSUME CodecInv, Decode
  PROVE  CodecInv'
<1>1. PICK d \in Nat : d = Len(decoded)
  BY StreamType DEF CodecInv
<1>2. CASE d + 1 \in 1..Len(encoded) /\ FitUpTo(d + 1)
  <2>1. PICK f \in Frame : f = encoded[d + 1]
    <3>1. \A n \in 1..Len(encoded) : encoded[n] \in Frame
      BY StreamType DEF CodecInv
    <3> QED
      BY <1>2, <3>1, Zenon
  <2>2. Waits(d, f)
    BY <1>1, <1>2, <2>1 DEF Waits
  <2> QED
    BY <2>2, DecodeFirst
<1>3. CASE ~ (d + 1 \in 1..Len(encoded) /\ FitUpTo(d + 1))
  BY <1>1, <1>3, DecodeOther
<1> QED
  BY <1>2, <1>3
-----------------------------------------------------------------------------
(* At first the stream is empty. *)
LEMMA CodecAtFirst == Init => CodecInv
<1> SUFFICES ASSUME Init PROVE CodecInv
  OBVIOUS
<1>1. /\ \A S : <<>> \in Seq(S) /\ Len(<<>>) = 0
      /\ BufSize \in Nat /\ script \in Seq(Frame)
  BY EmptySeq, CodecAssumption DEF Init
<1>2. TypeOK
  <2>1. Len(<<>>) <= BufSize
    BY <1>1
  <2>2. <<>> \in Seq(Frame) /\ <<>> \in Seq(Cell) /\ <<>> \in Seq(Seq(Cell))
    BY <1>1, Zenon
  <2> QED
    BY <1>1, <2>1, <2>2 DEF Init, TypeOK
<1>3. Len(Stream) = 0
  <2>1. /\ Piece(pieces, 1) = <<>> /\ Piece(pieces, 2) = <<>> /\ Piece(pieces, 3) = <<>>
        /\ Piece(pieces, 4) = <<>> /\ Piece(pieces, 5) = <<>> /\ Piece(pieces, 6) = <<>>
    BY <1>1 DEF Piece, Init
  <2>2. <<>> \o <<>> = <<>>
    BY <1>1, ConcatEmptySeq
  <2>3. Stream = <<>>
    BY <2>1, <2>2, Zenon DEF Stream, Joined, Init
  <2> QED
    BY <1>1, <2>3
<1>4. PICK at \in [Nat -> Int] : at[0 + 1] = 1
  <2>1. [i \in Nat |-> 1] \in [Nat -> Int] /\ [i \in Nat |-> 1][0 + 1] = 1
    OBVIOUS
  <2> QED
    BY <2>1
<1>5. Len(encoded) = 0 /\ Len(decoded) = 0
  BY <1>1 DEF Init
<1>6. Places(at)
  BY <1>3, <1>4, <1>5 DEF Places
<1>7. DecodesWhatWasEncoded
  BY <1>5 DEF DecodesWhatWasEncoded
<1>8. StreamInv /\ Len(pieces) <= 6
  BY <1>1, <1>4, <1>6 DEF StreamInv, Init
<1> QED
  BY <1>2, <1>7, <1>8 DEF CodecInv

(* A stuttering step. *)
LEMMA CodecStays ==
  ASSUME CodecInv, UNCHANGED vars
  PROVE  CodecInv'
<1>1. TypeOK' /\ Len(pieces') <= 6
  BY DEF CodecInv, vars, TypeOK
<1>2. Stream' = Stream
  BY DEF vars, Stream, Joined, Piece
<1>3. StreamInv' /\ DecodesWhatWasEncoded'
  BY <1>2, StreamMoves DEF vars
<1> QED
  BY <1>1, <1>3 DEF CodecInv
-----------------------------------------------------------------------------
(* All of it: types, a buffer that never holds more than its size, and the  *)
(* frames that wait one behind the other on the stream.                     *)
THEOREM CodecInvariant == Spec => []CodecInv
<1>1. Init => CodecInv
  BY CodecAtFirst
<1>2. CodecInv /\ [Next]_vars => CodecInv'
  BY BeginFrameStep, WriteStep, FlushStep, DecodeStep, CodecStays DEF Next, Finished
<1> QED
  BY <1>1, <1>2, PTL DEF Spec

(* However often a full buffer cuts the stream, the decoder gets the frames *)
(* that were encoded, in order, up to the first whose length field wraps.   *)
THEOREM DecodedIsEncoded == Spec => []DecodesWhatWasEncoded
<1>1. CodecInv => DecodesWhatWasEncoded
  BY DEF CodecInv
<1> QED
  BY <1>1, CodecInvariant, PTL

(* With nothing left in the buffer, no half of a frame is on the wire.      *)
THEOREM FlushedIsWhole == Spec => []FlushCompletesFrames
<1>1. CodecInv => FlushCompletesFrames
  <2>1. SUFFICES ASSUME CodecInv, AllFit, buf = <<>>, pieces = <<>>, wire # <<>>
                 PROVE  WholeControl \/ WholeChunk
    BY DEF FlushCompletesFrames
  <2>2. TypeOK
    BY <2>1 DEF CodecInv
  <2>3. wire \in Seq(Cell) /\ Len(wire) \in Nat \ {0}
    BY <2>1, <2>2, EmptySeq DEF TypeOK
  <2>4. Stream = wire
    <3>1. /\ Piece(pieces, 1) = <<>> /\ Piece(pieces, 2) = <<>> /\ Piece(pieces, 3) = <<>>
          /\ Piece(pieces, 4) = <<>> /\ Piece(pieces, 5) = <<>> /\ Piece(pieces, 6) = <<>>
      BY <2>1, EmptySeq DEF Piece
    <3>2. <<>> \o <<>> = <<>> /\ wire \o <<>> = wire
      BY <2>3, EmptySeq, ConcatEmptySeq
    <3> QED
      BY <2>1, <3>1, <3>2, Zenon DEF Stream, Joined
  <2>5. PICK at \in [Nat -> Int] : Places(at)
    BY <2>1 DEF CodecInv, StreamInv
  <2>6. PICK n \in Nat, d \in Nat : n = Len(encoded) /\ d = Len(decoded)
    BY <2>2, StreamType
  <2>7. at[d + 1] = 1 /\ at[n + 1] = Len(wire) + 1 /\ d <= n
    BY <2>1, <2>4, <2>5, <2>6 DEF Places, CodecInv, DecodesWhatWasEncoded
  <2>8. d + 1 \in d + 1..n /\ \A j \in 1..d + 1 : j \in 1..n
    <3>1. d # n
      BY <2>3, <2>7
    <3> QED
      BY <2>7, <3>1
  <2>9. FitUpTo(d + 1)
    BY <2>1, <2>6, <2>8 DEF AllFit, FitUpTo
  <2> DEFINE f == encoded[d + 1]
  <2>10. /\ at[d + 1 + 1] = at[d + 1] + Size(f) /\ at[d + 1 + 1] <= Len(wire) + 1
         /\ LiesAt(wire, at[d + 1], f)
    BY <2>4, <2>5, <2>6, <2>8, <2>9 DEF Places
  <2>11. f \in Frame /\ Size(f) \in Nat
    <3>1. d + 1 \in 1..Len(encoded)
      BY <2>6, <2>8
    <3>2. f \in Frame
      BY <2>2, <3>1, StreamType, Zenon
    <3> QED
      BY <3>2, FrameFacts, Zenon
  <2>12. Size(f) <= Len(wire)
    BY <2>3, <2>7, <2>10, <2>11
  <2> QED
    BY <2>2, <2>7, <2>10, <2>11, <2>12, WholeIsSeen
<1> QED
  BY <1>1, CodecInvariant, PTL
=============================================================================
