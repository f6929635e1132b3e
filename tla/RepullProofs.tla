---------------------------- MODULE RepullProofs ----------------------------
(***************************************************************************)
(* Proofs about Repull, for files of any size, any clocks, and any number  *)
(* of edits and failed pulls: what a pull fetches while nobody edits is    *)
(* the file, and what a later pull passes over is the file, unless it was  *)
(* edited.                                                                 *)
(***************************************************************************)
EXTENDS Repull, SequenceTheorems, TLAPS

Receiving == rpc = "receive"

(* The client has written all that was read but for what is on the wire.    *)
InStep ==
  Receiving =>
    \/ wire = << <<>> >> /\ size = 0 /\ readTo = 0 /\ off = 0
    \/ /\ Len(wire) = readTo - off
       /\ \A i \in 1..Len(wire) : Len(wire[i]) = 1

Begins(s, n) ==
  /\ Len(s) = n
  /\ n <= Len(remote.data)
  /\ \A i \in 1..n : s[i] = remote.data[i]

(* Its copy is as long as what it wrote, once the first chunk truncated it. *)
CopyInStep ==
  Receiving /\ off > 0 => local # NoCopy /\ Len(local.data) = off

(* As long as nobody edits the file, all of this is the file's beginning.   *)
QuietlyReceived ==
  Receiving /\ calm =>
    /\ size = Len(remote.data)
    /\ off > 0 => Begins(local.data, off)
    /\ size = 0 => wire = << <<>> >> \/ (local # NoCopy /\ local.data = <<>>)
    /\ size > 0 => \A i \in 1..Len(wire) : wire[i] = << remote.data[off + i] >>

(* Of a file that was never edited the client has nothing but a beginning.  *)
NeverEdited ==
  edits = 0 =>
    /\ calm
    /\ rpc = "listed" => listed.size = Len(remote.data)
    /\ local # NoCopy => Begins(local.data, Len(local.data))

RepullInv ==
  /\ TypeOK /\ InStep /\ CopyInStep /\ QuietlyReceived /\ NeverEdited
  /\ QuietPullDelivers /\ SkippedIsSameUnlessEdited

-----------------------------------------------------------------------------
(* Writing a block right after the end of a sequence appends it, and        *)
(* writing nothing changes nothing.                                         *)
LEMMA WriteAtEnd ==
  ASSUME NEW s \in Seq(Block), NEW d \in Seq(Block), Len(d) <= 1
  PROVE  /\ Overwritten(s, Len(s), d) \in Seq(Block)
         /\ Len(Overwritten(s, Len(s), d)) = Len(s) + Len(d)
         /\ \A i \in 1..Len(s) : Overwritten(s, Len(s), d)[i] = s[i]
         /\ Len(d) = 1 => Overwritten(s, Len(s), d)[Len(s) + 1] = d[1]
<1>1. SubSeq(s, 1, Len(s)) = s
  BY SubSeqFull
<1>2. SubSeq(s, Len(s) + Len(d) + 1, Len(s)) = <<>>
  BY SubSeqEmpty
<1>3. Overwritten(s, Len(s), d) = s \o d
  <2>1. (s \o d) \in Seq(Block)  BY ConcatProperties
  <2> QED  BY <1>1, <1>2, <2>1, ConcatEmptySeq DEF Overwritten
<1> QED  BY <1>3, ConcatProperties

(* A sequence that begins like the file and is as long as it is the file.   *)
LEMMA WholeIsSame ==
  ASSUME TypeOK, local # NoCopy, Begins(local.data, Len(remote.data))
  PROVE  Same
<1>1. local.data \in Seq(Block) /\ remote.data \in Seq(Block)
  BY RepullAssumption DEF TypeOK, Copy
<1> QED  BY <1>1, SeqEqual DEF Begins, Same

-----------------------------------------------------------------------------
LEMMA RepullInitially == Init => RepullInv
<1> SUFFICES ASSUME Init PROVE RepullInv
  OBVIOUS
<1>1. remote.data \in Seq(Block)  BY RepullAssumption DEF Init
<1>2. TypeOK
  BY <1>1, RepullAssumption DEF Init, TypeOK, Listing, FileInfo
<1> QED
  BY <1>2 DEF Init, RepullInv, InStep, CopyInStep, QuietlyReceived, NeverEdited,
              QuietPullDelivers, SkippedIsSameUnlessEdited, Receiving, Ended

(* Time passes and the file changes: nothing is claimed of the latter.      *)
LEMMA WorldKeepsInv == RepullInv /\ (Tick \/ Edit) => RepullInv'
<1> SUFFICES ASSUME RepullInv, Tick \/ Edit PROVE RepullInv'
  OBVIOUS
<1> USE DEF RepullInv, pull
<1>1. CASE Tick
  <2>1. TypeOK'  BY <1>1, RepullAssumption DEF TypeOK, Tick
  <2> QED
    BY <1>1, <2>1 DEF Tick, InStep, CopyInStep, QuietlyReceived, NeverEdited, Begins,
              QuietPullDelivers, SkippedIsSameUnlessEdited, Receiving, Ended, Same
<1>2. CASE Edit
  <2>1. TypeOK'
    <3>1. edits' \in 0..MaxEdits  BY <1>2, RepullAssumption DEF TypeOK, Edit
    <3>2. calm' \in BOOLEAN  BY <1>2, Zenon DEF Edit
    <3> QED  BY <1>2, <3>1, <3>2 DEF TypeOK, Edit
  <2>2. ~ calm' /\ edits' # 0  BY <1>2 DEF Edit, TypeOK
  <2> QED
    BY <1>2, <2>1, <2>2 DEF Edit, InStep, CopyInStep, QuietlyReceived, NeverEdited,
              QuietPullDelivers, SkippedIsSameUnlessEdited, Receiving, Ended
<1> QED  BY <1>1, <1>2

(* The diff: a copy of the listed size that begins like the file is it.     *)
LEMMA DiffKeepsInv == RepullInv /\ (List \/ Skip \/ Want) => RepullInv'
<1> SUFFICES ASSUME RepullInv, List \/ Skip \/ Want PROVE RepullInv'
  OBVIOUS
<1> USE DEF RepullInv
<1>1. TypeOK'
  <2>1. remote.data \in Seq(Block)  BY RepullAssumption DEF TypeOK
  <2>2. Listing \in FileInfo  BY <2>1 DEF TypeOK, Listing, FileInfo
  <2> QED  BY <2>2 DEF TypeOK, List, Skip, Want
<1>2. rpc' # "receive" /\ UNCHANGED <<remote, local, edits>>
  BY DEF List, Skip, Want
<1>3. InStep' /\ CopyInStep' /\ QuietlyReceived'
  BY <1>2 DEF InStep, CopyInStep, QuietlyReceived, Receiving
<1>4. QuietPullDelivers'
  BY <1>2 DEF QuietPullDelivers, Ended, List, Skip, Want
<1>5. NeverEdited'
  <2>1. calm' \/ edits' # 0  BY <1>2 DEF NeverEdited, List, Skip, Want
  <2>2. rpc' = "listed" => listed'.size = Len(remote.data)
    BY DEF List, Skip, Want, Listing
  <2> QED  BY <1>2, <2>1, <2>2 DEF NeverEdited, Begins
<1>6. SkippedIsSameUnlessEdited'
  <2>1. CASE List \/ Want
    BY <2>1 DEF List, Want, SkippedIsSameUnlessEdited, Ended
  <2>2. ASSUME Skip, edits = 0 PROVE Same
    BY <2>2, WholeIsSame DEF Skip, Exists, NeverEdited
  <2> QED
    BY <1>2, <2>1, <2>2 DEF Skip, SkippedIsSameUnlessEdited, Same
<1> QED  BY <1>1, <1>3, <1>4, <1>5, <1>6

-----------------------------------------------------------------------------
(* The session's stat and reads: as long as nobody edits, they see one file. *)
LEMMA SendKeepsInv == RepullInv /\ (StatFile \/ ReadBlock) => RepullInv'
<1> SUFFICES ASSUME RepullInv, StatFile \/ ReadBlock PROVE RepullInv'
  OBVIOUS
<1> USE DEF RepullInv
<1>1. remote.data \in Seq(Block) /\ Len(remote.data) \in Nat
  BY RepullAssumption DEF TypeOK
<1>2. UNCHANGED <<remote, local, calm, edits, result>> /\ rpc' = "receive"
  BY DEF StatFile, ReadBlock
<1>3. QuietPullDelivers' /\ SkippedIsSameUnlessEdited' /\ NeverEdited'
  BY <1>2 DEF QuietPullDelivers, SkippedIsSameUnlessEdited, NeverEdited, Ended, Begins
<1>4. CASE StatFile
  <2>1. TypeOK'  BY <1>1, <1>4 DEF TypeOK, StatFile
  <2>2. InStep' /\ CopyInStep' /\ QuietlyReceived'
    BY <1>1, <1>4 DEF StatFile, InStep, CopyInStep, QuietlyReceived
  <2> QED  BY <1>3, <2>1, <2>2
<1>5. CASE ReadBlock
  <2> DEFINE b == << remote.data[readTo + 1] >>
  <2>1. readTo + 1 \in 1..Len(remote.data) /\ readTo < size
        /\ readTo \in Nat /\ size \in Nat /\ off \in Nat /\ off <= readTo
    BY <1>1, <1>5 DEF ReadBlock, MoreToRead, TypeOK
  <2>2. b \in Seq(Block) /\ Len(b) = 1  BY <1>1, <2>1
  <2>3. wire' = Append(wire, b) /\ readTo' = readTo + 1
        /\ UNCHANGED <<size, off, listed, rpc, clock, skew, fails>>
    BY <1>5 DEF ReadBlock
  <2>4. TypeOK'  BY <1>2, <2>1, <2>2, <2>3 DEF TypeOK
  <2>5. Len(wire) = readTo - off /\ \A i \in 1..Len(wire) : Len(wire[i]) = 1
    BY <1>5, <2>1 DEF ReadBlock, InStep, Receiving
  <2>6. Len(wire') = Len(wire) + 1 /\ wire'[Len(wire) + 1] = b
        /\ \A i \in 1..Len(wire) : wire'[i] = wire[i]
    BY <2>2, <2>3, AppendProperties DEF TypeOK
  <2>7. InStep'  BY <2>1, <2>2, <2>3, <2>5, <2>6 DEF InStep, TypeOK
  <2>8. CopyInStep'  BY <1>2, <1>5, <2>3 DEF ReadBlock, CopyInStep, Receiving
  <2>9. QuietlyReceived'
    BY <1>2, <1>5, <2>1, <2>3, <2>5, <2>6 DEF ReadBlock, QuietlyReceived, Receiving, Begins
  <2> QED  BY <1>3, <2>4, <2>7, <2>8, <2>9
<1> QED  BY <1>4, <1>5

(* The client writes the next chunk where the one before it ended.          *)
LEMMA WriteKeepsInv == RepullInv /\ WriteChunk => RepullInv'
<1> SUFFICES ASSUME RepullInv, WriteChunk PROVE RepullInv'
  OBVIOUS
<1> USE DEF RepullInv
<1> DEFINE d == Head(wire)
           new == Overwritten(OldData, off, d)
<1>1. remote.data \in Seq(Block) /\ wire \in Seq(Seq(Block)) /\ wire # <<>>
      /\ size \in Nat /\ off \in Nat /\ readTo \in Nat /\ off <= readTo /\ readTo <= size
  BY RepullAssumption DEF TypeOK, WriteChunk
<1>2. d \in Seq(Block) /\ Len(d) \in Nat /\ d = wire[1] /\ Tail(wire) \in Seq(Seq(Block))
      /\ Len(Tail(wire)) = Len(wire) - 1
      /\ \A i \in 1..Len(wire) - 1 : Tail(wire)[i] = wire[i + 1]
  BY <1>1, HeadTailProperties
<1>3. OldData \in Seq(Block) /\ Len(OldData) = off
  BY <1>1 DEF OldData, CopyInStep, Receiving, WriteChunk, TypeOK, Copy
<1> DEFINE Empty == Len(d) = 0 /\ size = 0 /\ readTo = 0 /\ off = 0 /\ Tail(wire) = <<>>
           One   == Len(d) = 1 /\ off < readTo /\ Len(wire) = readTo - off
<1>4. Empty \/ One
  <2>1. CASE wire = << <<>> >> /\ size = 0 /\ readTo = 0 /\ off = 0
    <3>1. Tail(<< <<>> >>) = <<>> /\ Head(<< <<>> >>) = <<>> /\ Len(<<>>) = 0  OBVIOUS
    <3> QED  BY <2>1, <3>1
  <2>2. CASE Len(wire) = readTo - off /\ \A i \in 1..Len(wire) : Len(wire[i]) = 1
    <3> HIDE DEF d
    <3>1. Len(wire) \in Nat /\ Len(wire) # 0  BY <1>1, EmptySeq
    <3> QED  BY <1>1, <1>2, <2>2, <3>1
  <2> QED  BY <2>1, <2>2 DEF InStep, Receiving, WriteChunk
<1>4a. One => \A i \in 1..Len(wire) : Len(wire[i]) = 1
  <2>1. CASE wire = << <<>> >>  BY <1>2, <2>1
  <2>2. CASE \A i \in 1..Len(wire) : Len(wire[i]) = 1  BY <2>2
  <2> QED  BY <2>1, <2>2 DEF InStep, Receiving, WriteChunk
<1>5. new \in Seq(Block) /\ Len(new) = off + Len(d)
      /\ (\A i \in 1..off : new[i] = OldData[i])
      /\ (Len(d) = 1 => new[off + 1] = d[1])
  <2> HIDE DEF d
  <2>1. Len(d) <= 1
    <3>1. CASE Empty  BY <3>1
    <3>2. CASE One  BY <3>2
    <3> QED  BY <1>4, <3>1, <3>2
  <2> QED  BY <1>2, <1>3, <2>1, WriteAtEnd
<1>6. local' = [data |-> new, mtime |-> clock + skew] /\ off' = off + Len(d)
      /\ wire' = Tail(wire)
      /\ UNCHANGED <<clock, skew, remote, rpc, listed, size, readTo, result, calm,
                     edits, fails>>
  BY DEF WriteChunk, Stamped
<1>7. local' \in Copy /\ local' # NoCopy /\ local'.data = new
  BY <1>5, <1>6, RepullAssumption DEF TypeOK, Copy
<1> HIDE DEF new, d
<1>8. TypeOK'
  <2>1. off' \in 0..readTo'
    <3>1. CASE Empty  BY <1>1, <1>6, <3>1
    <3>2. CASE One  BY <1>1, <1>6, <3>2
    <3> QED  BY <1>4, <3>1, <3>2
  <2> QED  BY <1>2, <1>6, <1>7, <2>1 DEF TypeOK
<1>9. InStep'
  <2>1. CASE Empty
    <3>1. wire' = <<>> /\ readTo' = 0 /\ off' = 0  BY <1>6, <2>1
    <3>2. Len(wire') = 0  BY <3>1
    <3> QED  BY <3>1, <3>2 DEF InStep
  <2>2. CASE One
    <3>1. Len(wire') = readTo' - off'  BY <1>1, <1>2, <1>6, <2>2
    <3>2. \A i \in 1..Len(wire') : Len(wire'[i]) = 1
      <4>1. \A i \in 1..Len(wire) - 1 : Len(wire[i + 1]) = 1
        BY <1>1, <1>4a, <2>2
      <4> QED  BY <1>2, <1>6, <4>1
    <3> QED  BY <3>1, <3>2 DEF InStep
  <2> QED  BY <1>4, <2>1, <2>2
<1>10. CopyInStep'
  <2>1. Len(local'.data) = off'  BY <1>5, <1>6, <1>7
  <2> QED  BY <1>7, <2>1 DEF CopyInStep
<1>11. ASSUME calm PROVE Begins(new, off + Len(d))
  <2>1. size = Len(remote.data)  BY <1>11 DEF QuietlyReceived, Receiving, WriteChunk
  <2>2. \A i \in 1..off : new[i] = remote.data[i]
    <3>1. CASE off = 0  BY <3>1
    <3>2. CASE off > 0
      BY <1>5, <1>11, <3>2 DEF QuietlyReceived, Receiving, WriteChunk, Begins, OldData,
                               CopyInStep
    <3> QED  BY <1>1, <3>1, <3>2
  <2>3. CASE Empty  BY <1>1, <1>5, <2>3 DEF Begins
  <2>4. CASE One
    <3>1. size > 0 /\ off + 1 <= Len(remote.data)  BY <1>1, <2>1, <2>4
    <3>2. d = << remote.data[off + 1] >>
      <4>1. 1 \in 1..Len(wire)  BY <1>1, <2>4
      <4> QED  BY <1>1, <1>2, <1>11, <3>1, <4>1 DEF QuietlyReceived, Receiving, WriteChunk
    <3>3. new[off + 1] = remote.data[off + 1]  BY <1>5, <2>4, <3>2
    <3>4. Len(new) = off + 1  BY <1>5, <2>4
    <3> HIDE DEF One
    <3>5. \A i \in 1..off + 1 : new[i] = remote.data[i]  BY <1>1, <2>2, <3>3
    <3>6. off + Len(d) = off + 1  BY <1>1, <2>4 DEF One
    <3> QED  BY <3>1, <3>4, <3>5, <3>6 DEF Begins
  <2> QED  BY <1>4, <2>3, <2>4
<1>12. QuietlyReceived'
  <2> SUFFICES ASSUME calm
               PROVE  /\ size' = Len(remote.data')
                      /\ off' > 0 => Begins(new, off')
                      /\ size' = 0 => local' # NoCopy /\ local'.data = <<>>
                      /\ size' > 0 => \A i \in 1..Len(wire') :
                                         wire'[i] = << remote.data[off' + i] >>
    BY <1>6, <1>7 DEF QuietlyReceived, Begins
  <2>1. size = Len(remote.data)  BY DEF QuietlyReceived, Receiving, WriteChunk
  <2>2. size' = Len(remote.data') /\ Begins(new, off')  BY <1>6, <1>11, <2>1
  <2>3. ASSUME size = 0 PROVE new = <<>>
    <3>1. Len(new) = 0  BY <1>1, <1>4, <1>5, <2>3
    <3> QED  BY <1>5, <3>1, EmptySeq
  <2>4. ASSUME size > 0 PROVE \A i \in 1..Len(wire') : wire'[i] = << remote.data[off' + i] >>
    <3>1. One  BY <1>4, <2>4
    <3>2. \A i \in 1..Len(wire) : wire[i] = << remote.data[off + i] >>
      BY <2>4 DEF QuietlyReceived, Receiving, WriteChunk
    <3>3. off' = off + 1  BY <1>6, <3>1
    <3>4. \A i \in 1..Len(wire) - 1 : wire[i + 1] = << remote.data[off + (i + 1)] >>
      BY <1>1, <3>2
    <3>5. \A i \in 1..Len(wire) - 1 : off' + i = off + (i + 1)  BY <1>1, <3>3
    <3> QED  BY <1>2, <1>6, <3>4, <3>5
  <2> QED  BY <1>6, <1>7, <2>2, <2>3, <2>4
<1>13. NeverEdited'
  BY <1>5, <1>6, <1>7, <1>11 DEF NeverEdited, Begins, WriteChunk
<1>14. QuietPullDelivers' /\ SkippedIsSameUnlessEdited'
  BY <1>6 DEF QuietPullDelivers, SkippedIsSameUnlessEdited, Ended, WriteChunk
<1> QED  BY <1>8, <1>9, <1>10, <1>12, <1>13, <1>14

(* The pull ends with everything written, or fails with a beginning.        *)
LEMMA EndKeepsInv == RepullInv /\ (Finish \/ Fail) => RepullInv'
<1> SUFFICES ASSUME RepullInv, Finish \/ Fail PROVE RepullInv'
  OBVIOUS
<1> USE DEF RepullInv
<1>1. remote.data \in Seq(Block)  BY RepullAssumption DEF TypeOK
<1>2. CASE Finish
  <2>1. TypeOK'  BY <1>2 DEF TypeOK, Finish
  <2>2. UNCHANGED <<remote, local, calm, edits>> /\ rpc' = "idle" /\ result' = "fetched"
    BY <1>2 DEF Finish
  <2>3. ASSUME calm PROVE Same
    <3>1. size = Len(remote.data) /\ off = readTo /\ readTo = size
      BY <1>1, <1>2, <2>3 DEF Finish, MoreToRead, InStep, QuietlyReceived, Receiving, TypeOK
    <3>2. local # NoCopy /\ Begins(local.data, Len(remote.data))
      BY <1>1, <1>2, <2>3, <3>1
         DEF Finish, CopyInStep, QuietlyReceived, Receiving, TypeOK, Begins
    <3> QED  BY <3>2, WholeIsSame
  <2>4. QuietPullDelivers'  BY <2>2, <2>3 DEF QuietPullDelivers, Same
  <2> QED
    BY <2>1, <2>2, <2>4 DEF InStep, CopyInStep, QuietlyReceived, Receiving, NeverEdited,
              SkippedIsSameUnlessEdited, Ended, Begins
<1>3. CASE Fail
  <2>1. UNCHANGED <<remote, calm, edits>> /\ rpc' = "idle" /\ result' = "failed"
    BY <1>3 DEF Fail
  <2>2. \/ UNCHANGED local
        \/ local' \in Copy /\ local'.data = <<>>
    <3>1. <<>> \in Seq(Block) /\ clock + skew \in Int
      BY RepullAssumption DEF TypeOK
    <3>2. Stamped(<<>>) \in Copy /\ Stamped(<<>>).data = <<>>
      BY <3>1 DEF Stamped, Copy
    <3> QED  BY <1>3, <3>2 DEF Fail
  <2>3. TypeOK'
    <3>1. fails' \in 0..MaxFails /\ <<>> \in Seq(Seq(Block))
      BY <1>3, RepullAssumption DEF Fail, TypeOK
    <3> QED  BY <1>3, <2>2, <3>1 DEF TypeOK, Fail
  <2>4. NeverEdited'  BY <1>1, <2>1, <2>2 DEF NeverEdited, Begins
  <2> QED
    BY <2>1, <2>3, <2>4 DEF InStep, CopyInStep, QuietlyReceived, Receiving,
              QuietPullDelivers, SkippedIsSameUnlessEdited, Ended
<1> QED  BY <1>2, <1>3

(* Every step keeps the invariant. *)
LEMMA RepullStep == RepullInv /\ [Next]_vars => RepullInv'
<1> SUFFICES ASSUME RepullInv, [Next]_vars PROVE RepullInv'
  OBVIOUS
<1>1. CASE UNCHANGED vars
  BY <1>1, SMTT(30) DEF vars, RepullInv, TypeOK, InStep, CopyInStep, QuietlyReceived, NeverEdited,
              QuietPullDelivers, SkippedIsSameUnlessEdited, Receiving, Ended, Same, Begins
<1>2. CASE Next
  BY <1>2, WorldKeepsInv, DiffKeepsInv, SendKeepsInv, WriteKeepsInv, EndKeepsInv
     DEF Next, PullStep
<1> QED  BY <1>1, <1>2

LEMMA RepullInvariant == Spec => []RepullInv
  BY RepullInitially, RepullStep, PTL DEF Spec

-----------------------------------------------------------------------------
(* Every variable keeps its type: the client never writes beyond what was   *)
(* read, nor the session beyond the size its stat saw.                      *)
THEOREM RepullTypesCorrect == Spec => []TypeOK
<1>1. RepullInv => TypeOK  BY DEF RepullInv
<1> QED  BY <1>1, RepullInvariant, PTL

(* A pull that fetched a file nobody edited meanwhile leaves the file, of   *)
(* whatever size, over whatever an older pull left there.                   *)
THEOREM QuietDelivery == Spec => []QuietPullDelivers
<1>1. RepullInv => QuietPullDelivers  BY DEF RepullInv
<1> QED  BY <1>1, RepullInvariant, PTL

(* However many pulls were killed or broke, none left behind what filesvc's *)
(* Exists takes for a file that was never edited and is not.                *)
THEOREM SkipsOnlyTheFile == Spec => []SkippedIsSameUnlessEdited
<1>1. RepullInv => SkippedIsSameUnlessEdited  BY DEF RepullInv
<1> QED  BY <1>1, RepullInvariant, PTL
=============================================================================
