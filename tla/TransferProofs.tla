--------------------------- MODULE TransferProofs ---------------------------
(***************************************************************************)
(* What is proved of Transfer for every instance of its constants.         *)
(*                                                                         *)
(*   Types      every variable keeps its type; the session never waits     *)
(*              with unflushed chunks (TypesCorrect, FlushedBeforeWaiting) *)
(*   Accounting a path that was asked for is in one place only on its way  *)
(*              (PullInvariant), so Pull does what Delivery promises       *)
(*              (CountIsRight, WaitsOnlyForDirectories, WritesWhatItAwaits,*)
(*              ImplementsDelivery)                                        *)
(*   Content    what the files hold (HoldsWhatWasSent, ArrivesWhole,       *)
(*              DoneIsWhole) and which entry of the server's disk is sent  *)
(*              (SendsWhatWasListed)                                       *)
(*   The bar    what Progress counts (BarFits)                             *)
(***************************************************************************)
EXTENDS Transfer, SequenceTheorems, FiniteSetTheorems, TLAPS

-----------------------------------------------------------------------------
(* Types. *)
(* Download waits only while files of its batch are left. *)
WaitsForSome == cpc = "recv" => remaining > 0

TypeInv == TypeOK /\ WaitsForSome

-----------------------------------------------------------------------------
(* The frames and requests the two sides build.                             *)
LEMMA FrameTypes ==
  /\ \A c \in {404, 500} : ErrorMessage(c) \in Frame
  /\ \A p \in Path : BatchDone(p) \in Frame
  /\ \A fis \in SUBSET FileInfo : ListResponse(fis) \in Frame
  /\ \A p \in Path, o \in Nat, d \in Seq(Block), l \in BOOLEAN :
       DataChunk(p, o, d, l) \in Frame
BY DEF Frame, ErrorMessage, BatchDone, ListResponse, DataChunk

LEMMA RequestTypes ==
  /\ \A d \in Dir \cup {NoDir} : ListRequest(d) \in Request
  /\ \A fs \in Seq(Path) : DownloadReq(fs) \in Request
BY DEF Request, ListRequest, DownloadReq

(* Whatever a write of the session's encoder does, frames stay frames.      *)
WriterTypeOK ==
  /\ toClient \in Seq(Frame)
  /\ wbuf \in Seq(Frame)
  /\ werr \in BOOLEAN

LEMMA EmitType ==
  ASSUME WriterTypeOK, NEW fs \in Seq(Frame), Emit(fs)
  PROVE  toClient' \in Seq(Frame)
BY ConcatProperties DEF WriterTypeOK, Emit

LEMMA EncodeTypes ==
  ASSUME WriterTypeOK, NEW m \in Frame, Encode(m)
  PROVE  WriterTypeOK'
<1>1. Append(wbuf, m) \in Seq(Frame)
  BY DEF WriterTypeOK
<1>2. toClient' \in Seq(Frame)
  BY <1>1, EmitType DEF Encode
<1>3. wbuf' \in Seq(Frame) /\ werr' \in BOOLEAN
  BY DEF WriterTypeOK, Encode
<1> QED
  BY <1>2, <1>3 DEF WriterTypeOK

LEMMA EncodeFailsTypes ==
  ASSUME WriterTypeOK, EncodeFails
  PROVE  WriterTypeOK'
BY DEF WriterTypeOK, EncodeFails

LEMMA WriteChunkTypes ==
  ASSUME WriterTypeOK, NEW f \in Frame, WriteChunk(f)
  PROVE  WriterTypeOK'
<1>1. Append(wbuf, f) \in Seq(Frame) /\ <<f>> \in Seq(Frame) /\ <<>> \in Seq(Frame)
  BY DEF WriterTypeOK
<1>2. toClient' \in Seq(Frame)
  <2>1. CASE UNCHANGED toClient
    BY <2>1 DEF WriterTypeOK
  <2>2. CASE Emit(wbuf)
    BY <2>2, EmitType DEF WriterTypeOK
  <2>3. CASE Emit(Append(wbuf, f))
    BY <2>3, <1>1, EmitType
  <2> QED
    BY <2>1, <2>2, <2>3 DEF WriteChunk
<1>3. wbuf' \in Seq(Frame)
  BY <1>1 DEF WriteChunk
<1>4. werr' \in BOOLEAN
  BY DEF WriterTypeOK, WriteChunk
<1> QED
  BY <1>2, <1>3, <1>4 DEF WriterTypeOK

LEMMA ReportTypes ==
  ASSUME WriterTypeOK, NEW c \in {404, 500}, Report(c)
  PROVE  WriterTypeOK'
BY EncodeTypes, EncodeFailsTypes, FrameTypes DEF Report

(* filesvc.Walk lists well-formed entries.                                  *)
LEMMA WalkType ==
  ASSUME SessionTypeOK, NEW d \in Dir
  PROVE  Walk(d) \in SUBSET FileInfo
<1>1. ASSUME NEW p \in Path PROVE ListedSize(disk[d][p]) \in Nat
  BY SessionAssumption DEF SessionTypeOK, Entry, ListedSize
<1>2. ASSUME NEW p \in Path
      PROVE  [path |-> p, isDir |-> disk[d][p].kind = "dir",
              size |-> ListedSize(disk[d][p])] \in FileInfo
  <2>1. (disk[d][p].kind = "dir") \in BOOLEAN
    OBVIOUS
  <2> HIDE DEF ListedSize
  <2> QED
    BY <1>1, <2>1, Zenon DEF FileInfo
<1> QED
  BY <1>2 DEF Walk

(* A read returns blocks of the file.                                       *)
LEMMA ReadAtType ==
  ASSUME NEW data \in Seq(Block), NEW off \in Nat, NEW size \in Nat
  PROVE  ReadAt(data, off, size) \in Seq(Block)
<1>1. BufLen \in Nat
  BY SessionAssumption DEF BufLen
<1>2. \A m, n \in Int : 1 <= m /\ n <= Len(data) => SubSeq(data, m, n) \in Seq(Block)
  <2> SUFFICES ASSUME NEW m \in Int, NEW n \in Int, 1 <= m, n <= Len(data)
               PROVE  SubSeq(data, m, n) \in Seq(Block)
    OBVIOUS
  <2>1. \A i \in m..n : data[i] \in Block
    BY ElementOfSeq
  <2> QED
    BY <2>1, SubSeqProperties
<1> QED
  BY <1>1, <1>2 DEF ReadAt

(* Overlaying a chunk gives a sequence of blocks.                           *)
LEMMA OverlayType ==
  ASSUME NEW old \in Seq(Block), NEW off \in Nat, NEW data \in Seq(Block)
  PROVE  Overlay(old, off, data) \in Seq(Block)
<1> DEFINE end == off + Len(data)
           n == IF end > Len(old) THEN end ELSE Len(old)
<1>1. n \in Nat
  OBVIOUS
<1> DEFINE v(i) == IF off < i /\ i <= end THEN data[i - off]
                   ELSE IF i <= Len(old) THEN old[i] ELSE Zero
<1>2. ASSUME NEW i \in 1..n PROVE v(i) \in Block
  BY PullerAssumption
<1>3. Overlay(old, off, data) = [i \in 1..n |-> v(i)]
  BY DEF Overlay
<1> HIDE DEF v, n
<1>4. Overlay(old, off, data) \in [1..n -> Block]
  BY <1>2, <1>3
<1> QED
  BY <1>1, <1>4, SeqDef

-----------------------------------------------------------------------------
(* Every step of the session keeps the types.                               *)
LEMMA WireSplit ==
  WireTypeOK <=> /\ WriterTypeOK
                 /\ toServer \in Seq(Request)
                 /\ link \in {"up", "down"}
BY DEF WireTypeOK, WriterTypeOK

LEMMA SessionNextType ==
  ASSUME WireTypeOK, SessionTypeOK, SessionNext, UNCHANGED disk
  PROVE  WireTypeOK' /\ SessionTypeOK'
<1> USE DEF wireVars
<1>w. /\ WriterTypeOK
      /\ toServer \in Seq(Request)
      /\ link \in {"up", "down"}
  BY WireSplit
<1>d. disk' \in [Dir -> [Path -> Entry]]
  BY DEF SessionTypeOK
<1>1. CASE HandleList
  <2> DEFINE root == Head(toServer).root
  <2>1. toServer' \in Seq(Request) /\ link' = link /\ Head(toServer) \in Request
    BY <1>1, <1>w DEF HandleList, Decodes
  <2>2. root \in Dir \cup {NoDir}
    BY <2>1, <1>1 DEF HandleList, Decodes, Request
  <2>3. ASSUME NEW m \in Frame, Reply(m)
        PROVE  WriterTypeOK' /\ spc' \in {spc, "ended"}
    BY <2>3, <1>w, EncodeTypes, EncodeFailsTypes DEF Reply
  <2>4. WriterTypeOK' /\ spc' \in {spc, "ended"}
    <3>1. CASE root = NoDir
      BY <3>1, <1>1, <2>3, FrameTypes DEF HandleList
    <3>2. CASE root # NoDir
      <4>1. Reply(ListResponse(Walk(root))) \/ Reply(ErrorMessage(500))
        BY <3>2, <1>1 DEF HandleList
      <4>2. ListResponse(Walk(root)) \in Frame
        BY <3>2, <2>2, WalkType, FrameTypes
      <4> QED
        BY <4>1, <4>2, <2>3, FrameTypes
    <3> QED
      BY <3>1, <3>2
  <2>5. listRoot' \in Dir \cup {NoDir}
    BY <1>1, <2>2 DEF HandleList, SessionTypeOK
  <2>6. spc = "decode" /\ UNCHANGED <<queue, cur, sent, skipped, unsteady>>
    BY <1>1 DEF HandleList, Decodes
  <2> QED
    BY <1>w, <1>d, <2>1, <2>4, <2>5, <2>6, WireSplit DEF SessionTypeOK, WireTypeOK, WriterTypeOK
<1>2. CASE HandleDownload
  <2>1. toServer' \in Seq(Request) /\ Head(toServer) \in Request
    BY <1>2, <1>w DEF HandleDownload, Decodes
  <2>2. Head(toServer).files \in Seq(Path)
    BY <2>1, <1>2 DEF HandleDownload, Decodes, Request
  <2> QED
    BY <1>2, <1>w, <1>d, <2>1, <2>2
    DEF HandleDownload, Decodes, SessionTypeOK, WireTypeOK, WriterTypeOK
<1>3. CASE BatchHandled
  BY <1>3, <1>d DEF BatchHandled, SessionTypeOK, WireTypeOK
<1>4. CASE FileMissing
  <2>1. WriterTypeOK'
    BY <1>4, <1>w, ReportTypes DEF FileMissing
  <2> QED
    BY <1>4, <1>w, <1>d, <2>1, SMTT(30) DEF FileMissing, SessionTypeOK, WireTypeOK, WriterTypeOK
<1>5. CASE ResolveFile
  <2>1. PICK d \in Dir : cur' = [path |-> Head(queue), found |-> d,
                                dir |-> SendRoot(d), size |-> 0, offset |-> 0]
    BY <1>5 DEF ResolveFile
  <2>2. Head(queue) \in Path /\ queue' \in Seq(Path)
    BY <1>5 DEF ResolveFile, SessionTypeOK
  <2>3. SendRoot(d) \in Dir
    BY DEF SendRoot, SessionTypeOK
  <2>4. cur' \in Job
    BY <2>1, <2>2, <2>3 DEF Job
  <2> QED
    BY <1>5, <1>d, <2>2, <2>4 DEF ResolveFile, SessionTypeOK, WireTypeOK
<1>6. CASE StatFails
  <2>1. WriterTypeOK'
    BY <1>6, <1>w, ReportTypes DEF StatFails
  <2> QED
    BY <1>6, <1>w, <1>d, <2>1 DEF StatFails, SessionTypeOK, WireTypeOK, WriterTypeOK
<1>7. CASE SkipDirectory
  BY <1>7, <1>d DEF SkipDirectory, SessionTypeOK, WireTypeOK, Job
<1>8. CASE StatFile
  <2>1. cur \in Job /\ cur.path \in Path /\ Found.data \in Seq(Block)
    BY <1>8 DEF StatFile, SessionTypeOK, Job, Entry, Found
  <2>2. cur' \in Job
    BY <1>8, <2>1 DEF StatFile, Job
  <2>3. sent' \in [Path -> [seen : Seq(Block), data : Seq(Block), chunks : Nat]]
    BY <1>8, <2>1 DEF StatFile, SessionTypeOK
  <2>4. unsteady' \in SUBSET Path
    BY <1>8, <2>1 DEF StatFile, SessionTypeOK
  <2> QED
    BY <1>8, <1>d, <2>2, <2>3, <2>4 DEF StatFile, SessionTypeOK, WireTypeOK
<1>f. ASSUME NEW data \in Seq(Block), Framed(data), cur \in Job
      PROVE  sent' \in [Path -> [seen : Seq(Block), data : Seq(Block), chunks : Nat]]
  <2> DEFINE old == sent[cur.path]
  <2>1. /\ cur.path \in Path
        /\ sent \in [Path -> [seen : Seq(Block), data : Seq(Block), chunks : Nat]]
        /\ old \in [seen : Seq(Block), data : Seq(Block), chunks : Nat]
    BY <1>f DEF SessionTypeOK, Job
  <2>2. old.data \o data \in Seq(Block) /\ old.chunks + 1 \in Nat
    BY <1>f, <2>1, ConcatProperties
  <2>3. sent' = [sent EXCEPT ![cur.path] =
                   [old EXCEPT !.data = old.data \o data, !.chunks = old.chunks + 1]]
    BY <1>f, <2>1 DEF Framed
  <2> QED
    BY <2>1, <2>2, <2>3
<1>9. CASE SendFile
  <2>1. CASE OpenFile
    BY <2>1, <1>d DEF OpenFile, SessionTypeOK, WireTypeOK
  <2>2. CASE SendEmptyFile
    <3>1. cur \in Job /\ <<>> \in Seq(Block)
      BY <2>2 DEF SendEmptyFile, SessionTypeOK
    <3>2. DataChunk(cur.path, 0, <<>>, TRUE) \in Frame
      BY <3>1, FrameTypes DEF Job
    <3>3. WriterTypeOK'
      BY <2>2, <1>w, <3>2, WriteChunkTypes DEF SendEmptyFile
    <3> QED
      BY <2>2, <1>w, <1>d, <1>f, <3>1, <3>3
      DEF SendEmptyFile, SessionTypeOK, WireTypeOK, WriterTypeOK
  <2>3. CASE SendChunk
    <3> DEFINE data == ReadAt(Opened.data, cur.offset, cur.size)
    <3>1. cur \in Job /\ cur.path \in Path /\ cur.offset \in Nat /\ cur.size \in Nat
      BY <2>3 DEF SendChunk, SessionTypeOK, Job
    <3>2. data \in Seq(Block)
      <4>1. Opened.data \in Seq(Block)
        BY <3>1 DEF Opened, SessionTypeOK, Entry, Job
      <4> QED
        BY <4>1, <3>1, ReadAtType
    <3>3. cur.offset + Len(data) \in Nat
      BY <3>1, <3>2
    <3> HIDE DEF data
    <3>4. /\ WriteChunk(DataChunk(cur.path, cur.offset, data, IsLast(cur.offset + Len(data))))
          /\ Framed(data)
          /\ cur' = [cur EXCEPT !.offset = cur.offset + Len(data)]
          /\ spc' \in {"send", "close"}
          /\ UNCHANGED <<toServer, link, listRoot, queue, skipped, unsteady>>
      BY <2>3 DEF SendChunk, data
    <3>5. DataChunk(cur.path, cur.offset, data, IsLast(cur.offset + Len(data))) \in Frame
      <4>1. IsLast(cur.offset + Len(data)) \in BOOLEAN
        BY DEF IsLast
      <4> QED
        BY <4>1, <3>1, <3>2, FrameTypes
    <3>6. WriterTypeOK'
      BY <1>w, <3>4, <3>5, WriteChunkTypes
    <3>7. cur' \in Job
      BY <3>1, <3>3, <3>4 DEF Job
    <3>8. sent' \in [Path -> [seen : Seq(Block), data : Seq(Block), chunks : Nat]]
      BY <1>f, <3>1, <3>2, <3>4
    <3> QED
      BY <1>w, <1>d, <3>4, <3>6, <3>7, <3>8 DEF SessionTypeOK, WireTypeOK, WriterTypeOK
  <2>4. CASE SendStops
    BY <2>4, <1>d DEF SendStops, SessionTypeOK, WireTypeOK
  <2>5. CASE SendFails
    <3>1. WriterTypeOK'
      BY <2>5, <1>w, ReportTypes DEF SendFails
    <3> QED
      BY <2>5, <1>w, <1>d, <3>1 DEF SendFails, SessionTypeOK, WireTypeOK, WriterTypeOK
  <2> QED
    BY <1>9, <2>1, <2>2, <2>3, <2>4, <2>5 DEF SendFile
<1>10. CASE FinishFile
  <2>1. BatchDone(cur.path) \in Frame
    BY <1>10, FrameTypes DEF FinishFile, SessionTypeOK, Job
  <2>2. WriterTypeOK'
    BY <1>10, <1>w, <2>1, EncodeTypes, EncodeFailsTypes DEF FinishFile
  <2> QED
    BY <1>10, <1>w, <1>d, <2>2 DEF FinishFile, SessionTypeOK, WireTypeOK, WriterTypeOK
<1>11. CASE SessionEnds
  BY <1>11, <1>d DEF SessionEnds, SessionTypeOK, WireTypeOK
<1> QED
  BY <1>1, <1>2, <1>3, <1>4, <1>5, <1>6, <1>7, <1>8, <1>9, <1>10, <1>11 DEF SessionNext

-----------------------------------------------------------------------------
(* Every step of the client keeps the types, and Download's loop leaves     *)
(* when its count reaches zero.                                             *)
LEMMA BatchBounds ==
  ASSUME PullerTypeOK, next <= Len(toDownload)
  PROVE  /\ Batch \in Seq(Path)
         /\ BatchLen \in Nat \ {0}
         /\ BatchEnd \in Nat
         /\ next <= BatchEnd
         /\ BatchEnd <= Len(toDownload)
<1>1. BatchSize \in Nat /\ BatchSize >= 2
  BY PullerAssumption DEF BatchSize
<1>2. next \in Nat \ {0} /\ toDownload \in Seq(Path) /\ Len(toDownload) \in Nat
  BY LenProperties DEF PullerTypeOK
<1>3. BatchEnd \in Nat /\ next <= BatchEnd /\ BatchEnd <= Len(toDownload)
  BY <1>1, <1>2 DEF BatchEnd
<1>4. \A i \in next..BatchEnd : toDownload[i] \in Path
  BY <1>2, <1>3, ElementOfSeq
<1>5. Batch \in Seq(Path)
  BY <1>2, <1>3, <1>4, SubSeqProperties DEF Batch
<1> QED
  BY <1>2, <1>3, <1>5 DEF BatchLen

LEMMA SendRequestType ==
  ASSUME toServer \in Seq(Request), NEW m \in Request, SendRequest(m)
  PROVE  toServer' \in Seq(Request)
BY DEF SendRequest

LEMMA PullerNextType ==
  ASSUME WireTypeOK, PullerTypeOK, WaitsForSome, PullerNext
  PROVE  WireTypeOK' /\ PullerTypeOK' /\ WaitsForSome'
<1> USE DEF wireVars
<1>h. toClient # <<>> =>
        Head(toClient) \in Frame /\ Tail(toClient) \in Seq(Frame)
  BY DEF WireTypeOK
<1>1. CASE RequestListing
  <2>1. toServer' \in Seq(Request)
    BY <1>1, SendRequestType, RequestTypes DEF RequestListing, WireTypeOK
  <2> QED
    BY <1>1, <2>1 DEF RequestListing, WireTypeOK, PullerTypeOK, WaitsForSome
<1>2. CASE RecvListing
  <2>1. unscanned' \in SUBSET FileInfo
    BY <1>2, <1>h DEF RecvListing, PullerTypeOK, Frame
  <2> QED
    BY <1>2, <1>h, <2>1 DEF RecvListing, Return, WireTypeOK, PullerTypeOK, WaitsForSome
<1>3. CASE Scan
  <2>1. PICK fi \in unscanned :
          (ScanDir(fi) \/ SkipExisting(fi) \/ WantFile(fi)) /\ unscanned' = unscanned \ {fi}
    BY <1>3 DEF Scan
  <2>2. fi.path \in Path /\ fi.size \in Nat
    BY <2>1 DEF PullerTypeOK, FileInfo
  <2>3. /\ local' \in [Path -> LocalEntry]
        /\ expected' \in [Path -> Nat]
        /\ toDownload' \in Seq(Path)
        /\ Len(toDownload') >= Len(toDownload)
    <3>1. CASE ScanDir(fi)
      <4>1. [kind |-> "dir", data |-> <<>>] \in LocalEntry
        BY DEF LocalEntry
      <4> QED
        BY <3>1, <4>1, <2>2 DEF ScanDir, PullerTypeOK
    <3>2. CASE SkipExisting(fi)
      BY <3>2 DEF SkipExisting, PullerTypeOK
    <3>3. CASE WantFile(fi)
      BY <3>3, <2>2 DEF WantFile, PullerTypeOK
    <3> QED
      BY <2>1, <3>1, <3>2, <3>3
  <2>4. next <= Len(toDownload') + 1
    BY <2>3, LenProperties DEF PullerTypeOK
  <2> QED
    BY <1>3, <2>1, <2>3, <2>4 DEF Scan, WireTypeOK, PullerTypeOK, WaitsForSome
<1>4. CASE ScanDone
  BY <1>4 DEF ScanDone, WireTypeOK, PullerTypeOK, WaitsForSome
<1>5. CASE RequestBatch
  <2>1. DownloadReq(Batch) \in Request
    BY <1>5, BatchBounds, RequestTypes DEF RequestBatch
  <2>2. toServer' \in Seq(Request)
    BY <1>5, <2>1, SendRequestType DEF RequestBatch, WireTypeOK
  <2>3. /\ remaining' \in Nat /\ remaining' > 0
        /\ next' \in Nat \ {0} /\ next' <= Len(toDownload) + 1
    <3>1. /\ BatchLen \in Nat \ {0} /\ BatchEnd \in Nat
          /\ BatchEnd <= Len(toDownload)
      BY <1>5, BatchBounds DEF RequestBatch
    <3>2. Len(toDownload) \in Nat
      BY LenProperties DEF PullerTypeOK
    <3>3. remaining' = BatchLen /\ next' = BatchEnd + 1
      BY <1>5 DEF RequestBatch
    <3> QED
      BY <3>1, <3>2, <3>3
  <2>4. /\ cpc' = "recv"
        /\ UNCHANGED <<toClient, wbuf, werr, link, unscanned, toDownload, local,
                       expected, received, done, acked>>
    BY <1>5 DEF RequestBatch
  <2> QED
    BY <2>2, <2>3, <2>4 DEF WireTypeOK, PullerTypeOK, WaitsForSome
<1>6. CASE RecvChunk
  <2> DEFINE c == Head(toClient)
  <2>1. /\ c.path \in Path /\ c.offset \in Nat /\ c.data \in Seq(Block)
        /\ toClient' \in Seq(Frame)
    BY <1>6, <1>h DEF RecvChunk, Receives, Frame
  <2>2. Written(c) \in LocalEntry
    <3>1. Truncated(local[c.path].data, c.offset) \in Seq(Block)
      BY <2>1 DEF Truncated, PullerTypeOK, LocalEntry
    <3> QED
      BY <2>1, <3>1, OverlayType DEF Written, LocalEntry
  <2>3. ReceivedBytes(c) \in Nat
    BY <2>1, LenProperties DEF ReceivedBytes, PullerTypeOK
  <2>4. /\ local' = [local EXCEPT ![c.path] = Written(c)]
        /\ received' = [received EXCEPT ![c.path] = ReceivedBytes(c)]
        /\ done' \in {done, done \cup {c.path}}
        /\ UNCHANGED <<toServer, wbuf, werr, link, cpc, unscanned, toDownload, next,
                       remaining, expected, acked>>
    BY <1>6 DEF RecvChunk
  <2> HIDE DEF c
  <2>5. local' \in [Path -> LocalEntry] /\ received' \in [Path -> Nat]
    BY <2>1, <2>2, <2>3, <2>4 DEF PullerTypeOK
  <2> QED
    BY <2>1, <2>4, <2>5 DEF WireTypeOK, PullerTypeOK, WaitsForSome
<1>7. CASE WriteFails
  <2> DEFINE c == Head(toClient)
  <2>1. c.path \in Path /\ c.offset \in Nat /\ toClient' \in Seq(Frame)
    BY <1>7, <1>h DEF WriteFails, Receives, Frame
  <2>2. [kind |-> "file", data |-> Truncated(local[c.path].data, c.offset)] \in LocalEntry
    BY <2>1 DEF Truncated, PullerTypeOK, LocalEntry
  <2>3. local' \in [Path -> LocalEntry]
    BY <1>7, <2>1, <2>2 DEF WriteFails, PullerTypeOK
  <2> QED
    BY <1>7, <2>1, <2>3 DEF WriteFails, Return, WireTypeOK, PullerTypeOK, WaitsForSome
<1>8. CASE RecvBatchDone
  <2>1. Head(toClient).path \in Path /\ toClient' \in Seq(Frame)
    BY <1>8, <1>h DEF RecvBatchDone, Receives, Frame
  <2>2. remaining' \in Nat
    BY <1>8 DEF RecvBatchDone, Receives, PullerTypeOK, WaitsForSome
  <2> QED
    BY <1>8, <2>1, <2>2 DEF RecvBatchDone, WireTypeOK, PullerTypeOK, WaitsForSome
<1>9. CASE RecvError
  <2>1. toClient' \in Seq(Frame)
    BY <1>9, <1>h DEF RecvError, Receives
  <2> QED
    BY <1>9, <2>1 DEF RecvError, Return, WireTypeOK, PullerTypeOK, WaitsForSome
<1>10. CASE FinishPull
  BY <1>10 DEF FinishPull, Return, WireTypeOK, PullerTypeOK, WaitsForSome
<1>11. CASE ConnLost
  BY <1>11 DEF ConnLost, Return, WireTypeOK, PullerTypeOK, WaitsForSome
<1>12. CASE Render
  BY <1>12 DEF Render, wireVars, WireTypeOK, PullerTypeOK, WaitsForSome
<1>13. CASE RenderPanics
  BY <1>13 DEF RenderPanics, Return, WireTypeOK, PullerTypeOK, WaitsForSome
<1> QED
  BY <1>1, <1>2, <1>3, <1>4, <1>5, <1>6, <1>7, <1>8, <1>9, <1>10, <1>11,
     <1>12, <1>13
  DEF PullerNext, Download

-----------------------------------------------------------------------------
(* An edit leaves a well-formed entry on the disk. *)
LEMMA EditType ==
  ASSUME TypeInv, Edit
  PROVE  TypeInv'
<1>1. PICK d \in Dir, p \in Path, e \in EditEntries :
        /\ disk' = [disk EXCEPT ![d][p] = e]
        /\ unsteady' \in {unsteady, unsteady \cup {p}}
  BY DEF Edit
<1>2. disk' \in [Dir -> [Path -> Entry]]
  BY <1>1, TransferAssumption DEF TypeInv, TypeOK, SessionTypeOK
<1>3. unsteady' \in SUBSET Path
  BY <1>1 DEF TypeInv, TypeOK, SessionTypeOK
<1>4. edits' \in 0..MaxEdits
  BY TransferAssumption DEF Edit, TypeInv, TypeOK
<1> QED
  BY <1>2, <1>3, <1>4, ZenonT(30)
  DEF Edit, TypeInv, TypeOK, WireTypeOK, SessionTypeOK, PullerTypeOK, WaitsForSome,
      wireVars, pullerVars

LEMMA TypeInit == Init => TypeInv
<1> SUFFICES ASSUME Init PROVE TypeInv
  OBVIOUS
<1>1. WireTypeOK
  <2>1. <<>> \in Seq(Request) /\ <<>> \in Seq(Frame)
    BY EmptySeq
  <2> QED
    BY <2>1 DEF Init, WireInit, WireTypeOK
<1>2. SessionTypeOK
  BY TransferAssumption DEF Init, SessionInit, SessionTypeOK
<1>3. PullerTypeOK
  BY TransferAssumption DEF Init, PullerInit, PullerTypeOK
<1>4. edits \in 0..MaxEdits /\ WaitsForSome
  BY TransferAssumption DEF Init, PullerInit, WaitsForSome
<1> QED
  BY <1>1, <1>2, <1>3, <1>4 DEF TypeInv, TypeOK

LEMMA TypeStep == TypeInv /\ [Next]_vars => TypeInv'
<1> SUFFICES ASSUME TypeInv, [Next]_vars PROVE TypeInv'
  OBVIOUS
<1> USE DEF TypeInv, TypeOK
<1>1. CASE SessionStep
  <2>1. WireTypeOK' /\ SessionTypeOK'
    BY <1>1, SessionNextType DEF SessionStep
  <2> QED
    BY <1>1, <2>1 DEF SessionStep, pullerVars, PullerTypeOK, WaitsForSome
<1>2. CASE PullerStep
  <2>1. WireTypeOK' /\ PullerTypeOK' /\ WaitsForSome'
    BY <1>2, PullerNextType DEF PullerStep
  <2> QED
    BY <1>2, <2>1 DEF PullerStep, sessionVars, SessionTypeOK
<1>3. CASE Edit
  BY <1>3, EditType
<1>4. CASE Break
  BY <1>4 DEF Break, sessionVars, pullerVars, WireTypeOK, SessionTypeOK, PullerTypeOK,
              WaitsForSome
<1>5. CASE UNCHANGED vars
  BY <1>5 DEF vars, wireVars, sessionVars, pullerVars, WireTypeOK, SessionTypeOK,
              PullerTypeOK, WaitsForSome
<1> QED
  BY <1>1, <1>2, <1>3, <1>4, <1>5 DEF Next, Finished

(* Every variable keeps its type: no frame of another shape reaches either  *)
(* side, the batch loop's index stays within the files to download, and     *)
(* Download's count never goes below zero.                                  *)
THEOREM TypesCorrect == Spec => []TypeOK
<1>1. TypeInv => TypeOK
  BY DEF TypeInv
<1> QED
  BY <1>1, TypeInit, TypeStep, PTL DEF Spec

-----------------------------------------------------------------------------
(* The strengthening: the buffer is empty up to the first chunk of a file,  *)
(* so the session may pass through "open" as well.                          *)
FlushInv == spc \in {"decode", "next", "stat", "open"} /\ ~werr => wbuf = <<>>

LEMMA FlushStep == FlushInv /\ [Next]_vars => FlushInv'
<1> SUFFICES ASSUME FlushInv, [Next]_vars PROVE FlushInv'
  OBVIOUS
<1> USE DEF FlushInv
<1>e. ASSUME NEW m, Encode(m) PROVE wbuf' = <<>>
  BY <1>e DEF Encode
<1>f. ASSUME EncodeFails PROVE werr'
  BY <1>f DEF EncodeFails
<1>r. ASSUME NEW c, Report(c) PROVE wbuf' = <<>> \/ werr'
  BY <1>r, <1>e, <1>f DEF Report
<1>1. CASE SessionStep
  <2>1. CASE HandleList
    <3>1. \A m : Reply(m) => wbuf' = <<>> \/ werr'
      BY <1>e, <1>f DEF Reply
    <3> QED
      BY <2>1, <3>1 DEF HandleList
  <2>2. CASE HandleDownload \/ BatchHandled \/ ResolveFile \/ SkipDirectory \/ StatFile
              \/ SessionEnds
    BY <2>2 DEF HandleDownload, Decodes, BatchHandled, ResolveFile, SkipDirectory,
                StatFile, SessionEnds, wireVars
  <2>3. CASE FileMissing \/ StatFails \/ SendFails
    BY <2>3, <1>r DEF FileMissing, StatFails, SendFails
  <2>4. CASE OpenFile \/ SendEmptyFile \/ SendChunk \/ SendStops
    BY <2>4 DEF OpenFile, SendEmptyFile, SendChunk, SendStops
  <2>5. CASE FinishFile
    BY <2>5, <1>e, <1>f DEF FinishFile
  <2> QED
    BY <1>1, <2>1, <2>2, <2>3, <2>4, <2>5 DEF SessionStep, SessionNext, SendFile
<1>2. CASE PullerStep
  BY <1>2 DEF PullerStep, PullerNext, Download, sessionVars, wireVars, RequestListing,
              RecvListing, Scan, ScanDone, RequestBatch, RecvChunk, WriteFails,
              RecvBatchDone, RecvError, Render, RenderPanics, Return, FinishPull,
              ConnLost
<1>3. CASE Edit \/ Break \/ UNCHANGED vars
  BY <1>3 DEF Edit, Break, vars, wireVars, sessionVars
<1> QED
  BY <1>1, <1>2, <1>3 DEF Next, Finished

(* The session never goes back to wait for the client, nor on to the next   *)
(* file, with chunks left in its writer: however many chunks the buffer     *)
(* holds, and whether the last file was sent, cut short or given up.        *)
THEOREM FlushedBeforeWaiting == Spec => []ServerFlushesBeforeWaiting
<1>1. Init => FlushInv
  BY DEF Init, WireInit, FlushInv
<1>2. FlushInv => ServerFlushesBeforeWaiting
  BY DEF FlushInv, ServerFlushesBeforeWaiting
<1> QED
  BY <1>1, <1>2, FlushStep, PTL DEF Spec
-----------------------------------------------------------------------------
(***************************************************************************)
(* Accounting.  The protocol has no request numbers, so each path that was *)
(* asked for and is not acknowledged has to be in one place only on its    *)
(* way through the session.                                                *)
(***************************************************************************)
Running == cpc \notin {"ok", "failed"}

Distinct(s) == \A i, j \in 1..Len(s) : s[i] = s[j] => i = j

UniquePaths(fis) == \A fi, gi \in fis : fi.path = gi.path => fi = gi

(* Asked for and not acknowledged, wherever Pull is. *)
Owed == Asked \ acked

IsAck(f)    == f.type = "BatchDone"
OfFile(f)   == f.type \in {"DataChunk", "BatchDone"}

-----------------------------------------------------------------------------
(* The listing names a path once, so the diff wants it once.                *)
ListingInv ==
  /\ UniquePaths(unscanned)
  /\ \A i \in 1..Len(toClient) :
       toClient[i].type = "ListResponse" => UniquePaths(toClient[i].files)
  /\ Distinct(toDownload)
  /\ \A fi \in unscanned, i \in 1..Len(toDownload) : toDownload[i] # fi.path
  /\ cpc \in {"start", "list"} => toDownload = <<>>
  /\ cpc \notin {"scan", "ok", "failed"} => unscanned = {}
  /\ cpc \in {"start", "list", "scan"} => next = 1

(* Between requests the streams are empty; one request is answered before   *)
(* the next is sent.                                                        *)
TurnsInv ==
  /\ cpc \in {"start", "scan", "batch", "render"} => toServer = <<>>
  /\ Len(toServer) <= 1
  /\ cpc = "list" => \A k \in 1..Len(toServer) : toServer[k].type = "ListRequest"
  /\ cpc = "recv" => \A k \in 1..Len(toServer) : toServer[k].type = "DownloadReq"
  /\ cpc = "list" /\ toServer # <<>> => toClient = <<>>
  /\ cpc = "list" => Len(toClient) <= 1
  /\ cpc \notin {"list", "recv"} => toClient = <<>>
  /\ cpc # "list" => \A i \in 1..Len(toClient) : toClient[i].type # "ListResponse"

(* Where a path can be that the session has yet to look at. *)
Requested(p) ==
  \E k \in 1..Len(toServer) :
    /\ toServer[k].type = "DownloadReq"
    /\ \E i \in 1..Len(toServer[k].files) : toServer[k].files[i] = p

Queued(p) == \E i \in 1..Len(queue) : queue[i] = p

Current(p) == cur # NoJob /\ cur.path = p

AckedOnWire(p) ==
  \E i \in 1..Len(toClient) : IsAck(toClient[i]) /\ toClient[i].path = p

OnWire(p) ==
  \E i \in 1..Len(toClient) : OfFile(toClient[i]) /\ toClient[i].path = p

RequestInv ==
  \A k \in 1..Len(toServer) : toServer[k].type = "DownloadReq" =>
    /\ Distinct(toServer[k].files)
    /\ \A i \in 1..Len(toServer[k].files) : toServer[k].files[i] \in Owed
    /\ queue = <<>> /\ cur = NoJob
    /\ toClient = <<>>

SessionInv ==
  /\ spc = "decode" => queue = <<>>
  /\ Distinct(queue)
  /\ \A i \in 1..Len(queue) : queue[i] \in Owed
  /\ cur # NoJob => cur.path \in Owed /\ ~ Queued(cur.path)

ClientStreamInv ==
  /\ \A p \in Path : OnWire(p) => p \in Owed /\ ~ Queued(p)
  /\ \A p \in Path : AckedOnWire(p) => ~ Current(p)
  /\ \A i, j \in 1..Len(toClient) :
       i < j /\ IsAck(toClient[i]) /\ OfFile(toClient[j]) =>
         toClient[i].path # toClient[j].path

BufferInv ==
  ~ werr => \A i \in 1..Len(wbuf) :
              wbuf[i].type = "DataChunk" /\ Current(wbuf[i].path)

(* A path that will never be acknowledged, so that the count stays above 0. *)
Lost(p) ==
  ~ Requested(p) /\ ~ Queued(p) /\ ~ Current(p) /\ ~ AckedOnWire(p)

ErrorInv ==
  cpc # "list" /\ (\E i \in 1..Len(toClient) : toClient[i].type = "Error") =>
    \E p \in Owed : Lost(p)

CountInv ==
  /\ acked \subseteq Asked
  /\ cpc = "recv" => remaining = Cardinality(Owed)
  /\ cpc # "recv" => Owed = {}

AccountInv ==
  /\ acked \subseteq Asked
  /\ Running => /\ ListingInv /\ TurnsInv /\ RequestInv /\ SessionInv
                /\ ClientStreamInv /\ BufferInv /\ ErrorInv /\ CountInv

(* While the connection is up nothing gets lost but what was skipped. *)
LinkInv ==
  /\ ~ Running => link = "down"
  /\ spc = "ended" \/ werr => link = "down"
  /\ link = "up" /\ cpc = "list" => toServer # <<>> \/ toClient # <<>>
  /\ link = "up" =>
       \/ \E i \in 1..Len(toClient) : toClient[i].type = "Error"
       \/ \A p \in Owed : Lost(p) => p \in skipped

PullInv == TypeInv /\ FlushInv /\ AccountInv /\ LinkInv

-----------------------------------------------------------------------------
(* What the session's writer adds to the stream: chunks of the file at hand *)
(* that it had kept back, and at their end the frame m that it encodes.     *)
Grows(m) ==
  /\ Len(toClient') >= Len(toClient)
  /\ \A i \in 1..Len(toClient) : toClient'[i] = toClient[i]
  /\ \A i \in Len(toClient) + 1..Len(toClient') :
       \/ toClient'[i].type = "DataChunk" /\ Current(toClient'[i].path)
       \/ i = Len(toClient') /\ toClient'[i] = m

LEMMA EmitGrows ==
  ASSUME WriterTypeOK, NEW fs \in Seq(Frame), NEW m, Emit(fs),
         \A i \in 1..Len(fs) : \/ fs[i].type = "DataChunk" /\ Current(fs[i].path)
                               \/ i = Len(fs) /\ fs[i] = m
  PROVE  /\ Grows(m)
         /\ link = "up" /\ fs # <<>> =>
              /\ Len(toClient') > Len(toClient)
              /\ toClient'[Len(toClient')] = fs[Len(fs)]
<1>1. CASE link = "up"
  <2>1. toClient' = toClient \o fs
    BY <1>1 DEF Emit
  <2>2. /\ Len(toClient') = Len(toClient) + Len(fs)
        /\ \A i \in 1..Len(toClient) + Len(fs) :
             toClient'[i] = IF i <= Len(toClient) THEN toClient[i]
                                                  ELSE fs[i - Len(toClient)]
    BY <2>1, ConcatProperties DEF WriterTypeOK
  <2>3. Len(toClient) \in Nat /\ Len(fs) \in Nat
    BY LenProperties DEF WriterTypeOK
  <2>4. \A i \in Len(toClient) + 1..Len(toClient') :
           /\ i - Len(toClient) \in 1..Len(fs)
           /\ toClient'[i] = fs[i - Len(toClient)]
           /\ i = Len(toClient') <=> i - Len(toClient) = Len(fs)
    BY <2>2, <2>3
  <2>5. fs # <<>> => Len(fs) > 0
    BY EmptySeq
  <2>6. \A i \in 1..Len(toClient) : toClient'[i] = toClient[i]
    BY <2>2, <2>3
  <2>7. Grows(m)
    BY <2>2, <2>3, <2>4, <2>6 DEF Grows
  <2>8. fs # <<>> => /\ Len(toClient') > Len(toClient)
                     /\ toClient'[Len(toClient')] = fs[Len(fs)]
    BY <2>2, <2>3, <2>5
  <2> QED
    BY <2>7, <2>8
<1>2. CASE link # "up"
  <2>1. toClient' = toClient /\ Len(toClient) \in Nat
    BY <1>2, LenProperties DEF Emit, WriterTypeOK
  <2> QED
    BY <1>2, <2>1 DEF Grows
<1> QED
  BY <1>1, <1>2

LEMMA AppendedBuffer ==
  ASSUME WriterTypeOK, BufferInv, ~ werr, NEW m \in Frame
  PROVE  /\ Append(wbuf, m) \in Seq(Frame) /\ Append(wbuf, m) # <<>>
         /\ Append(wbuf, m)[Len(Append(wbuf, m))] = m
         /\ \A i \in 1..Len(Append(wbuf, m)) :
              \/ /\ Append(wbuf, m)[i].type = "DataChunk"
                 /\ Current(Append(wbuf, m)[i].path)
              \/ i = Len(Append(wbuf, m)) /\ Append(wbuf, m)[i] = m
<1>1. /\ Append(wbuf, m) \in Seq(Frame) /\ Append(wbuf, m) # <<>>
      /\ Len(Append(wbuf, m)) = Len(wbuf) + 1
      /\ \A i \in 1..Len(wbuf) : Append(wbuf, m)[i] = wbuf[i]
      /\ Append(wbuf, m)[Len(wbuf) + 1] = m
  BY AppendProperties DEF WriterTypeOK
<1>2. Len(wbuf) \in Nat
  BY LenProperties DEF WriterTypeOK
<1>3. \A i \in 1..Len(wbuf) + 1 : i \in 1..Len(wbuf) \/ i = Len(wbuf) + 1
  BY <1>2
<1> QED
  BY <1>1, <1>2, <1>3 DEF BufferInv

LEMMA EncodeGrows ==
  ASSUME WriterTypeOK, BufferInv, NEW m \in Frame, Encode(m)
  PROVE  /\ Grows(m)
         /\ wbuf' = <<>> /\ ~ werr /\ ~ werr'
         /\ link = "up" => /\ Len(toClient') > Len(toClient)
                           /\ toClient'[Len(toClient')] = m
<1>1. ~ werr /\ wbuf' = <<>> /\ ~ werr' /\ Emit(Append(wbuf, m))
  BY DEF Encode
<1> QED
  BY <1>1, AppendedBuffer, EmitGrows

LEMMA StaysGrows ==
  ASSUME WriterTypeOK, UNCHANGED toClient, NEW m
  PROVE  Grows(m)
<1>1. Len(toClient) \in Nat
  BY LenProperties DEF WriterTypeOK
<1> QED
  BY <1>1 DEF Grows

(* An error is reported, and on its way if the connection is up.            *)
LEMMA ReportGrows ==
  ASSUME WriterTypeOK, BufferInv, NEW c \in {404, 500}, Report(c)
  PROVE  /\ Grows(ErrorMessage(c))
         /\ wbuf' = <<>> \/ werr'
         /\ werr' => werr \/ link = "down"
         /\ link = "up" => \E i \in 1..Len(toClient') : toClient'[i].type = "Error"
<1>0. Len(toClient) \in Nat
  BY LenProperties DEF WriterTypeOK
<1>1. CASE Encode(ErrorMessage(c))
  <2>1. ErrorMessage(c) \in Frame /\ ErrorMessage(c).type = "Error"
    BY FrameTypes DEF ErrorMessage
  <2>2. WriterTypeOK'
    BY <1>1, <2>1, EncodeTypes
  <2>3. Len(toClient') \in Nat
    BY <2>2, LenProperties DEF WriterTypeOK
  <2> QED
    BY <1>0, <1>1, <2>1, <2>3, EncodeGrows
<1>2. CASE EncodeFails
  BY <1>2, StaysGrows DEF EncodeFails
<1> QED
  BY <1>1, <1>2 DEF Report

LEMMA ChunkGrows ==
  ASSUME WriterTypeOK, BufferInv, NEW f \in Frame, f.type = "DataChunk",
         Current(f.path), WriteChunk(f)
  PROVE  /\ Grows(f)
         /\ ~ werr /\ ~ werr'
         /\ \A i \in 1..Len(wbuf') :
              wbuf'[i].type = "DataChunk" /\ Current(wbuf'[i].path)
<1>0. ~ werr /\ ~ werr'
  BY DEF WriteChunk
<1>1. \A i \in 1..Len(wbuf) : wbuf[i].type = "DataChunk" /\ Current(wbuf[i].path)
  BY <1>0 DEF BufferInv
<1>2. \A i \in 1..Len(Append(wbuf, f)) : Append(wbuf, f)[i].type = "DataChunk"
                                       /\ Current(Append(wbuf, f)[i].path)
  BY <1>0, AppendedBuffer
<1>3. CASE wbuf' = Append(wbuf, f) /\ UNCHANGED toClient
  BY <1>0, <1>2, <1>3, StaysGrows
<1>4. CASE Emit(wbuf) /\ wbuf' = <<f>>
  <2>1. Grows(f)
    BY <1>1, <1>4, EmitGrows DEF WriterTypeOK
  <2>2. Len(wbuf') = 1 /\ wbuf'[1] = f
    BY <1>4
  <2> QED
    BY <1>0, <2>1, <2>2
<1>5. CASE Emit(Append(wbuf, f)) /\ wbuf' = <<>>
  <2>1. Append(wbuf, f) \in Seq(Frame)
    BY <1>0, AppendedBuffer
  <2>2. Grows(f)
    BY <1>2, <1>5, <2>1, EmitGrows
  <2> QED
    BY <1>0, <1>5, <2>2
<1> QED
  BY <1>3, <1>4, <1>5 DEF WriteChunk

-----------------------------------------------------------------------------
(* A step of the session moves a path from its queue to the file at hand,   *)
(* from there to the stream of the client, or off this way.                 *)
Moves ==
  /\ UNCHANGED <<pullerVars, toServer, link>>
  /\ \A p \in Path : Queued(p)' => Queued(p)
  /\ \A p \in Path : Current(p)' => Current(p) \/ (Queued(p) /\ UNCHANGED toClient)
  /\ skipped \subseteq skipped'

LEMMA OwedPaths ==
  ASSUME TypeOK
  PROVE  Owed \subseteq Path
<1>1. toDownload \in Seq(Path) /\ next \in Nat /\ next - 1 <= Len(toDownload)
      /\ Len(toDownload) \in Nat
  BY LenProperties DEF TypeOK, PullerTypeOK
<1>2. \A i \in 1..next - 1 : toDownload[i] \in Path
  BY <1>1, ElementOfSeq
<1> QED
  BY <1>2 DEF Owed, Asked

LEMMA FilePaths ==
  ASSUME NEW s \in Seq(Frame), NEW i \in 1..Len(s), OfFile(s[i])
  PROVE  s[i].path \in Path
<1>1. s[i] \in Frame
  BY ElementOfSeq
<1> QED
  BY <1>1 DEF Frame, OfFile

LEMMA NewFrames ==
  ASSUME TypeOK, TypeOK', NEW m, Grows(m), OfFile(m) => Current(m.path),
         NEW i \in 1..Len(toClient'), OfFile(toClient'[i])
  PROVE  \/ i \in 1..Len(toClient) /\ toClient'[i] = toClient[i]
         \/ /\ Current(toClient'[i].path)
            /\ IsAck(toClient'[i]) => i = Len(toClient') /\ IsAck(m)
<1>0. Len(toClient) \in Nat /\ Len(toClient') \in Nat
  BY LenProperties DEF TypeOK, WireTypeOK
<1>1. CASE i \in 1..Len(toClient)
  BY <1>1 DEF Grows
<1>2. CASE i \in Len(toClient) + 1..Len(toClient')
  BY <1>2 DEF Grows, OfFile, IsAck
<1> QED
  BY <1>0, <1>1, <1>2

LEMMA StreamKept ==
  ASSUME TypeOK, TypeOK', ClientStreamInv, SessionInv, Moves, NEW m, Grows(m),
         OfFile(m) => Current(m.path),
         IsAck(m) => cur' = NoJob
  PROVE  ClientStreamInv'
<1>0. Len(toClient) \in Nat /\ Len(toClient') \in Nat
      /\ toClient \in Seq(Frame) /\ toClient' \in Seq(Frame)
  BY LenProperties DEF TypeOK, WireTypeOK
<1>1. Owed' = Owed
  BY DEF Moves, pullerVars, Owed, Asked
<1>2. ASSUME NEW p \in Path, OnWire(p)'
      PROVE  p \in Owed' /\ ~ Queued(p)'
  <2>1. PICK i \in 1..Len(toClient') : OfFile(toClient'[i]) /\ toClient'[i].path = p
    BY <1>2 DEF OnWire
  <2>2. OnWire(p) \/ Current(p)
    BY <2>1, NewFrames DEF OnWire
  <2>3. p \in Owed /\ ~ Queued(p)
    BY <2>2 DEF ClientStreamInv, SessionInv, Current
  <2> QED
    BY <1>1, <2>3 DEF Moves
<1>3. ASSUME NEW p \in Path, AckedOnWire(p)'
      PROVE  ~ Current(p)'
  <2>1. PICK i \in 1..Len(toClient') : IsAck(toClient'[i]) /\ toClient'[i].path = p
    BY <1>3 DEF AckedOnWire
  <2>2. OfFile(toClient'[i])
    BY <2>1 DEF IsAck, OfFile
  <2>3. AckedOnWire(p) \/ cur' = NoJob
    BY <2>1, <2>2, NewFrames DEF AckedOnWire
  <2>4. CASE cur' = NoJob
    BY <2>4 DEF Current
  <2>5. CASE AckedOnWire(p)
    <3>1. OnWire(p) /\ ~ Current(p)
      BY <2>5 DEF ClientStreamInv, AckedOnWire, OnWire, IsAck, OfFile
    <3> QED
      BY <3>1 DEF ClientStreamInv, Moves
  <2> QED
    BY <2>3, <2>4, <2>5
<1>4. ASSUME NEW i \in 1..Len(toClient'), NEW j \in 1..Len(toClient'), i < j,
             IsAck(toClient'[i]), OfFile(toClient'[j])
      PROVE  toClient'[i].path # toClient'[j].path
  <2>0. OfFile(toClient'[i])
    BY <1>4 DEF IsAck, OfFile
  <2>1. i # Len(toClient')
    BY <1>0, <1>4
  <2>2. i \in 1..Len(toClient) /\ toClient'[i] = toClient[i]
    BY <1>4, <2>0, <2>1, NewFrames
  <2>3. CASE j \in 1..Len(toClient) /\ toClient'[j] = toClient[j]
    BY <1>4, <2>2, <2>3 DEF ClientStreamInv
  <2>4. CASE Current(toClient'[j].path)
    <3>1. toClient'[i].path \in Path
      BY <1>0, <2>0, FilePaths
    <3>2. AckedOnWire(toClient'[i].path)
      BY <1>4, <2>2 DEF AckedOnWire
    <3> QED
      BY <2>4, <3>1, <3>2 DEF ClientStreamInv
  <2> QED
    BY <1>4, <2>3, <2>4, NewFrames
<1> QED
  BY <1>2, <1>3, <1>4 DEF ClientStreamInv

(* What was lost stays so.                                                  *)
LEMMA LostKept ==
  ASSUME TypeOK, TypeOK', Moves, NEW m, Grows(m),
         OfFile(m) => Current(m.path),
         NEW p \in Path, Lost(p)
  PROVE  Lost(p)'
<1>0. Len(toClient) \in Nat /\ Len(toClient') \in Nat
  BY LenProperties DEF TypeOK, WireTypeOK
<1>1. ~ Requested(p)'
  BY DEF Lost, Requested, Moves
<1>2. ~ Queued(p)' /\ ~ Current(p)'
  BY DEF Lost, Moves
<1>3. ASSUME AckedOnWire(p)' PROVE FALSE
  <2>1. PICK i \in 1..Len(toClient') : IsAck(toClient'[i]) /\ toClient'[i].path = p
    BY <1>3 DEF AckedOnWire
  <2>2. OfFile(toClient'[i])
    BY <2>1 DEF IsAck, OfFile
  <2> QED
    BY <2>1, <2>2, NewFrames DEF Lost, AckedOnWire
<1> QED
  BY <1>1, <1>2, <1>3 DEF Lost

(* An error on the wire, old or new, is accompanied by a path that is lost. *)
LEMMA ErrorKept ==
  ASSUME TypeOK, TypeOK', ErrorInv, Moves, NEW m, Grows(m),
         OfFile(m) => Current(m.path),
         m.type = "Error" => \E p \in Owed : Lost(p)'
  PROVE  ErrorInv'
<1>1. Owed' = Owed /\ cpc' = cpc
  BY DEF Moves, pullerVars, Owed, Asked
<1>2. SUFFICES ASSUME cpc # "list", NEW i \in 1..Len(toClient'),
                      toClient'[i].type = "Error"
               PROVE  \E p \in Owed : Lost(p)'
  BY <1>1 DEF ErrorInv
<1>3. Len(toClient) \in Nat /\ Len(toClient') \in Nat
  BY LenProperties DEF TypeOK, WireTypeOK
<1>4. CASE i \in 1..Len(toClient)
  <2>1. PICK p \in Owed : Lost(p)
    BY <1>2, <1>4 DEF Grows, ErrorInv
  <2>2. p \in Path
    BY OwedPaths
  <2> QED
    BY <2>1, <2>2, LostKept
<1>5. CASE i \in Len(toClient) + 1..Len(toClient')
  BY <1>2, <1>5 DEF Grows
<1> QED
  BY <1>3, <1>4, <1>5

(* Nothing but a directory gets off the way while the connection is up,     *)
(* unless an error takes its place on the wire.                             *)
Kept ==
  link = "up" =>
    \/ \E i \in 1..Len(toClient') : toClient'[i].type = "Error"
    \/ \A p \in Path : Queued(p) \/ Current(p) =>
         Queued(p)' \/ Current(p)' \/ AckedOnWire(p)' \/ p \in skipped'

LEMMA FirstOf ==
  ASSUME NEW S, NEW s \in Seq(S), s # <<>>
  PROVE  1 \in 1..Len(s) /\ s[1] \in S
<1>1. 1 \in 1..Len(s)
  BY EmptySeq
<1> QED
  BY <1>1, ElementOfSeq

LEMMA EmptyIffNone ==
  ASSUME TypeOK
  PROVE  /\ queue = <<>> <=> \A p \in Path : ~ Queued(p)
         /\ cur = NoJob <=> \A p \in Path : ~ Current(p)
<1>1. queue \in Seq(Path) /\ Len(queue) \in Nat
  BY LenProperties DEF TypeOK, SessionTypeOK
<1>2. queue # <<>> => Queued(queue[1]) /\ queue[1] \in Path
  BY <1>1, FirstOf DEF Queued
<1>3. queue = <<>> => \A p \in Path : ~ Queued(p)
  BY DEF Queued
<1>4. cur # NoJob => cur \in Job
  BY DEF TypeOK, SessionTypeOK
<1>5. cur # NoJob => Current(cur.path) /\ cur.path \in Path
  BY <1>4 DEF Current, Job
<1> QED
  BY <1>2, <1>3, <1>5 DEF Current

(* A step of the session that takes no request.                             *)
LEMMA StepKeeps ==
  ASSUME TypeOK, TypeOK', AccountInv, LinkInv, Running, Moves, NEW m, Grows(m),
         OfFile(m) => Current(m.path),
         IsAck(m) => cur' = NoJob,
         m.type # "ListResponse",
         m.type = "Error" => \E p \in Owed : Lost(p)',
         toClient' # toClient => queue # <<>> \/ cur # NoJob,
         SessionInv', BufferInv',
         spc' = "ended" \/ werr' => link = "down",
         Kept
  PROVE  AccountInv' /\ LinkInv'
<1>0. Len(toClient) \in Nat /\ Len(toClient') \in Nat
      /\ toClient \in Seq(Frame) /\ toClient' \in Seq(Frame)
  BY LenProperties DEF TypeOK, WireTypeOK
<1>1. /\ UNCHANGED <<cpc, unscanned, toDownload, next, remaining, acked>>
      /\ UNCHANGED <<toServer, link>>
      /\ Owed' = Owed /\ Asked' = Asked /\ Running' = Running
  BY DEF Moves, pullerVars, Owed, Asked, Running
<1>2. /\ ListingInv /\ TurnsInv /\ RequestInv /\ SessionInv /\ ClientStreamInv
      /\ BufferInv /\ ErrorInv /\ CountInv
  BY DEF AccountInv
<1>3. ASSUME toClient' # toClient PROVE cpc = "recv" /\ toServer = <<>>
  <2>1. queue # <<>> \/ cur # NoJob
    BY <1>3
  <2>2. Owed # {}
    <3>1. CASE queue # <<>>
      <4>1. PICK p \in Path : Queued(p)
        BY <3>1, EmptyIffNone
      <4> QED
        BY <1>2, <4>1 DEF SessionInv, Queued
    <3>2. CASE cur # NoJob
      BY <1>2, <3>2 DEF SessionInv
    <3> QED
      BY <2>1, <3>1, <3>2
  <2>3. cpc = "recv"
    BY <1>2, <2>2 DEF CountInv
  <2>4. ASSUME toServer # <<>> PROVE FALSE
    <3>1. 1 \in 1..Len(toServer)
      BY <2>4, EmptySeq DEF TypeOK, WireTypeOK
    <3> QED
      BY <1>2, <2>1, <2>3, <3>1 DEF TurnsInv, RequestInv
  <2> QED
    BY <2>3, <2>4
<1>4. ListingInv'
  <2>1. ASSUME NEW i \in 1..Len(toClient'), toClient'[i].type = "ListResponse"
        PROVE  UniquePaths(toClient'[i].files)
    <3>1. i \in 1..Len(toClient)
      BY <1>0, <2>1 DEF Grows
    <3> QED
      BY <1>2, <2>1, <3>1 DEF Grows, ListingInv
  <2> QED
    BY <1>1, <1>2, <2>1 DEF ListingInv, UniquePaths
<1>5. TurnsInv'
  <2>1. CASE toClient' = toClient
    BY <1>1, <1>2, <2>1 DEF TurnsInv
  <2>2. CASE toClient' # toClient
    <3>1. \A i \in 1..Len(toClient') : toClient'[i].type # "ListResponse"
      <4> SUFFICES ASSUME NEW i \in 1..Len(toClient')
                   PROVE  toClient'[i].type # "ListResponse"
        OBVIOUS
      <4>1. CASE i \in 1..Len(toClient)
        BY <1>2, <1>3, <2>2, <4>1 DEF Grows, TurnsInv
      <4>2. CASE i \in Len(toClient) + 1..Len(toClient')
        BY <4>2 DEF Grows
      <4> QED
        BY <1>0, <4>1, <4>2
    <3> QED
      BY <1>1, <1>2, <1>3, <2>2, <3>1 DEF TurnsInv
  <2> QED
    BY <2>1, <2>2
<1>6. RequestInv'
  <2> SUFFICES ASSUME NEW k \in 1..Len(toServer), toServer[k].type = "DownloadReq"
               PROVE  queue' = <<>> /\ cur' = NoJob /\ toClient' = <<>>
    BY <1>1, <1>2 DEF RequestInv, Distinct
  <2>1. queue = <<>> /\ cur = NoJob /\ toClient = <<>>
    BY <1>2 DEF RequestInv
  <2>2. \A p \in Path : ~ Queued(p)' /\ ~ Current(p)'
    BY <2>1, EmptyIffNone DEF Moves
  <2>3. queue' = <<>>
    BY <2>2, FirstOf DEF TypeOK, SessionTypeOK, Queued
  <2>4. cur' = NoJob
    BY <2>2 DEF TypeOK, SessionTypeOK, Current, Job
  <2> QED
    BY <2>1, <2>3, <2>4
<1>7. ClientStreamInv'
  BY <1>2, StreamKept
<1>8. ErrorInv'
  BY <1>2, ErrorKept
<1>9. CountInv' /\ (acked \subseteq Asked)'
  BY <1>1, <1>2 DEF CountInv, AccountInv
<1>10. AccountInv'
  BY <1>4, <1>5, <1>6, <1>7, <1>8, <1>9 DEF AccountInv
<1>11. LinkInv'
  <2>1. link = "up" /\ cpc = "list" => toServer' # <<>> \/ toClient' # <<>>
    <3>1. toClient # <<>> => toClient' # <<>>
      <4> SUFFICES ASSUME toClient # <<>> PROVE toClient' # <<>>
        OBVIOUS
      <4>1. Len(toClient) > 0
        BY <1>0, EmptySeq
      <4> QED
        BY <1>0, <4>1 DEF Grows
    <3> QED
      BY <1>1, <3>1 DEF LinkInv
  <2>2. ASSUME link = "up"
        PROVE  \/ \E i \in 1..Len(toClient') : toClient'[i].type = "Error"
               \/ \A p \in Owed : Lost(p)' => p \in skipped'
    <3>1. CASE \E i \in 1..Len(toClient) : toClient[i].type = "Error"
      <4>1. PICK i \in 1..Len(toClient) : toClient[i].type = "Error"
        BY <3>1
      <4>2. i \in 1..Len(toClient') /\ toClient'[i] = toClient[i]
        BY <1>0 DEF Grows
      <4> QED
        BY <4>1, <4>2
    <3>2. CASE \A p \in Owed : Lost(p) => p \in skipped
      <4>1. SUFFICES ASSUME \A p \in Path : Queued(p) \/ Current(p) =>
                              Queued(p)' \/ Current(p)' \/ AckedOnWire(p)' \/ p \in skipped',
                            NEW p \in Owed, Lost(p)'
                     PROVE  p \in skipped'
        BY <2>2 DEF Kept
      <4>2. p \in Path
        BY OwedPaths
      <4>3. AckedOnWire(p) => AckedOnWire(p)'
        <5> SUFFICES ASSUME AckedOnWire(p) PROVE AckedOnWire(p)'
          OBVIOUS
        <5>1. PICK i \in 1..Len(toClient) : IsAck(toClient[i]) /\ toClient[i].path = p
          BY DEF AckedOnWire
        <5>2. i \in 1..Len(toClient') /\ toClient'[i] = toClient[i]
          BY <1>0 DEF Grows
        <5> QED
          BY <5>1, <5>2 DEF AckedOnWire
      <4>4. Requested(p) => Requested(p)'
        BY <1>1 DEF Requested
      <4>5. Lost(p) \/ p \in skipped'
        BY <4>1, <4>2, <4>3, <4>4 DEF Lost
      <4> QED
        BY <3>2, <4>5 DEF Moves
    <3> QED
      BY <2>2, <3>1, <3>2 DEF LinkInv
  <2> QED
    BY <1>1, <2>1, <2>2 DEF LinkInv
<1> QED
  BY <1>10, <1>11

-----------------------------------------------------------------------------
(* The session answers a listing, and takes the paths of a request into its *)
(* queue.                                                                   *)
LEMMA TakenRequest ==
  ASSUME TypeOK, TurnsInv, toServer # <<>>
  PROVE  /\ Head(toServer) = toServer[1] /\ 1 \in 1..Len(toServer)
         /\ Len(toServer) = 1 /\ Tail(toServer) = <<>>
         /\ cpc \in {"list", "recv", "ok", "failed"}
<1>1. toServer \in Seq(Request) /\ 1 \in 1..Len(toServer) /\ Len(toServer) \in Nat
  BY FirstOf, LenProperties DEF TypeOK, WireTypeOK
<1>2. Len(toServer) = 1
  <2> DEFINE n == Len(toServer)
  <2>1. n <= 1
    BY DEF TurnsInv
  <2>2. n \in Nat /\ 1 <= n
    BY <1>1
  <2>3. n = 1
    <3> HIDE DEF n
    <3> QED
      BY <2>1, <2>2
  <2> QED
    BY <2>3
<1>3. Tail(toServer) = <<>>
  <2>1. Tail(toServer) \in Seq(Request) /\ Len(Tail(toServer)) = 0
    BY <1>1, <1>2, HeadTailProperties
  <2> QED
    BY <2>1, EmptySeq
<1>4. Head(toServer) = toServer[1]
  BY <1>1
<1>5. cpc \in {"list", "recv", "ok", "failed"}
  BY DEF TurnsInv, TypeOK, PullerTypeOK
<1> QED
  BY <1>1, <1>2, <1>3, <1>4, <1>5

LEMMA HandleListKeeps ==
  ASSUME PullInv, TypeOK', Running, HandleList, UNCHANGED <<pullerVars, disk, edits>>
  PROVE  AccountInv' /\ LinkInv'
<1>1. /\ UNCHANGED <<cpc, unscanned, toDownload, next, remaining, acked, link>>
      /\ UNCHANGED <<queue, cur, skipped>>
      /\ Owed' = Owed /\ Asked' = Asked /\ Running' = Running
      /\ toServer # <<>> /\ toServer' = Tail(toServer) /\ spc = "decode"
      /\ Head(toServer).type = "ListRequest" /\ Head(toServer) \in Request
  BY HeadTailProperties
     DEF HandleList, Decodes, pullerVars, Owed, Asked, Running, PullInv, TypeInv,
         TypeOK, WireTypeOK
<1>2. /\ TypeOK /\ ListingInv /\ TurnsInv /\ SessionInv /\ BufferInv /\ CountInv
      /\ FlushInv /\ LinkInv
  BY DEF AccountInv, PullInv, TypeInv
<1>3. cpc = "list" /\ toServer' = <<>> /\ toClient = <<>>
  BY <1>1, <1>2, TakenRequest DEF TurnsInv, Running
<1>4. Owed = {} /\ queue = <<>> /\ cur = NoJob
  BY <1>1, <1>2, <1>3 DEF CountInv, SessionInv
<1>5. PICK m \in Frame :
        /\ Reply(m)
        /\ m.type \in {"ListResponse", "Error"}
        /\ m.type = "ListResponse" => UniquePaths(m.files)
  <2> DEFINE root == Head(toServer).root
  <2>1. root \in Dir \cup {NoDir}
    BY <1>1 DEF Request
  <2>2. CASE root = NoDir
    BY <2>2, FrameTypes DEF HandleList, ErrorMessage
  <2>3. CASE root # NoDir /\ Reply(ErrorMessage(500))
    BY <2>3, FrameTypes DEF ErrorMessage
  <2>4. CASE root # NoDir /\ Reply(ListResponse(Walk(root)))
    <3>1. ListResponse(Walk(root)) \in Frame
      BY <1>2, <2>1, <2>4, WalkType, FrameTypes DEF TypeOK
    <3>2. UniquePaths(Walk(root))
      BY DEF UniquePaths, Walk
    <3> QED
      BY <2>4, <3>1, <3>2 DEF ListResponse
  <2> QED
    BY <2>2, <2>3, <2>4 DEF HandleList
<1>6. \/ toClient' = <<m>> /\ wbuf' = <<>> /\ ~ werr' /\ spc' = "decode"
      \/ toClient' = <<>> /\ link = "down" /\ (wbuf' = <<>> \/ werr')
  <2>1. CASE Encode(m)
    <3>1. wbuf = <<>> /\ ~ werr' /\ wbuf' = <<>>
      BY <1>1, <1>2, <2>1 DEF FlushInv, Encode
    <3>2. Append(wbuf, m) = <<m>> /\ toClient \o <<m>> = <<m>>
      BY <1>3, <3>1
    <3>3. spc' = "decode" \/ link = "down"
      BY <1>1, <1>5, <2>1 DEF Reply, EncodeFails
    <3>4. toClient' = <<m>> \/ (link = "down" /\ toClient' = <<>>)
      BY <1>2, <1>3, <2>1, <3>2 DEF Encode, Emit, TypeOK, WireTypeOK
    <3> QED
      BY <1>1, <1>5, <2>1, <3>1, <3>3, <3>4 DEF Reply, EncodeFails, Encode
  <2>2. CASE EncodeFails
    BY <1>3, <2>2 DEF EncodeFails
  <2> QED
    BY <1>5, <2>1, <2>2 DEF Reply
<1>7. /\ Len(toClient') <= 1
      /\ \A i \in 1..Len(toClient') : toClient'[i] = m
      /\ \A i \in 1..Len(toClient') : ~ OfFile(toClient'[i]) /\ ~ IsAck(toClient'[i])
  <2>1. \A i \in 1..Len(toClient') : toClient'[i] = m
    BY <1>6
  <2> QED
    BY <1>5, <1>6, <2>1 DEF OfFile, IsAck
<1>8. ListingInv'
  BY <1>1, <1>2, <1>5, <1>7 DEF ListingInv, UniquePaths
<1>9. TurnsInv' /\ RequestInv'
  BY <1>1, <1>3, <1>7 DEF TurnsInv, RequestInv
<1>10. SessionInv' /\ ClientStreamInv' /\ ErrorInv'
  <2>1. SessionInv'
    BY <1>1, <1>4 DEF SessionInv, Distinct
  <2>2. ClientStreamInv'
    BY <1>7 DEF ClientStreamInv, OnWire, AckedOnWire
  <2>3. ErrorInv'
    BY <1>1, <1>3 DEF ErrorInv
  <2> QED
    BY <2>1, <2>2, <2>3
<1>11. BufferInv'
  BY <1>6 DEF BufferInv
<1>12. CountInv' /\ (acked \subseteq Asked)'
  BY <1>1, <1>2 DEF CountInv
<1>13. AccountInv'
  BY <1>8, <1>9, <1>10, <1>11, <1>12 DEF AccountInv
<1>14. LinkInv'
  <2>1. CASE link = "down"
    BY <1>1, <2>1 DEF LinkInv
  <2>2. CASE link # "down"
    <3>1. toClient' = <<m>> /\ ~ werr' /\ spc' = "decode"
      BY <1>6, <2>2
    <3> QED
      BY <1>1, <1>2, <1>4, <3>1 DEF LinkInv
  <2> QED
    BY <2>1, <2>2
<1> QED
  BY <1>13, <1>14

LEMMA HandleDownloadKeeps ==
  ASSUME PullInv, TypeOK', Running, HandleDownload, UNCHANGED <<pullerVars, disk, edits>>
  PROVE  AccountInv' /\ LinkInv'
<1>1. /\ UNCHANGED <<cpc, unscanned, toDownload, next, remaining, acked, link>>
      /\ UNCHANGED <<toClient, wbuf, werr, cur, skipped>>
      /\ Owed' = Owed /\ Asked' = Asked /\ Running' = Running
      /\ toServer # <<>> /\ toServer' = Tail(toServer) /\ spc = "decode"
      /\ Head(toServer).type = "DownloadReq"
      /\ queue' = Head(toServer).files /\ spc' = "next"
  BY DEF HandleDownload, Decodes, pullerVars, Owed, Asked, Running
<1>2. /\ TypeOK /\ ListingInv /\ TurnsInv /\ RequestInv /\ SessionInv /\ ErrorInv
      /\ BufferInv /\ CountInv /\ LinkInv
  BY DEF AccountInv, PullInv, TypeInv
<1>3. /\ toServer' = <<>> /\ 1 \in 1..Len(toServer) /\ Len(toServer) = 1
      /\ queue' = toServer[1].files /\ toServer[1].type = "DownloadReq"
  BY <1>1, <1>2, TakenRequest
<1>4. /\ Distinct(queue')
      /\ \A i \in 1..Len(queue') : queue'[i] \in Owed
      /\ queue = <<>> /\ cur = NoJob /\ toClient = <<>>
  BY <1>2, <1>3 DEF RequestInv
<1>5. ListingInv' /\ TurnsInv' /\ RequestInv'
  <2>1. ListingInv'
    BY <1>1, <1>2 DEF ListingInv, UniquePaths
  <2>2. TurnsInv'
    BY <1>1, <1>2, <1>3 DEF TurnsInv
  <2>3. RequestInv'
    BY <1>3 DEF RequestInv
  <2> QED
    BY <2>1, <2>2, <2>3
<1>6. SessionInv'
  BY <1>1, <1>4 DEF SessionInv, Distinct
<1>7. ClientStreamInv' /\ ErrorInv' /\ BufferInv'
  <2>1. ClientStreamInv' /\ ErrorInv'
    BY <1>1, <1>4 DEF ClientStreamInv, ErrorInv, OnWire, AckedOnWire
  <2>2. BufferInv'
    BY <1>1, <1>2 DEF BufferInv, Current
  <2> QED
    BY <2>1, <2>2
<1>8. CountInv' /\ (acked \subseteq Asked)'
  BY <1>1, <1>2 DEF CountInv
<1>9. AccountInv'
  BY <1>5, <1>6, <1>7, <1>8 DEF AccountInv
<1>10. LinkInv'
  <2>1. ASSUME NEW p \in Owed, Lost(p)' PROVE Lost(p)
    <3>1. ~ Requested(p)
      BY <1>3, <2>1 DEF Requested, Lost, Queued
    <3>2. ~ Queued(p) /\ ~ Current(p) /\ ~ AckedOnWire(p)
      BY <1>4 DEF Queued, Current, AckedOnWire
    <3> QED
      BY <3>1, <3>2 DEF Lost
  <2>2. cpc = "recv"
    <3>1. toServer[1].type = "DownloadReq" /\ cpc \in {"list", "recv"}
      BY <1>1, <1>2, <1>3, TakenRequest DEF Running
    <3> QED
      BY <1>2, <1>3, <3>1 DEF TurnsInv
  <2> QED
    BY <1>1, <1>2, <2>1, <2>2 DEF LinkInv
<1> QED
  BY <1>9, <1>10

-----------------------------------------------------------------------------
(* The other steps of the session. *)
LEMMA QueueHead ==
  ASSUME NEW q \in Seq(Path), q # <<>>, Distinct(q)
  PROVE  /\ Head(q) = q[1] /\ Head(q) \in Path /\ 1 \in 1..Len(q)
         /\ Tail(q) \in Seq(Path) /\ Distinct(Tail(q))
         /\ \A i \in 1..Len(Tail(q)) :
              /\ Tail(q)[i] # Head(q)
              /\ \E j \in 1..Len(q) : Tail(q)[i] = q[j]
         /\ \A j \in 1..Len(q) :
              q[j] # Head(q) => \E i \in 1..Len(Tail(q)) : Tail(q)[i] = q[j]
<1>1. /\ Head(q) = q[1] /\ Head(q) \in Path /\ 1 \in 1..Len(q) /\ Len(q) \in Nat
      /\ Tail(q) \in Seq(Path) /\ Len(Tail(q)) = Len(q) - 1
      /\ \A i \in 1..Len(Tail(q)) : Tail(q)[i] = q[i + 1]
  BY HeadTailProperties, FirstOf, LenProperties
<1>2. \A i \in 1..Len(Tail(q)) : i + 1 \in 1..Len(q) /\ i + 1 # 1
  BY <1>1
<1>3. Distinct(Tail(q))
  <2> SUFFICES ASSUME NEW i \in 1..Len(Tail(q)), NEW j \in 1..Len(Tail(q)),
                      Tail(q)[i] = Tail(q)[j]
               PROVE  i = j
    BY DEF Distinct
  <2>1. i + 1 = j + 1
    BY <1>1, <1>2 DEF Distinct
  <2> QED
    BY <1>1, <2>1
<1>4. \A i \in 1..Len(Tail(q)) : Tail(q)[i] # q[1]
  BY <1>1, <1>2 DEF Distinct
<1>5. ASSUME NEW j \in 1..Len(q), q[j] # q[1]
      PROVE  \E i \in 1..Len(Tail(q)) : Tail(q)[i] = q[j]
  <2>1. j # 1
    BY <1>5
  <2>2. j - 1 \in 1..Len(Tail(q)) /\ (j - 1) + 1 = j
    BY <1>1, <2>1
  <2> QED
    BY <1>1, <2>2
<1> QED
  BY <1>1, <1>2, <1>3, <1>4, <1>5

(* Steps that touch neither queue nor wire, nor the path at hand.           *)
LEMMA QuietStepKeeps ==
  ASSUME PullInv, TypeOK', Running,
         UNCHANGED <<pullerVars, wireVars, queue, skipped>>,
         UNCHANGED cur \/ (cur # NoJob /\ cur' # NoJob /\ cur'.path = cur.path),
         spc' = "decode" => queue = <<>>,
         spc' = "ended" => link = "down"
  PROVE  AccountInv' /\ LinkInv'
<1> DEFINE none == [type |-> "none"]
<1>1. TypeOK /\ SessionInv /\ BufferInv /\ LinkInv /\ AccountInv
  BY DEF AccountInv, PullInv, TypeInv
<1>2. \A p \in Path : Current(p)' <=> Current(p)
  BY DEF Current
<1>3. \A p \in Path : Queued(p)' <=> Queued(p)
  BY DEF Queued
<1>4. Moves
  BY <1>2, <1>3 DEF Moves, wireVars
<1>5. Owed' = Owed
  BY DEF pullerVars, Owed, Asked
<1>6. SessionInv'
  BY <1>1, <1>5 DEF SessionInv, Queued, Distinct
<1>7. BufferInv'
  BY <1>1 DEF BufferInv, wireVars, Current
<1>8. Grows(none)
  BY <1>1, StaysGrows DEF wireVars, TypeOK, WireTypeOK, WriterTypeOK
<1>9. Kept
  BY <1>2, <1>3 DEF Kept
<1>10. ~ OfFile(none) /\ ~ IsAck(none) /\ none.type = "none"
  BY DEF OfFile, IsAck
<1>11. spc' = "ended" \/ werr' => link = "down"
  BY <1>1 DEF LinkInv, wireVars
<1>12. toClient' = toClient
  BY DEF wireVars
<1> HIDE DEF none
<1> QED
  BY <1>1, <1>4, <1>6, <1>7, <1>8, <1>9, <1>10, <1>11, <1>12, StepKeeps

LEMMA FileMissingKeeps ==
  ASSUME PullInv, TypeOK', Running, FileMissing, UNCHANGED pullerVars
  PROVE  AccountInv' /\ LinkInv'
<1> DEFINE m == ErrorMessage(404)
<1>1. /\ TypeOK /\ SessionInv /\ BufferInv /\ LinkInv /\ AccountInv /\ FlushInv
      /\ ClientStreamInv /\ WriterTypeOK /\ RequestInv
  BY WireSplit DEF AccountInv, PullInv, TypeInv, TypeOK
<1>2. /\ spc = "next" /\ queue # <<>> /\ queue' = Tail(queue) /\ Report(404)
      /\ UNCHANGED <<toServer, link, spc, cur, skipped>>
  BY DEF FileMissing
<1>3. cur = NoJob
  BY <1>1, <1>2 DEF TypeOK, SessionTypeOK
<1>4. queue \in Seq(Path) /\ Distinct(queue)
  BY <1>1 DEF TypeOK, SessionTypeOK, SessionInv
<1>p. PICK p \in Path : p = Head(queue)
  BY <1>2, <1>4, QueueHead
<1>5. \A q \in Path : (Queued(q)' <=> Queued(q) /\ q # p) /\ ~ Current(q)'
  <2>1. \A q \in Path : Queued(q)' <=> Queued(q) /\ q # p
    <3>1. ASSUME NEW q \in Path, Queued(q)' PROVE Queued(q) /\ q # p
      <4>1. PICK i \in 1..Len(Tail(queue)) : Tail(queue)[i] = q
        BY <1>2, <3>1 DEF Queued
      <4> QED
        BY <1>2, <1>4, <1>p, <4>1, QueueHead DEF Queued
    <3>2. ASSUME NEW q \in Path, Queued(q), q # p PROVE Queued(q)'
      <4>1. PICK j \in 1..Len(queue) : queue[j] = q
        BY <3>2 DEF Queued
      <4>2. \E i \in 1..Len(Tail(queue)) : Tail(queue)[i] = q
        BY <1>2, <1>4, <1>p, <3>2, <4>1, QueueHead
      <4> QED
        BY <1>2, <4>2 DEF Queued
    <3> QED
      BY <3>1, <3>2
  <2>2. \A q \in Path : ~ Current(q)'
    BY <1>2, <1>3 DEF Current
  <2> QED
    BY <2>1, <2>2
<1>6. p \in Path /\ p \in Owed /\ Queued(p)
  BY <1>1, <1>2, <1>4, <1>p, QueueHead DEF SessionInv, Queued
<1>7. Owed' = Owed
  BY DEF pullerVars, Owed, Asked
<1>8. Moves
  BY <1>2, <1>5 DEF Moves
<1>9. /\ Grows(m)
      /\ wbuf' = <<>> \/ werr'
      /\ werr' => werr \/ link = "down"
      /\ link = "up" => \E i \in 1..Len(toClient') : toClient'[i].type = "Error"
  BY <1>1, <1>2, ReportGrows
<1>10. SessionInv'
  BY <1>1, <1>2, <1>3, <1>4, <1>7, QueueHead DEF SessionInv
<1>11. BufferInv'
  BY <1>9 DEF BufferInv
<1>12. ~ OfFile(m) /\ ~ IsAck(m) /\ m.type = "Error"
  BY DEF OfFile, IsAck, ErrorMessage
<1>13. Lost(p)'
  <2>1. ~ Requested(p)
    BY <1>1, <1>2 DEF Requested, RequestInv
  <2>2. ASSUME AckedOnWire(p)' PROVE FALSE
    <3>1. ~ AckedOnWire(p)
      BY <1>1, <1>6 DEF ClientStreamInv, AckedOnWire, OnWire, IsAck, OfFile
    <3>i. PICK i \in 1..Len(toClient') : IsAck(toClient'[i]) /\ toClient'[i].path = p
      BY <2>2 DEF AckedOnWire
    <3>2. OfFile(toClient'[i])
      BY <3>i DEF OfFile, IsAck
    <3> HIDE DEF m
    <3> QED
      BY <1>1, <1>9, <1>12, <3>i, <3>1, <3>2, NewFrames DEF AckedOnWire
  <2>3. ~ Requested(p)' /\ ~ Queued(p)' /\ ~ Current(p)'
    BY <1>2, <1>5, <1>6, <2>1 DEF Requested
  <2> QED
    BY <2>2, <2>3 DEF Lost
<1>14. Kept
  BY <1>9 DEF Kept
<1>15. spc' = "ended" \/ werr' => link = "down"
  BY <1>1, <1>2, <1>9 DEF LinkInv
<1> HIDE DEF m
<1> QED
  BY <1>1, <1>2, <1>6, <1>8, <1>9, <1>10, <1>11, <1>12, <1>13, <1>14, <1>15, StepKeeps

LEMMA ResolveFileKeeps ==
  ASSUME PullInv, TypeOK', Running, ResolveFile, UNCHANGED pullerVars
  PROVE  AccountInv' /\ LinkInv'
<1> DEFINE none == [type |-> "none"]
<1>1. /\ TypeOK /\ SessionInv /\ BufferInv /\ LinkInv /\ AccountInv /\ FlushInv
      /\ ClientStreamInv /\ WriterTypeOK
  BY WireSplit DEF AccountInv, PullInv, TypeInv, TypeOK
<1>2. /\ spc = "next" /\ queue # <<>> /\ queue' = Tail(queue) /\ spc' = "stat"
      /\ UNCHANGED <<wireVars, skipped>>
      /\ cur'.path = Head(queue)
  BY DEF ResolveFile
<1>3. cur = NoJob /\ cur' # NoJob
  <2>1. cur' \in Job
    BY <1>2 DEF TypeOK, SessionTypeOK
  <2> QED
    BY <1>1, <1>2, <2>1, TransferAssumption DEF TypeOK, SessionTypeOK
<1>4. queue \in Seq(Path) /\ Distinct(queue)
  BY <1>1 DEF TypeOK, SessionTypeOK, SessionInv
<1>p. PICK p \in Path : p = Head(queue)
  BY <1>2, <1>4, QueueHead
<1>q. \A q \in Path : Queued(q)' <=> Queued(q) /\ q # p
  <2>1. /\ \A i \in 1..Len(queue') :
             queue'[i] # p /\ \E j \in 1..Len(queue) : queue'[i] = queue[j]
        /\ \A j \in 1..Len(queue) :
             queue[j] # p => \E i \in 1..Len(queue') : queue'[i] = queue[j]
    BY <1>2, <1>4, <1>p, QueueHead
  <2> QED
    BY <2>1 DEF Queued
<1>c. \A q \in Path : Current(q)' <=> q = p
  <2>1. cur'.path = p
    BY <1>2, <1>p
  <2> QED
    BY <1>3, <2>1, Zenon DEF Current
<1>5. \A q \in Path : (Queued(q)' <=> Queued(q) /\ q # p) /\ (Current(q)' <=> q = p)
  BY <1>q, <1>c
<1>6. p \in Owed /\ Queued(p) /\ \A q \in Path : ~ Current(q)
  BY <1>1, <1>2, <1>3, <1>4, <1>p, QueueHead DEF SessionInv, Queued, Current
<1>7. Owed' = Owed
  BY DEF pullerVars, Owed, Asked
<1>8. Moves
  BY <1>2, <1>5, <1>6 DEF Moves, wireVars
<1>9. Grows(none)
  BY <1>1, <1>2, StaysGrows DEF wireVars
<1>10. SessionInv'
  <2>1. Distinct(queue') /\ \A i \in 1..Len(queue') : queue'[i] \in Owed'
    BY <1>1, <1>2, <1>4, <1>7, QueueHead DEF SessionInv
  <2>2. \A i \in 1..Len(queue') : queue'[i] # cur'.path
    BY <1>2, <1>4, QueueHead
  <2> QED
    BY <1>2, <1>6, <1>7, <1>p, <2>1, <2>2 DEF SessionInv, Queued
<1>11. BufferInv'
  BY <1>1, <1>2, <1>3 DEF BufferInv, FlushInv, wireVars
<1>12. ~ OfFile(none) /\ ~ IsAck(none) /\ none.type = "none"
  BY DEF OfFile, IsAck
<1>13. Kept
  BY <1>5, <1>6 DEF Kept
<1>14. spc' = "ended" \/ werr' => link = "down"
  BY <1>1, <1>2 DEF LinkInv, wireVars
<1> HIDE DEF none
<1> QED
  BY <1>1, <1>2, <1>8, <1>9, <1>10, <1>11, <1>12, <1>13, <1>14, StepKeeps

(* stat or SendFile fails: the file at hand is dropped, with an error. *)
LEMMA JobFailsKeeps ==
  ASSUME PullInv, TypeOK', Running, UNCHANGED pullerVars,
         cur # NoJob, cur' = NoJob, spc' = "next",
         NEW c \in {404, 500}, Report(c),
         UNCHANGED <<toServer, link, queue, skipped>>
  PROVE  AccountInv' /\ LinkInv'
<1> DEFINE m == ErrorMessage(c)
<1>1. /\ TypeOK /\ SessionInv /\ BufferInv /\ LinkInv /\ AccountInv
      /\ ClientStreamInv /\ WriterTypeOK /\ RequestInv
  BY WireSplit DEF AccountInv, PullInv, TypeInv, TypeOK
<1>p. PICK p \in Path : p = cur.path
  BY <1>1 DEF TypeOK, SessionTypeOK, Job
<1>2. \A q \in Path : (Queued(q)' <=> Queued(q)) /\ ~ Current(q)'
  BY DEF Queued, Current
<1>3. p \in Owed /\ ~ Queued(p) /\ Current(p)
  BY <1>1, <1>p DEF SessionInv, Current
<1>4. Owed' = Owed
  BY DEF pullerVars, Owed, Asked
<1>5. Moves
  BY <1>2 DEF Moves
<1>6. /\ Grows(m)
      /\ wbuf' = <<>> \/ werr'
      /\ werr' => werr \/ link = "down"
      /\ link = "up" => \E i \in 1..Len(toClient') : toClient'[i].type = "Error"
  BY <1>1, ReportGrows
<1>7. SessionInv'
  BY <1>1, <1>4 DEF SessionInv, Distinct
<1>8. BufferInv'
  BY <1>6 DEF BufferInv
<1>9. ~ OfFile(m) /\ ~ IsAck(m) /\ m.type = "Error"
  BY DEF OfFile, IsAck, ErrorMessage
<1>10. Lost(p)'
  <2>1. ~ Requested(p)
    BY <1>1 DEF Requested, RequestInv
  <2>2. ASSUME AckedOnWire(p)' PROVE FALSE
    <3>1. ~ AckedOnWire(p)
      BY <1>1, <1>3 DEF ClientStreamInv
    <3>2. PICK i \in 1..Len(toClient') : IsAck(toClient'[i]) /\ toClient'[i].path = p
      BY <2>2 DEF AckedOnWire
    <3>3. OfFile(toClient'[i])
      BY <3>2 DEF OfFile, IsAck
    <3> HIDE DEF m
    <3> QED
      BY <1>1, <1>6, <1>9, <3>1, <3>2, <3>3, NewFrames DEF AckedOnWire
  <2>3. ~ Requested(p)' /\ ~ Queued(p)' /\ ~ Current(p)'
    BY <1>2, <1>3, <2>1 DEF Requested
  <2> QED
    BY <2>2, <2>3 DEF Lost
<1>11. Kept
  BY <1>6 DEF Kept
<1>12. spc' = "ended" \/ werr' => link = "down"
  BY <1>1, <1>6 DEF LinkInv
<1> HIDE DEF m
<1> QED
  BY <1>1, <1>3, <1>5, <1>6, <1>7, <1>8, <1>9, <1>10, <1>11, <1>12, StepKeeps

(* The file at hand turned out to be a directory: it is passed over. *)
LEMMA SkipDirectoryKeeps ==
  ASSUME PullInv, TypeOK', Running, SkipDirectory, UNCHANGED pullerVars
  PROVE  AccountInv' /\ LinkInv'
<1> DEFINE none == [type |-> "none"]
<1>1. /\ TypeOK /\ SessionInv /\ BufferInv /\ LinkInv /\ AccountInv /\ FlushInv
      /\ WriterTypeOK
  BY WireSplit DEF AccountInv, PullInv, TypeInv, TypeOK
<1>2. /\ spc = "stat" /\ spc' = "next" /\ cur' = NoJob
      /\ skipped' = skipped \cup {cur.path}
      /\ UNCHANGED <<wireVars, queue>>
  BY DEF SkipDirectory
<1>3. \A q \in Path : /\ Queued(q)' <=> Queued(q)
                      /\ ~ Current(q)'
                      /\ Current(q) => q \in skipped'
  BY <1>2 DEF Queued, Current
<1>4. Owed' = Owed
  BY DEF pullerVars, Owed, Asked
<1>5. Moves
  BY <1>2, <1>3 DEF Moves, wireVars
<1>6. Grows(none)
  BY <1>1, <1>2, StaysGrows DEF wireVars
<1>7. SessionInv'
  BY <1>1, <1>2, <1>4 DEF SessionInv, Distinct
<1>8. BufferInv'
  BY <1>1, <1>2 DEF BufferInv, FlushInv, wireVars
<1>9. ~ OfFile(none) /\ ~ IsAck(none) /\ none.type = "none"
  BY DEF OfFile, IsAck
<1>10. Kept
  BY <1>3 DEF Kept
<1>11. spc' = "ended" \/ werr' => link = "down"
  BY <1>1, <1>2 DEF LinkInv, wireVars
<1>12. toClient' = toClient
  BY <1>2 DEF wireVars
<1> HIDE DEF none
<1> QED
  BY <1>1, <1>5, <1>6, <1>7, <1>8, <1>9, <1>10, <1>11, <1>12, StepKeeps

(* A chunk of the file at hand is written. *)
LEMMA ChunkKeeps ==
  ASSUME PullInv, TypeOK', Running, UNCHANGED pullerVars,
         cur # NoJob, cur' # NoJob, cur'.path = cur.path,
         spc' \in {"send", "close"},
         NEW f \in Frame, f.type = "DataChunk", f.path = cur.path, WriteChunk(f),
         UNCHANGED <<toServer, link, queue, skipped>>
  PROVE  AccountInv' /\ LinkInv'
<1>1. /\ TypeOK /\ SessionInv /\ BufferInv /\ LinkInv /\ AccountInv /\ WriterTypeOK
  BY WireSplit DEF AccountInv, PullInv, TypeInv, TypeOK
<1>2. \A q \in Path : (Queued(q)' <=> Queued(q)) /\ (Current(q)' <=> Current(q))
  BY DEF Queued, Current
<1>3. Current(f.path)
  BY DEF Current
<1>4. Owed' = Owed
  BY DEF pullerVars, Owed, Asked
<1>5. Moves
  BY <1>2 DEF Moves
<1>6. /\ Grows(f) /\ ~ werr'
      /\ \A i \in 1..Len(wbuf') :
           wbuf'[i].type = "DataChunk" /\ Current(wbuf'[i].path)
  BY <1>1, <1>3, ChunkGrows
<1>7. SessionInv'
  BY <1>1, <1>4 DEF SessionInv, Queued, Distinct
<1>8. BufferInv'
  BY <1>6 DEF BufferInv, Current
<1>9. ~ IsAck(f) /\ f.type # "ListResponse" /\ f.type # "Error"
  BY DEF IsAck
<1>10. Kept
  BY <1>2 DEF Kept
<1>11. spc' = "ended" \/ werr' => link = "down"
  BY <1>6
<1> QED
  BY <1>1, <1>3, <1>5, <1>6, <1>7, <1>8, <1>9, <1>10, <1>11, StepKeeps

(* The file at hand is acknowledged, or the session ends. *)
LEMMA FinishFileKeeps ==
  ASSUME PullInv, TypeOK', Running, FinishFile, UNCHANGED pullerVars
  PROVE  AccountInv' /\ LinkInv'
<1> DEFINE m == BatchDone(cur.path)
<1>1. /\ TypeOK /\ SessionInv /\ BufferInv /\ LinkInv /\ AccountInv /\ WriterTypeOK
  BY WireSplit DEF AccountInv, PullInv, TypeInv, TypeOK
<1>2. /\ spc = "close" /\ cur' = NoJob
      /\ UNCHANGED <<toServer, link, queue, skipped>>
  BY DEF FinishFile
<1>3. cur \in Job /\ cur # NoJob /\ cur.path \in Path
  BY <1>1, <1>2, TransferAssumption DEF TypeOK, SessionTypeOK, Job
<1>4. m \in Frame /\ IsAck(m) /\ m.path = cur.path /\ m.type = "BatchDone"
  BY <1>3, FrameTypes DEF IsAck, BatchDone
<1> HIDE DEF m
<1>5. \/ /\ Encode(m) /\ spc' = "next" /\ Grows(m) /\ wbuf' = <<>> /\ ~ werr'
         /\ link = "up" => /\ Len(toClient') > Len(toClient)
                           /\ toClient'[Len(toClient')] = m
      \/ EncodeFails /\ spc' = "ended" /\ Grows(m) /\ werr' /\ link = "down"
  <2>1. CASE Encode(m) /\ spc' = "next"
    BY <1>1, <1>4, <2>1, EncodeGrows
  <2>2. CASE EncodeFails /\ spc' = "ended"
    BY <1>1, <2>2, StaysGrows DEF EncodeFails
  <2> QED
    BY <2>1, <2>2 DEF FinishFile, m
<1>6. \A q \in Path : (Queued(q)' <=> Queued(q)) /\ ~ Current(q)'
  BY <1>2 DEF Queued, Current
<1>7. Current(m.path)
  BY <1>3, <1>4 DEF Current
<1>8. Owed' = Owed
  BY DEF pullerVars, Owed, Asked
<1>9. Moves
  BY <1>2, <1>6 DEF Moves
<1>10. SessionInv'
  BY <1>1, <1>2, <1>5, <1>8 DEF SessionInv, Distinct
<1>11. BufferInv'
  BY <1>5 DEF BufferInv
<1>12. Kept
  <2> SUFFICES ASSUME link = "up", NEW q \in Path, Current(q)
               PROVE  AckedOnWire(q)'
    BY <1>6 DEF Kept
  <2>1. toClient' \in Seq(Frame) /\ Len(toClient') \in Nat /\ Len(toClient) \in Nat
    BY <1>1, LenProperties DEF TypeOK, WireTypeOK
  <2>2. Len(toClient') \in 1..Len(toClient') /\ toClient'[Len(toClient')] = m
    BY <1>5, <2>1
  <2> QED
    BY <1>4, <2>2 DEF AckedOnWire, Current
<1>13. spc' = "ended" \/ werr' => link = "down"
  BY <1>5
<1>14. m.type # "ListResponse" /\ m.type # "Error" /\ Grows(m)
  BY <1>4, <1>5
<1> QED
  BY <1>1, <1>2, <1>3, <1>7, <1>9, <1>10, <1>11, <1>12, <1>13, <1>14, StepKeeps

(* Every step of the session. *)
LEMMA SessionKeeps ==
  ASSUME PullInv, TypeOK', SessionStep
  PROVE  AccountInv' /\ LinkInv'
<1>1. SessionNext /\ UNCHANGED <<pullerVars, disk, edits>> /\ UNCHANGED pullerVars
  BY DEF SessionStep
<1>2. CASE ~ Running
  <2>1. UNCHANGED <<cpc, toDownload, next, acked>> /\ ~ Running'
    BY <1>1, <1>2 DEF pullerVars, Running
  <2>2. link = "down" /\ acked \subseteq Asked
    BY <1>2 DEF PullInv, LinkInv, AccountInv
  <2>3. link' = link
    BY <1>1 DEF SessionNext, SendFile, HandleList, HandleDownload, Decodes,
                BatchHandled, FileMissing, ResolveFile, StatFails, SkipDirectory,
                StatFile, OpenFile, SendEmptyFile, SendChunk, SendStops, SendFails,
                FinishFile, SessionEnds, wireVars
  <2> QED
    BY <2>1, <2>2, <2>3 DEF AccountInv, LinkInv, Asked
<1>3. CASE Running
  <2>0. /\ cur # NoJob <=> spc \in {"stat", "open", "send", "close"}
        /\ cur # NoJob => cur \in Job
        /\ cur' # NoJob <=> spc' \in {"stat", "open", "send", "close"}
        /\ cur' # NoJob => cur' \in Job
        /\ NoJob \notin Job
    BY TransferAssumption DEF PullInv, TypeInv, TypeOK, SessionTypeOK
  <2>1. CASE HandleList
    BY <1>1, <1>3, <2>1, HandleListKeeps
  <2>2. CASE HandleDownload
    BY <1>1, <1>3, <2>2, HandleDownloadKeeps
  <2>3. CASE BatchHandled \/ SessionEnds
    <3>1. /\ UNCHANGED <<wireVars, queue, cur, skipped>>
          /\ spc' = "decode" => queue = <<>>
          /\ spc' = "ended" => link = "down"
      BY <2>3 DEF BatchHandled, SessionEnds
    <3> QED
      BY <1>1, <1>3, <3>1, QuietStepKeeps
  <2>4. CASE StatFile
    <3>1. /\ UNCHANGED <<wireVars, queue, skipped>>
          /\ spc = "stat" /\ spc' = "open"
          /\ cur' = [cur EXCEPT !.size = Len(Found.data)]
      BY <2>4 DEF StatFile
    <3>2. cur # NoJob /\ cur' # NoJob /\ cur'.path = cur.path
      BY <2>0, <3>1 DEF Job
    <3> QED
      BY <1>1, <1>3, <3>1, <3>2, QuietStepKeeps
  <2>5. CASE OpenFile \/ SendStops
    <3>1. /\ UNCHANGED <<wireVars, queue, cur, skipped>>
          /\ spc' \in {"send", "close"}
      BY <2>5 DEF OpenFile, SendStops
    <3> QED
      BY <1>1, <1>3, <3>1, QuietStepKeeps
  <2>6. CASE FileMissing
    BY <1>1, <1>3, <2>6, FileMissingKeeps
  <2>7. CASE ResolveFile
    BY <1>1, <1>3, <2>7, ResolveFileKeeps
  <2>8. CASE StatFails
    <3>1. /\ spc = "stat" /\ cur' = NoJob /\ spc' = "next" /\ Report(404)
          /\ UNCHANGED <<toServer, link, queue, skipped>>
      BY <2>8 DEF StatFails
    <3> QED
      BY <1>1, <1>3, <2>0, <3>1, JobFailsKeeps
  <2>9. CASE SendFails
    <3>1. /\ spc \in {"open", "send", "close"} /\ cur' = NoJob /\ spc' = "next"
          /\ Report(500)
          /\ UNCHANGED <<toServer, link, queue, skipped>>
      BY <2>9 DEF SendFails
    <3> QED
      BY <1>1, <1>3, <2>0, <3>1, JobFailsKeeps
  <2>10. CASE SkipDirectory
    BY <1>1, <1>3, <2>10, SkipDirectoryKeeps
  <2>11. CASE SendEmptyFile
    <3>1. /\ spc = "open" /\ spc' = "close"
          /\ WriteChunk(DataChunk(cur.path, 0, <<>>, TRUE))
          /\ UNCHANGED <<toServer, link, queue, cur, skipped>>
      BY <2>11 DEF SendEmptyFile
    <3>2. cur # NoJob /\ cur.path \in Path
      BY <2>0, <3>1 DEF Job
    <3>3. DataChunk(cur.path, 0, <<>>, TRUE) \in Frame
      <4>1. <<>> \in Seq(Block)
        BY EmptySeq
      <4> QED
        BY <3>2, <4>1, FrameTypes
    <3> QED
      BY <1>1, <1>3, <3>1, <3>2, <3>3, ChunkKeeps DEF DataChunk
  <2>12. CASE SendChunk
    <3> DEFINE data == ReadAt(Opened.data, cur.offset, cur.size)
    <3>1. cur \in Job /\ cur.path \in Path /\ cur.offset \in Nat /\ cur.size \in Nat
      BY <2>0, <2>12 DEF SendChunk, Job
    <3>2. data \in Seq(Block)
      <4>1. Opened.data \in Seq(Block)
        BY <3>1 DEF Opened, PullInv, TypeInv, TypeOK, SessionTypeOK, Entry, Job
      <4> QED
        BY <4>1, <3>1, ReadAtType
    <3> HIDE DEF data
    <3> DEFINE end == cur.offset + Len(data)
               f == DataChunk(cur.path, cur.offset, data, IsLast(end))
    <3>3. /\ WriteChunk(f)
          /\ cur' = [cur EXCEPT !.offset = end]
          /\ spc = "send" /\ spc' \in {"send", "close"}
          /\ UNCHANGED <<toServer, link, queue, skipped>>
      BY <2>12 DEF SendChunk, data
    <3>4. f \in Frame
      <4>1. IsLast(end) \in BOOLEAN
        BY DEF IsLast
      <4> QED
        BY <4>1, <3>1, <3>2, FrameTypes
    <3>5. f.type = "DataChunk" /\ f.path = cur.path
      BY DEF DataChunk
    <3>6. cur # NoJob /\ cur' # NoJob /\ cur'.path = cur.path
      BY <2>0, <3>1, <3>3 DEF Job
    <3> HIDE DEF f, end
    <3> QED
      BY <1>1, <1>3, <3>3, <3>4, <3>5, <3>6, ChunkKeeps
  <2>13. CASE FinishFile
    BY <1>1, <1>3, <2>13, FinishFileKeeps
  <2> QED
    BY <1>1, <2>1, <2>2, <2>3, <2>4, <2>5, <2>6, <2>7, <2>8, <2>9, <2>10, <2>11,
       <2>12, <2>13 DEF SessionNext, SendFile
<1> QED
  BY <1>2, <1>3

-----------------------------------------------------------------------------
(* The steps of the client. *)
LEMMA Shifted ==
  ASSUME NEW S, NEW s \in Seq(S), s # <<>>
  PROVE  /\ Head(s) = s[1] /\ Head(s) \in S /\ 1 \in 1..Len(s)
         /\ Tail(s) \in Seq(S) /\ Len(Tail(s)) = Len(s) - 1
         /\ \A i \in 1..Len(Tail(s)) :
              Tail(s)[i] = s[i + 1] /\ i + 1 \in 1..Len(s) /\ 1 < i + 1
         /\ \A j \in 1..Len(s) :
              j = 1 \/ (j - 1 \in 1..Len(Tail(s)) /\ Tail(s)[j - 1] = s[j])
<1>1. /\ Head(s) = s[1] /\ Head(s) \in S /\ 1 \in 1..Len(s) /\ Len(s) \in Nat
      /\ Tail(s) \in Seq(S) /\ Len(Tail(s)) = Len(s) - 1
      /\ \A i \in 1..Len(Tail(s)) : Tail(s)[i] = s[i + 1]
  BY HeadTailProperties, FirstOf, LenProperties
<1>2. ASSUME NEW j \in 1..Len(s), j # 1
      PROVE  j - 1 \in 1..Len(Tail(s)) /\ Tail(s)[j - 1] = s[j]
  <2>1. j - 1 \in 1..Len(Tail(s)) /\ (j - 1) + 1 = j
    BY <1>1, <1>2
  <2> QED
    BY <1>1, <2>1
<1> QED
  BY <1>1, <1>2

LEMMA DistinctCount ==
  ASSUME NEW S, NEW s \in Seq(S), Distinct(s)
  PROVE  /\ IsFiniteSet({s[i] : i \in 1..Len(s)})
         /\ Cardinality({s[i] : i \in 1..Len(s)}) = Len(s)
<1> DEFINE T == {s[i] : i \in 1..Len(s)}
           f == [i \in 1..Len(s) |-> s[i]]
<1>1. Len(s) \in Nat
  BY LenProperties
<1>2. f \in Bijection(1..Len(s), T)
  <2>1. f \in [1..Len(s) -> T]
    OBVIOUS
  <2>2. IsInjective(f)
    BY DEF Distinct, IsInjective
  <2>3. f \in Injection(1..Len(s), T)
    BY <2>1, <2>2 DEF Injection
  <2>4. f \in Surjection(1..Len(s), T)
    BY <2>1 DEF Surjection
  <2> QED
    BY <2>3, <2>4 DEF Bijection
<1>3. ExistsBijection(1..Len(s), T)
  BY <1>2 DEF ExistsBijection
<1>4. IsFiniteSet(1..Len(s)) /\ Cardinality(1..Len(s)) = Len(s)
  <2>1. PICK n \in Nat : n = Len(s)
    BY <1>1
  <2>2. IsFiniteSet(1..n) /\ Cardinality(1..n) = IF 1 > n THEN 0 ELSE n - 1 + 1
    BY FS_Interval
  <2>3. Cardinality(1..n) = n
    BY <2>2
  <2> QED
    BY <2>1, <2>2, <2>3
<1> HIDE DEF T, f
<1>5. IsFiniteSet(T) /\ Cardinality(T) = Len(s)
  BY <1>3, <1>4, FS_Bijection
<1> QED
  BY <1>5 DEF T

LEMMA OwedFinite ==
  ASSUME TypeOK, Distinct(toDownload)
  PROVE  IsFiniteSet(Owed)
<1> DEFINE all == {toDownload[i] : i \in 1..Len(toDownload)}
<1>1. toDownload \in Seq(Path) /\ Len(toDownload) \in Nat
      /\ next \in Nat /\ next - 1 <= Len(toDownload)
  BY LenProperties DEF TypeOK, PullerTypeOK
<1>2. IsFiniteSet(all)
  BY <1>1, DistinctCount
<1>3. Owed \in SUBSET all
  BY <1>1 DEF Owed, Asked
<1> QED
  BY <1>2, <1>3, FS_Subset

(* Once Pull has returned nothing is left to account for. *)
LEMMA ReturnKeeps ==
  ASSUME AccountInv, cpc' \in {"ok", "failed"}, link' = "down",
         UNCHANGED <<toDownload, next, acked>>
  PROVE  AccountInv' /\ LinkInv'
<1>1. ~ Running'
  BY DEF Running
<1>2. (acked \subseteq Asked)'
  BY DEF AccountInv, Asked
<1> QED
  BY <1>1, <1>2 DEF AccountInv, LinkInv

(* Between two requests there is nothing on the server's side either.       *)
LEMMA Idle ==
  ASSUME TypeOK, SessionInv, Owed = {}
  PROVE  queue = <<>> /\ cur = NoJob
<1>1. \A p \in Path : ~ Queued(p) /\ ~ Current(p)
  BY DEF SessionInv, Queued, Current
<1> QED
  BY <1>1, EmptyIffNone

LEMMA RequestListingKeeps ==
  ASSUME PullInv, RequestListing, UNCHANGED sessionVars
  PROVE  AccountInv' /\ LinkInv'
<1>1. /\ cpc = "start" /\ cpc' = "list"
      /\ UNCHANGED <<toClient, wbuf, werr, link, unscanned, toDownload, next,
                     remaining, acked, spc, queue, cur, skipped>>
  BY DEF RequestListing, sessionVars
<1>2. /\ TypeOK /\ ListingInv /\ TurnsInv /\ SessionInv /\ BufferInv /\ CountInv
      /\ LinkInv
  BY <1>1 DEF AccountInv, PullInv, TypeInv, Running
<1>3. Owed' = Owed /\ Owed = {} /\ Asked' = Asked
  BY <1>1, <1>2 DEF CountInv, Owed, Asked
<1>4. queue = <<>> /\ cur = NoJob
  BY <1>2, <1>3, Idle
<1>5. toServer = <<>> /\ toClient = <<>>
  BY <1>1, <1>2 DEF TurnsInv
<1>6. PICK root \in Dir \cup {NoDir} : SendRequest(ListRequest(root))
  BY DEF RequestListing
<1>7. /\ toServer' = IF link = "up" THEN <<ListRequest(root)>> ELSE <<>>
      /\ toServer' = <<>> => link = "down"
  BY <1>2, <1>5, <1>6 DEF SendRequest, TypeOK, WireTypeOK
<1>8. Len(toServer') <= 1 /\ \A k \in 1..Len(toServer') : toServer'[k].type = "ListRequest"
  BY <1>7 DEF ListRequest
<1>9. ListingInv' /\ TurnsInv' /\ RequestInv'
  <2>1. ListingInv'
    BY <1>1, <1>2 DEF ListingInv, UniquePaths, Distinct
  <2>2. TurnsInv'
    BY <1>1, <1>5, <1>8 DEF TurnsInv
  <2>3. RequestInv'
    BY <1>8 DEF RequestInv
  <2> QED
    BY <2>1, <2>2, <2>3
<1>10. SessionInv' /\ ClientStreamInv'
  BY <1>1, <1>4, <1>5 DEF SessionInv, ClientStreamInv, OnWire, AckedOnWire, Distinct
<1>11. BufferInv' /\ ErrorInv' /\ CountInv'
  <2>1. BufferInv'
    BY <1>1, <1>2 DEF BufferInv, Current
  <2> QED
    BY <1>1, <1>2, <1>3, <2>1 DEF ErrorInv, CountInv
<1>12. AccountInv'
  BY <1>9, <1>10, <1>11 DEF AccountInv, CountInv
<1>13. LinkInv'
  BY <1>1, <1>2, <1>3, <1>7 DEF LinkInv, Running
<1> QED
  BY <1>12, <1>13

LEMMA RecvListingKeeps ==
  ASSUME PullInv, RecvListing, UNCHANGED sessionVars
  PROVE  AccountInv' /\ LinkInv'
<1>1. /\ cpc = "list" /\ toClient # <<>> /\ toClient' = Tail(toClient)
      /\ UNCHANGED <<toServer, wbuf, werr, toDownload, next,
                     remaining, acked, spc, queue, cur, skipped>>
  BY DEF RecvListing, sessionVars
<1>2. /\ TypeOK /\ ListingInv /\ TurnsInv /\ SessionInv /\ BufferInv /\ CountInv
      /\ LinkInv /\ AccountInv
  BY <1>1 DEF AccountInv, PullInv, TypeInv, Running
<1>3. CASE Head(toClient).type # "ListResponse"
  BY <1>1, <1>2, <1>3, ReturnKeeps DEF RecvListing, Return
<1>4. CASE Head(toClient).type = "ListResponse"
  <2>1. unscanned' = Head(toClient).files /\ cpc' = "scan" /\ link' = link
    BY <1>4 DEF RecvListing
  <2>2. toServer = <<>>
    BY <1>1, <1>2 DEF TurnsInv
  <2>3. /\ Head(toClient) = toClient[1] /\ 1 \in 1..Len(toClient)
        /\ Tail(toClient) \in Seq(Frame) /\ Len(Tail(toClient)) = Len(toClient) - 1
    BY <1>1, <1>2, Shifted DEF TypeOK, WireTypeOK
  <2>4. toClient' = <<>>
    <3> DEFINE n == Len(toClient)
    <3>1. n <= 1 /\ n \in Nat /\ 1 <= n
      BY <1>1, <1>2, <2>3, LenProperties DEF TurnsInv, TypeOK, WireTypeOK
    <3>2. n - 1 = 0
      <4> HIDE DEF n
      <4> QED
        BY <3>1
    <3> QED
      BY <1>1, <2>3, <3>2, EmptySeq
  <2>t. UNCHANGED <<toServer, wbuf, werr, toDownload, next,
                    remaining, acked, spc, queue, cur, skipped>>
    BY <1>1
  <2>5. toDownload = <<>> /\ next = 1 /\ UniquePaths(unscanned')
    BY <1>1, <1>2, <1>4, <2>1, <2>3 DEF ListingInv
  <2>6. Owed' = Owed /\ Owed = {} /\ Asked' = Asked
    BY <1>1, <1>2 DEF CountInv, Owed, Asked
  <2>7. queue = <<>> /\ cur = NoJob
    BY <1>2, <2>6, Idle
  <2>8. ListingInv'
    BY <2>t, <2>1, <2>4, <2>5 DEF ListingInv, Distinct, UniquePaths
  <2>9. TurnsInv' /\ RequestInv'
    BY <2>t, <2>1, <2>2, <2>4 DEF TurnsInv, RequestInv
  <2>10. SessionInv' /\ ClientStreamInv'
    BY <2>t, <2>4, <2>7 DEF SessionInv, ClientStreamInv, OnWire, AckedOnWire, Distinct
  <2>11. BufferInv'
    BY <1>1, <1>2 DEF BufferInv, Current
  <2>12. ErrorInv' /\ CountInv'
    BY <2>t, <1>2, <2>1, <2>4, <2>6 DEF ErrorInv, CountInv
  <2>13. AccountInv'
    BY <2>8, <2>9, <2>10, <2>11, <2>12 DEF AccountInv, CountInv
  <2>14. LinkInv'
    BY <1>1, <1>2, <2>1, <2>6 DEF LinkInv, Running
  <2> QED
    BY <2>13, <2>14
<1> QED
  BY <1>3, <1>4

(* The diff loop, and the steps between two batches. *)
LEMMA BetweenRequestsKeeps ==
  ASSUME PullInv, cpc \in {"scan", "render"}, cpc' \in {"scan", "batch"},
         UNCHANGED <<wireVars, next, remaining, acked, sessionVars>>,
         Owed' = Owed, Asked' = Asked, ListingInv'
  PROVE  AccountInv' /\ LinkInv'
<1>1. UNCHANGED <<toServer, toClient, wbuf, werr, link, spc, queue, cur, skipped>>
  BY DEF wireVars, sessionVars
<1>2. /\ TypeOK /\ TurnsInv /\ SessionInv /\ BufferInv /\ CountInv
      /\ LinkInv /\ acked \subseteq Asked
  BY DEF AccountInv, PullInv, TypeInv, Running
<1>3. Owed = {}
  BY <1>2 DEF CountInv
<1>4. queue = <<>> /\ cur = NoJob
  BY <1>2, <1>3, Idle
<1>5. toServer = <<>> /\ toClient = <<>>
  BY <1>2 DEF TurnsInv
<1>6. TurnsInv' /\ RequestInv'
  BY <1>1, <1>5 DEF TurnsInv, RequestInv
<1>7. SessionInv' /\ ClientStreamInv'
  BY <1>1, <1>4, <1>5 DEF SessionInv, ClientStreamInv, OnWire, AckedOnWire, Distinct
<1>8. BufferInv'
  BY <1>1, <1>2 DEF BufferInv, Current
<1>9. ErrorInv' /\ CountInv' /\ (acked \subseteq Asked)'
  BY <1>1, <1>2, <1>3, <1>5 DEF ErrorInv, CountInv
<1>10. AccountInv'
  BY <1>6, <1>7, <1>8, <1>9 DEF AccountInv
<1>11. LinkInv'
  BY <1>1, <1>2, <1>3 DEF LinkInv, Running
<1> QED
  BY <1>10, <1>11

LEMMA ScanKeeps ==
  ASSUME PullInv, Scan, UNCHANGED sessionVars
  PROVE  AccountInv' /\ LinkInv'
<1>1. /\ cpc = "scan" /\ cpc' = "scan"
      /\ UNCHANGED <<wireVars, next, remaining, acked, toClient>>
  BY DEF Scan, wireVars
<1>2. TypeOK /\ ListingInv
  BY <1>1 DEF PullInv, TypeInv, AccountInv, Running
<1>3. PICK fi \in unscanned :
        (ScanDir(fi) \/ SkipExisting(fi) \/ WantFile(fi)) /\ unscanned' = unscanned \ {fi}
  BY DEF Scan
<1>4. next = 1
  BY <1>1, <1>2 DEF ListingInv
<1>5. Owed' = Owed /\ Asked' = Asked
  BY <1>1, <1>4 DEF Owed, Asked
<1>6. ListingInv'
  <2>1. CASE UNCHANGED toDownload
    BY <1>1, <1>2, <1>3, <2>1 DEF ListingInv, UniquePaths
  <2>2. CASE WantFile(fi)
    <3>1. /\ toDownload \in Seq(Path) /\ Len(toDownload) \in Nat /\ fi.path \in Path
      BY <1>2, LenProperties DEF TypeOK, PullerTypeOK, FileInfo
    <3>2. /\ Len(toDownload') = Len(toDownload) + 1
          /\ \A i \in 1..Len(toDownload) : toDownload'[i] = toDownload[i]
          /\ toDownload'[Len(toDownload) + 1] = fi.path
      BY <2>2, <3>1, AppendProperties DEF WantFile
    <3>3. \A i \in 1..Len(toDownload') :
            \/ i \in 1..Len(toDownload) /\ toDownload'[i] = toDownload[i]
               /\ toDownload'[i] # fi.path
            \/ i = Len(toDownload') /\ toDownload'[i] = fi.path
      BY <1>2, <3>1, <3>2 DEF ListingInv
    <3>4. Distinct(toDownload')
      BY <1>2, <3>3 DEF Distinct, ListingInv
    <3>5. \A gi \in unscanned' : gi.path # fi.path
      BY <1>2, <1>3 DEF ListingInv, UniquePaths
    <3>6. \A gi \in unscanned', i \in 1..Len(toDownload') : toDownload'[i] # gi.path
      BY <1>2, <1>3, <3>3, <3>5 DEF ListingInv
    <3>7. UniquePaths(unscanned')
      BY <1>2, <1>3 DEF ListingInv, UniquePaths
    <3> QED
      BY <1>1, <1>2, <3>4, <3>6, <3>7 DEF ListingInv, UniquePaths
  <2> QED
    BY <1>3, <2>1, <2>2 DEF ScanDir, SkipExisting
<1> QED
  BY <1>1, <1>5, <1>6, BetweenRequestsKeeps

LEMMA ScanDoneKeeps ==
  ASSUME PullInv, ScanDone \/ Render, UNCHANGED sessionVars
  PROVE  AccountInv' /\ LinkInv'
<1>1. /\ (cpc = "scan" /\ unscanned = {}) \/ cpc = "render"
      /\ cpc' = "batch"
      /\ UNCHANGED <<wireVars, unscanned, toDownload, next, remaining, acked, toClient>>
  BY DEF ScanDone, Render, wireVars
<1>2. ListingInv
  BY <1>1 DEF PullInv, AccountInv, Running
<1>3. Owed' = Owed /\ Asked' = Asked
  BY <1>1 DEF Owed, Asked
<1>4. ListingInv'
  BY <1>1, <1>2 DEF ListingInv, UniquePaths, Distinct
<1> QED
  BY <1>1, <1>3, <1>4, BetweenRequestsKeeps

(* A batch is a stretch of the files to download, asked for the first time. *)
LEMMA BatchOwed ==
  ASSUME TypeOK, ListingInv, CountInv, cpc = "batch", next <= Len(toDownload),
         next' = BatchEnd + 1, UNCHANGED <<toDownload, acked>>
  PROVE  /\ Distinct(Batch) /\ Batch \in Seq(Path)
         /\ Owed' = {Batch[i] : i \in 1..Len(Batch)}
         /\ BatchLen = Cardinality(Owed')
         /\ (acked \subseteq Asked)'
<1>1. /\ Batch \in Seq(Path) /\ BatchLen \in Nat \ {0} /\ BatchEnd \in Nat
      /\ next <= BatchEnd /\ BatchEnd <= Len(toDownload)
      /\ toDownload \in Seq(Path) /\ next \in Nat \ {0} /\ Len(toDownload) \in Nat
  BY BatchBounds, LenProperties DEF TypeOK, PullerTypeOK
<1>2. \A i \in next..BatchEnd : toDownload[i] \in Path
  BY <1>1, ElementOfSeq
<1>3. /\ Len(Batch) = BatchEnd - next + 1
      /\ \A i \in 1..BatchEnd - next + 1 : Batch[i] = toDownload[next + i - 1]
  BY <1>1, <1>2, SubSeqProperties DEF Batch
<1> DEFINE e == BatchEnd
<1>4. e \in Nat /\ next <= e /\ e <= Len(toDownload) /\ next' = e + 1
      /\ Len(Batch) = e - next + 1
      /\ \A i \in 1..e - next + 1 : Batch[i] = toDownload[next + i - 1]
  BY <1>1, <1>3
<1> HIDE DEF e
<1>5. acked = Asked
  BY DEF CountInv, Owed
<1>6. Asked' = {toDownload[i] : i \in 1..e}
  BY <1>1, <1>4 DEF Asked
<1>7. Owed' = {toDownload[i] : i \in next..e}
  <2>1. Owed' = {toDownload[i] : i \in 1..e} \ {toDownload[i] : i \in 1..next - 1}
    BY <1>5, <1>6 DEF Owed, Asked
  <2>2. \A i, j \in 1..Len(toDownload) : toDownload[i] = toDownload[j] => i = j
    BY DEF ListingInv, Distinct
  <2>3. ASSUME NEW x \in Owed' PROVE x \in {toDownload[i] : i \in next..e}
    <3>1. PICK i \in 1..e : x = toDownload[i]
      BY <2>1, <2>3
    <3>2. i \notin 1..next - 1
      BY <2>1, <2>3, <3>1
    <3> QED
      BY <1>1, <1>4, <3>1, <3>2
  <2>4. ASSUME NEW i \in next..e PROVE toDownload[i] \in Owed'
    <3>1. i \in 1..e /\ i \in 1..Len(toDownload)
      BY <1>1, <1>4
    <3>2. ASSUME NEW j \in 1..next - 1 PROVE toDownload[i] # toDownload[j]
      <4>1. j \in 1..Len(toDownload) /\ i # j
        BY <1>1, <1>4
      <4> QED
        BY <2>2, <3>1, <4>1
    <3> QED
      BY <2>1, <3>1, <3>2
  <2> QED
    BY <2>3, <2>4
<1>8. Owed' = {Batch[i] : i \in 1..Len(Batch)}
  <2>1. ASSUME NEW i \in next..e
        PROVE  \E j \in 1..Len(Batch) : toDownload[i] = Batch[j]
    <3>1. (i - next) + 1 \in 1..Len(Batch) /\ next + ((i - next) + 1) - 1 = i
      BY <1>1, <1>4, <2>1
    <3> QED
      BY <1>4, <3>1
  <2>2. ASSUME NEW j \in 1..Len(Batch)
        PROVE  \E i \in next..e : Batch[j] = toDownload[i]
    <3>1. next + j - 1 \in next..e
      BY <1>1, <1>4, <2>2
    <3> QED
      BY <1>4, <3>1
  <2>3. QED
    <3>1. \A x \in Owed' : x \in {Batch[i] : i \in 1..Len(Batch)}
      BY <1>7, <2>1
    <3>2. \A x \in {Batch[i] : i \in 1..Len(Batch)} : x \in Owed'
      BY <1>7, <2>2
    <3> QED
      BY <3>1, <3>2
<1>9. Distinct(Batch)
  <2> SUFFICES ASSUME NEW i \in 1..Len(Batch), NEW j \in 1..Len(Batch),
                      Batch[i] = Batch[j]
               PROVE  i = j
    BY DEF Distinct
  <2>1. /\ next + i - 1 \in 1..Len(toDownload) /\ next + j - 1 \in 1..Len(toDownload)
        /\ toDownload[next + i - 1] = toDownload[next + j - 1]
    <3>1. i \in 1..e - next + 1 /\ j \in 1..e - next + 1
      BY <1>4
    <3>2. toDownload[next + i - 1] = toDownload[next + j - 1]
      BY <1>4, <3>1
    <3>3. next \in Nat \ {0} /\ Len(toDownload) \in Nat /\ e \in Nat /\ e <= Len(toDownload)
      BY <1>1, <1>4
    <3>4. next + i - 1 \in 1..Len(toDownload)
      BY <3>1, <3>3
    <3>5. next + j - 1 \in 1..Len(toDownload)
      BY <3>1, <3>3
    <3> QED
      BY <3>2, <3>4, <3>5
  <2>2. next + i - 1 = next + j - 1
    BY <2>1 DEF ListingInv, Distinct
  <2> QED
    BY <1>1, <2>2
<1>10. Cardinality(Owed') = Len(Batch)
  BY <1>1, <1>8, <1>9, DistinctCount
<1>11. BatchLen = Len(Batch)
  BY <1>3 DEF BatchLen
<1>12. (acked \subseteq Asked)'
  BY <1>1, <1>4, <1>5, <1>6 DEF Asked
<1> QED
  BY <1>1, <1>8, <1>9, <1>10, <1>11, <1>12

LEMMA RequestBatchKeeps ==
  ASSUME PullInv, RequestBatch, UNCHANGED sessionVars
  PROVE  AccountInv' /\ LinkInv'
<1>1. /\ cpc = "batch" /\ cpc' = "recv" /\ next <= Len(toDownload)
      /\ next' = BatchEnd + 1 /\ remaining' = BatchLen
      /\ SendRequest(DownloadReq(Batch))
      /\ UNCHANGED <<toClient, wbuf, werr, link, unscanned, toDownload, acked,
                     spc, queue, cur, skipped>>
  BY DEF RequestBatch, sessionVars
<1>2. /\ TypeOK /\ ListingInv /\ TurnsInv /\ SessionInv /\ BufferInv /\ CountInv
      /\ LinkInv
  BY <1>1 DEF AccountInv, PullInv, TypeInv, Running
<1>3. Owed = {} /\ toServer = <<>> /\ toClient = <<>>
  BY <1>1, <1>2 DEF CountInv, TurnsInv
<1>4. queue = <<>> /\ cur = NoJob
  BY <1>2, <1>3, Idle
<1>b. PICK b \in Seq(Path) : b = Batch
  BY <1>1, <1>2, BatchOwed
<1>5. /\ Distinct(b) /\ Owed' = {b[i] : i \in 1..Len(b)}
      /\ remaining' = Cardinality(Owed') /\ (acked \subseteq Asked)'
  BY <1>1, <1>2, <1>b, BatchOwed
<1>6. toServer' = IF link = "up" THEN <<[type |-> "DownloadReq", files |-> b]>> ELSE <<>>
  BY <1>1, <1>2, <1>3, <1>b DEF SendRequest, DownloadReq, TypeOK, WireTypeOK
<1>7. /\ Len(toServer') <= 1
      /\ \A k \in 1..Len(toServer') :
           toServer'[k].type = "DownloadReq" /\ toServer'[k].files = b
  BY <1>6
<1>8. ListingInv'
  BY <1>1, <1>2 DEF ListingInv, UniquePaths, Distinct
<1>9. TurnsInv'
  BY <1>1, <1>3, <1>7 DEF TurnsInv
<1>10. RequestInv'
  <2>1. \A i \in 1..Len(b) : b[i] \in Owed'
    BY <1>5
  <2> QED
    BY <1>1, <1>3, <1>4, <1>5, <1>7, <2>1 DEF RequestInv, Distinct
<1>11. SessionInv' /\ ClientStreamInv'
  BY <1>1, <1>3, <1>4 DEF SessionInv, ClientStreamInv, OnWire, AckedOnWire, Distinct
<1>12. BufferInv' /\ ErrorInv' /\ CountInv'
  <2>1. BufferInv'
    BY <1>1, <1>2 DEF BufferInv, Current
  <2>2. ErrorInv'
    BY <1>1, <1>3 DEF ErrorInv
  <2> QED
    BY <1>1, <1>5, <2>1, <2>2 DEF CountInv
<1>13. AccountInv'
  BY <1>5, <1>8, <1>9, <1>10, <1>11, <1>12 DEF AccountInv
<1>14. LinkInv'
  <2>1. ASSUME link = "up", NEW p \in Owed' PROVE ~ Lost(p)'
    <3>1. PICK i \in 1..Len(b) : b[i] = p
      BY <1>5, <2>1
    <3>2. 1 \in 1..Len(toServer') /\ toServer'[1].type = "DownloadReq" /\ toServer'[1].files = b
      BY <1>6, <2>1
    <3>3. Requested(p)'
      BY <3>1, <3>2 DEF Requested
    <3> QED
      BY <3>3 DEF Lost
  <2> QED
    BY <1>1, <1>2, <2>1 DEF LinkInv, Running
<1> QED
  BY <1>13, <1>14

(* A frame is taken off the client's stream.                                *)
LEMMA FrameTaken ==
  ASSUME TypeOK, ClientStreamInv, toClient # <<>>, toClient' = Tail(toClient)
  PROVE  /\ \A i \in 1..Len(toClient') :
              /\ i + 1 \in 1..Len(toClient) /\ 1 < i + 1
              /\ toClient'[i] = toClient[i + 1]
         /\ \A j \in 1..Len(toClient) :
              \/ toClient[j] = Head(toClient)
              \/ \E i \in 1..Len(toClient') : toClient'[i] = toClient[j]
         /\ Head(toClient) = toClient[1] /\ 1 \in 1..Len(toClient)
         /\ \A p \in Path : OnWire(p)' => OnWire(p)
         /\ \A p \in Path : AckedOnWire(p)' => AckedOnWire(p)
         /\ \A p \in Path : AckedOnWire(p) =>
              AckedOnWire(p)' \/ (IsAck(Head(toClient)) /\ Head(toClient).path = p)
         /\ \A p \in Path : IsAck(Head(toClient)) /\ Head(toClient).path = p =>
              OnWire(p) /\ AckedOnWire(p) /\ ~ OnWire(p)'
         /\ \A i, j \in 1..Len(toClient') :
              i < j /\ IsAck(toClient'[i]) /\ OfFile(toClient'[j]) =>
                toClient'[i].path # toClient'[j].path
<1> DEFINE h == Head(toClient)
<1>1. /\ h = toClient[1] /\ 1 \in 1..Len(toClient)
      /\ \A i \in 1..Len(toClient') :
           /\ i + 1 \in 1..Len(toClient) /\ 1 < i + 1
           /\ toClient'[i] = toClient[i + 1]
      /\ \A j \in 1..Len(toClient) :
           j = 1 \/ (j - 1 \in 1..Len(toClient') /\ toClient'[j - 1] = toClient[j])
  BY Shifted DEF TypeOK, WireTypeOK
<1> HIDE DEF h
<1>2. \A j \in 1..Len(toClient) :
        toClient[j] = h \/ \E i \in 1..Len(toClient') : toClient'[i] = toClient[j]
  BY <1>1
<1>3. \A p \in Path : (OnWire(p)' => OnWire(p)) /\ (AckedOnWire(p)' => AckedOnWire(p))
  BY <1>1 DEF OnWire, AckedOnWire
<1>4. \A p \in Path : AckedOnWire(p) => AckedOnWire(p)' \/ (IsAck(h) /\ h.path = p)
  BY <1>2 DEF AckedOnWire
<1>5. ASSUME NEW p \in Path, IsAck(h), h.path = p
      PROVE  OnWire(p) /\ AckedOnWire(p) /\ ~ OnWire(p)'
  <2>1. OfFile(h)
    BY <1>5 DEF IsAck, OfFile
  <2>2. OnWire(p) /\ AckedOnWire(p)
    BY <1>1, <1>5, <2>1 DEF OnWire, AckedOnWire
  <2>3. ASSUME OnWire(p)' PROVE FALSE
    <3>1. PICK i \in 1..Len(toClient') : OfFile(toClient'[i]) /\ toClient'[i].path = p
      BY <2>3 DEF OnWire
    <3> QED
      BY <1>1, <1>5, <3>1 DEF ClientStreamInv
  <2> QED
    BY <2>2, <2>3
<1>6. \A i, j \in 1..Len(toClient') :
        i < j /\ IsAck(toClient'[i]) /\ OfFile(toClient'[j]) =>
          toClient'[i].path # toClient'[j].path
  <2> SUFFICES ASSUME NEW i \in 1..Len(toClient'), NEW j \in 1..Len(toClient'), i < j,
                      IsAck(toClient'[i]), OfFile(toClient'[j])
               PROVE  toClient'[i].path # toClient'[j].path
    OBVIOUS
  <2>1. i + 1 < j + 1
    OBVIOUS
  <2> QED
    BY <1>1, <2>1 DEF ClientStreamInv
<1> QED
  BY <1>1, <1>2, <1>3, <1>4, <1>5, <1>6 DEF h

(* Download's loop takes a chunk, or an acknowledgement, off the stream.    *)
LEMMA ReceiveKeeps ==
  ASSUME PullInv, TypeOK', cpc = "recv", toClient # <<>>, toClient' = Tail(toClient),
         OfFile(Head(toClient)),
         acked' = IF IsAck(Head(toClient)) THEN acked \cup {Head(toClient).path}
                                           ELSE acked,
         remaining' = IF IsAck(Head(toClient)) THEN remaining - 1 ELSE remaining,
         cpc' = IF remaining' > 0 THEN "recv" ELSE "render",
         UNCHANGED <<toServer, wbuf, werr, link, unscanned, toDownload, next,
                     spc, queue, cur, skipped>>
  PROVE  AccountInv' /\ LinkInv'
<1> DEFINE h == Head(toClient)
<1>1. /\ TypeOK /\ TypeInv /\ ListingInv /\ TurnsInv /\ RequestInv /\ SessionInv
      /\ ClientStreamInv /\ BufferInv /\ ErrorInv /\ CountInv /\ LinkInv
  BY DEF AccountInv, PullInv, TypeInv, Running
<1>2. /\ Running' /\ cpc' \in {"recv", "render"}
      /\ Asked' = Asked
      /\ toServer' = toServer
  BY DEF Running, Asked
<1>3. toServer = <<>>
  <2> SUFFICES ASSUME toServer # <<>> PROVE FALSE
    OBVIOUS
  <2>1. 1 \in 1..Len(toServer)
    BY <1>1, FirstOf DEF TypeOK, WireTypeOK
  <2> QED
    BY <1>1, <2>1 DEF TurnsInv, RequestInv
<1>h. PICK g \in Path : g = h.path
  BY <1>1, FrameTaken, FilePaths DEF TypeOK, WireTypeOK
<1>4. IsAck(h) => g \in Owed /\ AckedOnWire(g) /\ ~ Queued(g) /\ ~ Current(g)
  BY <1>1, <1>h, FrameTaken DEF ClientStreamInv
<1>5. Owed' = IF IsAck(h) THEN Owed \ {g} ELSE Owed
  BY <1>2, <1>h DEF Owed
<1>6. \A p \in Path : /\ OnWire(p)' => OnWire(p) /\ ~ (IsAck(h) /\ p = g)
                      /\ AckedOnWire(p)' => AckedOnWire(p)
                      /\ AckedOnWire(p) => AckedOnWire(p)' \/ (IsAck(h) /\ p = g)
                      /\ Queued(p)' <=> Queued(p)
                      /\ Current(p)' <=> Current(p)
  <2>1. \A p \in Path : (Queued(p)' <=> Queued(p)) /\ (Current(p)' <=> Current(p))
    BY DEF Queued, Current
  <2>2. \A p \in Path : IsAck(h) /\ h.path = p => ~ OnWire(p)'
    BY <1>1, FrameTaken
  <2>3. \A p \in Path : (OnWire(p)' => OnWire(p)) /\ (AckedOnWire(p)' => AckedOnWire(p))
    BY <1>1, FrameTaken
  <2>4. \A p \in Path : AckedOnWire(p) => AckedOnWire(p)' \/ (IsAck(h) /\ h.path = p)
    BY <1>1, FrameTaken
  <2> QED
    BY <1>h, <2>1, <2>2, <2>3, <2>4
<1>7. /\ \A i \in 1..Len(toClient') :
           i + 1 \in 1..Len(toClient) /\ toClient'[i] = toClient[i + 1]
      /\ \A j \in 1..Len(toClient) :
           toClient[j] = h \/ \E i \in 1..Len(toClient') : toClient'[i] = toClient[j]
  BY <1>1, FrameTaken
<1>8. /\ h.type \in {"DataChunk", "BatchDone"}
      /\ \A i \in 1..Len(toClient') : toClient'[i].type # "ListResponse"
  BY <1>1, <1>7 DEF OfFile, TurnsInv
<1>9. \A i, j \in 1..Len(toClient') :
        i < j /\ IsAck(toClient'[i]) /\ OfFile(toClient'[j]) =>
          toClient'[i].path # toClient'[j].path
  BY <1>1, FrameTaken
<1>10. ListingInv'
  BY <1>1, <1>2, <1>8 DEF ListingInv, UniquePaths, Distinct
<1>11. RequestInv'
  BY <1>2, <1>3 DEF RequestInv
<1>12. SessionInv'
  <2>1. ASSUME NEW i \in 1..Len(queue) PROVE queue[i] \in Owed'
    BY <1>1, <1>4, <1>5 DEF SessionInv, Queued
  <2>2. cur # NoJob => cur.path \in Owed' /\ ~ Queued(cur.path)
    BY <1>1, <1>4, <1>5 DEF SessionInv, Current
  <2> QED
    BY <1>1, <2>1, <2>2 DEF SessionInv, Queued, Distinct
<1>13. ClientStreamInv'
  <2>1. \A p \in Path : OnWire(p)' => p \in Owed' /\ ~ Queued(p)'
    BY <1>1, <1>5, <1>6 DEF ClientStreamInv
  <2>2. \A p \in Path : AckedOnWire(p)' => ~ Current(p)'
    BY <1>1, <1>6 DEF ClientStreamInv
  <2> QED
    BY <1>9, <2>1, <2>2 DEF ClientStreamInv
<1>14. BufferInv'
  BY <1>1 DEF BufferInv, Current
<1>15. \A p \in Path : ~ (IsAck(h) /\ p = g) => (Lost(p)' <=> Lost(p))
  BY <1>2, <1>6 DEF Lost, Requested
<1>16. ErrorInv'
  <2> SUFFICES ASSUME NEW i \in 1..Len(toClient'), toClient'[i].type = "Error"
               PROVE  \E p \in Owed' : Lost(p)'
    BY DEF ErrorInv
  <2>1. PICK p \in Owed : Lost(p)
    BY <1>1, <1>7 DEF ErrorInv
  <2>2. p \in Path
    BY <1>1, OwedPaths
  <2>3. ~ (IsAck(h) /\ p = g)
    BY <1>4, <2>1 DEF Lost
  <2> QED
    BY <1>5, <1>15, <2>1, <2>2, <2>3
<1>17. (acked \subseteq Asked)'
  BY <1>1, <1>2, <1>4, <1>h DEF CountInv, Owed
<1>18. IsFiniteSet(Owed)
  BY <1>1, OwedFinite DEF ListingInv
<1>19. remaining' = Cardinality(Owed')
  BY <1>1, <1>4, <1>5, <1>18, FS_RemoveElement DEF CountInv
<1>20. CountInv'
  <2>1. Cardinality(Owed') \in Nat /\ IsFiniteSet(Owed')
    <3>1. IsFiniteSet(Owed')
      BY <1>5, <1>18, FS_RemoveElement
    <3> QED
      BY <3>1, FS_CardinalityType
  <2>2. cpc' # "recv" => Owed' = {}
    BY <1>19, <2>1, FS_EmptySet
  <2> QED
    BY <1>17, <1>19, <2>2 DEF CountInv
<1>21. TurnsInv'
  <2>1. CASE cpc' = "recv"
    BY <1>2, <1>3, <1>8, <2>1 DEF TurnsInv
  <2>2. CASE cpc' = "render"
    <3>1. Owed' = {}
      BY <1>20, <2>2 DEF CountInv
    <3>2. toClient' = <<>>
      <4> SUFFICES ASSUME toClient' # <<>> PROVE FALSE
        OBVIOUS
      <4>1. 1 \in 1..Len(toClient') /\ toClient'[1] \in Frame /\ toClient' \in Seq(Frame)
        BY FirstOf DEF TypeOK, WireTypeOK
      <4>2. OfFile(toClient'[1]) \/ toClient'[1].type = "Error"
        BY <1>8, <4>1 DEF Frame, OfFile
      <4>3. CASE toClient'[1].type = "Error"
        BY <1>16, <2>2, <3>1, <4>1, <4>3 DEF ErrorInv
      <4>4. CASE OfFile(toClient'[1])
        <5>1. PICK p \in Path : toClient'[1].path = p
          BY <4>1, <4>4, FilePaths
        <5>2. OnWire(p)'
          BY <4>1, <4>4, <5>1 DEF OnWire
        <5> QED
          BY <1>13, <3>1, <5>2 DEF ClientStreamInv
      <4> QED
        BY <4>2, <4>3, <4>4
    <3> QED
      BY <1>2, <1>3, <2>2, <3>2 DEF TurnsInv
  <2> QED
    BY <1>2, <2>1, <2>2
<1>22. AccountInv'
  BY <1>10, <1>11, <1>12, <1>13, <1>14, <1>16, <1>17, <1>20, <1>21 DEF AccountInv
<1>23. LinkInv'
  <2>1. ASSUME link = "up"
        PROVE  \/ \E i \in 1..Len(toClient') : toClient'[i].type = "Error"
               \/ \A p \in Owed' : Lost(p)' => p \in skipped
    <3>1. CASE \E i \in 1..Len(toClient) : toClient[i].type = "Error"
      BY <1>7, <1>8, <3>1
    <3>2. CASE \A p \in Owed : Lost(p) => p \in skipped
      <4>1. \A p \in Owed' : p \in Owed /\ p \in Path /\ ~ (IsAck(h) /\ p = g)
        BY <1>1, <1>5, OwedPaths
      <4> QED
        BY <1>15, <3>2, <4>1
    <3> QED
      BY <1>1, <2>1, <3>1, <3>2 DEF LinkInv
  <2> QED
    BY <1>1, <1>2, <2>1 DEF LinkInv
<1> QED
  BY <1>22, <1>23

(* Every step of the client. *)
LEMMA PullerKeeps ==
  ASSUME PullInv, TypeOK', PullerStep
  PROVE  AccountInv' /\ LinkInv'
<1>1. PullerNext /\ UNCHANGED sessionVars /\ UNCHANGED <<spc, queue, cur, skipped>>
  BY DEF PullerStep, sessionVars
<1>2. AccountInv /\ TypeInv /\ TypeOK
  BY DEF PullInv, TypeInv
<1>3. CASE RequestListing
  BY <1>1, <1>3, RequestListingKeeps
<1>4. CASE RecvListing
  BY <1>1, <1>4, RecvListingKeeps
<1>5. CASE Scan
  BY <1>1, <1>5, ScanKeeps
<1>6. CASE ScanDone \/ Render
  BY <1>1, <1>6, ScanDoneKeeps
<1>7. CASE RequestBatch
  BY <1>1, <1>7, RequestBatchKeeps
<1>8. CASE WriteFails \/ RecvError \/ FinishPull \/ ConnLost \/ RenderPanics
  <2>1. /\ cpc' \in {"ok", "failed"} /\ link' = "down"
        /\ UNCHANGED <<toDownload, next, acked>>
    BY <1>8 DEF WriteFails, RecvError, FinishPull, ConnLost, RenderPanics, Return
  <2> QED
    BY <1>2, <2>1, ReturnKeeps
<1>9. CASE RecvChunk
  <2>1. /\ cpc = "recv" /\ cpc' = "recv" /\ toClient # <<>> /\ toClient' = Tail(toClient)
        /\ Head(toClient).type = "DataChunk"
        /\ UNCHANGED <<toServer, wbuf, werr, link, unscanned, toDownload, next,
                       remaining, acked>>
    BY <1>9 DEF RecvChunk, Receives
  <2>2. remaining > 0
    BY <1>2, <2>1 DEF TypeInv, WaitsForSome
  <2>3. OfFile(Head(toClient)) /\ ~ IsAck(Head(toClient))
    BY <2>1 DEF OfFile, IsAck
  <2> QED
    BY <1>1, <2>1, <2>2, <2>3, ReceiveKeeps
<1>10. CASE RecvBatchDone
  <2>1. /\ cpc = "recv" /\ toClient # <<>> /\ toClient' = Tail(toClient)
        /\ Head(toClient).type = "BatchDone"
        /\ remaining' = remaining - 1
        /\ acked' = acked \cup {Head(toClient).path}
        /\ cpc' = IF remaining' > 0 THEN "recv" ELSE "render"
        /\ UNCHANGED <<toServer, wbuf, werr, link, unscanned, toDownload, next>>
    BY <1>10 DEF RecvBatchDone, Receives
  <2>2. OfFile(Head(toClient)) /\ IsAck(Head(toClient))
    BY <2>1 DEF OfFile, IsAck
  <2> QED
    BY <1>1, <2>1, <2>2, ReceiveKeeps
<1> QED
  BY <1>1, <1>3, <1>4, <1>5, <1>6, <1>7, <1>8, <1>9, <1>10 DEF PullerNext, Download

-----------------------------------------------------------------------------
(* The whole of it. *)
LEMMA PullInit == Init => PullInv
<1> SUFFICES ASSUME Init PROVE PullInv
  OBVIOUS
<1>1. TypeInv /\ FlushInv
  BY TypeInit DEF Init, WireInit, FlushInv
<1>2. /\ cpc = "start" /\ unscanned = {} /\ toDownload = <<>> /\ next = 1
      /\ acked = {} /\ toServer = <<>> /\ toClient = <<>> /\ wbuf = <<>>
      /\ werr = FALSE /\ link = "up" /\ spc = "decode" /\ queue = <<>> /\ cur = NoJob
  BY DEF Init, WireInit, SessionInit, PullerInit
<1>3. Asked = {} /\ Owed = {} /\ Running
  BY <1>2 DEF Asked, Owed, Running
<1>4. ListingInv /\ TurnsInv /\ RequestInv
  BY <1>2 DEF ListingInv, TurnsInv, RequestInv, UniquePaths, Distinct
<1>5. SessionInv /\ ClientStreamInv
  BY <1>2 DEF SessionInv, ClientStreamInv, OnWire, AckedOnWire, Distinct
<1>6. BufferInv /\ ErrorInv
  BY <1>2 DEF BufferInv, ErrorInv
<1>7. CountInv
  BY <1>2, <1>3 DEF CountInv
<1>8. AccountInv
  BY <1>2, <1>4, <1>5, <1>6, <1>7 DEF AccountInv
<1>9. LinkInv
  BY <1>2, <1>3 DEF LinkInv
<1> QED
  BY <1>1, <1>8, <1>9 DEF PullInv

LEMMA PullStep == PullInv /\ [Next]_vars => PullInv'
<1> SUFFICES ASSUME PullInv, [Next]_vars PROVE PullInv'
  OBVIOUS
<1>1. TypeInv' /\ FlushInv' /\ TypeOK'
  BY TypeStep, FlushStep DEF PullInv, TypeInv
<1>2. CASE SessionStep
  BY <1>1, <1>2, SessionKeeps DEF PullInv
<1>3. CASE PullerStep
  BY <1>1, <1>3, PullerKeeps DEF PullInv
<1>4. CASE Edit \/ Break \/ UNCHANGED vars
  <2>1. /\ UNCHANGED <<cpc, unscanned, toDownload, next, remaining, acked>>
        /\ UNCHANGED <<toServer, toClient, wbuf, werr, spc, queue, cur, skipped>>
        /\ link' = link \/ link' = "down"
    BY <1>4 DEF Edit, Break, vars, wireVars, sessionVars, pullerVars
  <2>2. Asked' = Asked /\ Owed' = Owed /\ Running' = Running
    BY <2>1 DEF Asked, Owed, Running
  <2>3. AccountInv /\ LinkInv
    BY DEF PullInv
  <2>4. (acked \subseteq Asked)'
    BY <2>1, <2>2, <2>3 DEF AccountInv
  <2>5. ASSUME Running PROVE AccountInv'
    <3>1. /\ ListingInv /\ TurnsInv /\ RequestInv /\ SessionInv /\ ClientStreamInv
          /\ BufferInv /\ ErrorInv /\ CountInv
      BY <2>3, <2>5 DEF AccountInv
    <3>2. ListingInv'
      BY <2>1, <3>1 DEF ListingInv, UniquePaths, Distinct
    <3>3. RequestInv' /\ SessionInv' /\ TurnsInv'
      BY <2>1, <2>2, <3>1 DEF RequestInv, SessionInv, TurnsInv, Queued, Distinct
    <3>4. ClientStreamInv' /\ BufferInv'
      BY <2>1, <2>2, <3>1 DEF ClientStreamInv, BufferInv, OnWire, AckedOnWire, Queued, Current
    <3>5. ErrorInv' /\ CountInv'
      <4>1. \A p \in Owed : Lost(p)' <=> Lost(p)
        BY <2>1 DEF Lost, Requested, Queued, Current, AckedOnWire
      <4> QED
        BY <2>1, <2>2, <3>1, <4>1 DEF ErrorInv, CountInv
    <3> QED
      BY <2>4, <3>2, <3>3, <3>4, <3>5 DEF AccountInv
  <2>6. LinkInv'
    <3>1. \A p \in Owed : Lost(p)' <=> Lost(p)
      BY <2>1 DEF Lost, Requested, Queued, Current, AckedOnWire
    <3> QED
      BY <2>1, <2>2, <2>3, <3>1 DEF LinkInv
  <2>7. AccountInv'
    BY <2>2, <2>4, <2>5 DEF AccountInv
  <2> QED
    BY <1>1, <2>6, <2>7 DEF PullInv
<1> QED
  BY <1>1, <1>2, <1>3, <1>4 DEF Next, Finished, PullInv

(* The accounting holds throughout. *)
THEOREM PullInvariant == Spec => []PullInv
BY PullInit, PullStep, PTL DEF Spec

-----------------------------------------------------------------------------
(* Download's count, which ignores the path of a BatchDone, is at all times *)
(* the number of files requested and not acknowledged: no acknowledgement   *)
(* is sent twice, for another file, or for a file of an earlier batch.      *)
THEOREM CountIsRight == Spec => []CounterMatchesOutstanding
<1>1. PullInv => CounterMatchesOutstanding
  BY DEF PullInv, AccountInv, CountInv, Running, CounterMatchesOutstanding, Outstanding,
         Owed
<1> QED
  BY <1>1, PullInvariant, PTL

(* The loops of Download and handleDownload wait for each other only over a *)
(* requested path that handleDownload passed over as a directory.           *)
THEOREM WaitsOnlyForDirectories == Spec => []StuckOnlyOnDirectory
<1>1. ASSUME PullInv, MutualWait
      PROVE  cpc = "recv" /\ Outstanding \cap skipped # {}
  <2>1. /\ link = "up" /\ spc = "decode" /\ toServer = <<>> /\ toClient = <<>>
        /\ cpc \in {"list", "recv"} /\ Running
        /\ TypeOK /\ SessionInv /\ CountInv /\ LinkInv /\ ListingInv
    BY <1>1 DEF MutualWait, PullInv, AccountInv, Running, TypeInv
  <2>2. cpc = "recv" /\ remaining > 0
    BY <1>1, <2>1 DEF LinkInv, PullInv, TypeInv, WaitsForSome
  <2>3. PICK p \in Owed : p \in Path
    <3>1. Owed # {}
      BY <2>1, <2>2, FS_EmptySet DEF CountInv
    <3> QED
      BY <2>1, <3>1, OwedPaths
  <2>4. queue = <<>> /\ cur = NoJob
    BY <2>1 DEF SessionInv, TypeOK, SessionTypeOK
  <2>5. Lost(p)
    BY <2>1, <2>4 DEF Lost, Requested, Queued, Current, AckedOnWire
  <2>6. p \in skipped
    BY <2>1, <2>5 DEF LinkInv
  <2> QED
    BY <2>2, <2>3, <2>6 DEF Outstanding, Owed
<1>2. PullInv => StuckOnlyOnDirectory
  BY <1>1 DEF StuckOnlyOnDirectory
<1> QED
  BY <1>2, PullInvariant, PTL

(* Whatever arrives, a pull writes only the file it is waiting for.         *)
THEOREM WritesWhatItAwaits == Spec => WritesOnlyOutstanding
<1>1. ASSUME PullInv, [Next]_vars, NEW p \in Path, local'[p] # local[p]
      PROVE  \/ p \in Outstanding
             \/ local[p].kind = "absent" /\ local'[p].kind = "dir"
  <2>t. local \in [Path -> LocalEntry] /\ toClient \in Seq(Frame)
    BY <1>1 DEF PullInv, TypeInv, TypeOK, PullerTypeOK, WireTypeOK
  <2>1. CASE Scan
    <3>1. PICK fi \in unscanned : ScanDir(fi)
      BY <1>1, <2>1 DEF Scan, SkipExisting, WantFile
    <3> QED
      BY <1>1, <2>t, <3>1 DEF ScanDir
  <2>2. CASE RecvChunk \/ WriteFails
    <3>1. /\ cpc = "recv" /\ toClient # <<>> /\ Head(toClient).type = "DataChunk"
          /\ p = Head(toClient).path
      BY <1>1, <2>2, <2>t DEF RecvChunk, WriteFails, Receives
    <3>2. OnWire(p)
      BY <2>t, <3>1, Shifted DEF OnWire, OfFile
    <3>3. ClientStreamInv
      BY <1>1, <3>1 DEF PullInv, AccountInv, Running
    <3> QED
      BY <3>1, <3>2, <3>3 DEF ClientStreamInv, Outstanding, Owed
  <2>3. Scan \/ RecvChunk \/ WriteFails \/ UNCHANGED local
    BY <1>1 DEF Next, SessionStep, PullerStep, PullerNext, Download, Edit, Break, Finished,
                vars, pullerVars, RequestListing, RecvListing, ScanDone, RequestBatch,
                RecvBatchDone, RecvError, Render, RenderPanics, FinishPull, ConnLost
  <2> QED
    BY <1>1, <2>1, <2>2, <2>3
<1>2. PullInv /\ [Next]_vars =>
        [\A p \in Path :
           local'[p] # local[p] =>
             \/ p \in Outstanding
             \/ local[p].kind = "absent" /\ local'[p].kind = "dir"]_vars
  BY <1>1
<1> QED
  BY <1>2, PullInvariant, PTL DEF Spec, WritesOnlyOutstanding

(* The refinement of Delivery: initial states map to initial states, and    *)
(* every step to a step or to none.                                         *)
LEMMA PromiseInit == Init => Promise!Init
<1> SUFFICES ASSUME Init PROVE Promise!Init
  OBVIOUS
<1>1. cpc = "start" /\ toDownload = <<>> /\ next = 1 /\ acked = {}
  BY DEF Init, PullerInit
<1> QED
  BY <1>1 DEF Promise!Init, Asked, Outcome

LEMMA PromiseStep ==
  ASSUME PullInv, [Next]_vars
  PROVE  [Promise!Next]_(Promise!vars)
<1> DEFINE wanted == {toDownload[i] : i \in 1..Len(toDownload)}
<1>1. /\ TypeOK /\ acked \subseteq Asked
      /\ Running => ListingInv /\ CountInv /\ ClientStreamInv
  BY DEF PullInv, TypeInv, AccountInv
<1>2. /\ toDownload \in Seq(Path) /\ Len(toDownload) \in Nat
      /\ next \in Nat \ {0} /\ next - 1 <= Len(toDownload)
  BY <1>1, LenProperties DEF TypeOK, PullerTypeOK
<1>3. Asked \subseteq wanted
  BY <1>2 DEF Asked
<1>4. CASE UNCHANGED <<cpc, toDownload, next, acked>>
  <2>1. Asked' = Asked /\ wanted' = wanted /\ Outcome' = Outcome /\ acked' = acked
    BY <1>4 DEF Asked, Outcome
  <2> QED
    BY <2>1 DEF Promise!vars
<1>5. CASE RequestListing \/ ScanDone \/ Render
           \/ (RecvListing /\ cpc' = "scan") \/ RecvChunk
  <2>1. /\ UNCHANGED <<toDownload, next, acked>>
        /\ cpc \notin {"ok", "failed"} /\ cpc' \notin {"ok", "failed"}
    BY <1>5 DEF RequestListing, ScanDone, Render, RecvListing, RecvChunk, Receives
  <2>2. Asked' = Asked /\ wanted' = wanted /\ Outcome' = Outcome /\ acked' = acked
    BY <2>1 DEF Asked, Outcome
  <2> QED
    BY <2>2 DEF Promise!vars
<1>6. CASE Scan
  <2>1. PICK fi \in unscanned : UNCHANGED toDownload \/ WantFile(fi)
    BY <1>6 DEF Scan, ScanDir, SkipExisting
  <2>2. cpc = "scan" /\ UNCHANGED <<cpc, next, acked>> /\ next = 1
    BY <1>1, <1>6 DEF Scan, Running, ListingInv
  <2>3. Asked = {} /\ Asked' = {} /\ Outcome = "running" /\ Outcome' = "running"
        /\ acked' = acked
    BY <2>2 DEF Asked, Outcome
  <2>4. CASE UNCHANGED toDownload
    BY <1>4, <2>2, <2>4
  <2>5. CASE WantFile(fi)
    <3>1. fi.path \in Path
      BY <1>1 DEF TypeOK, PullerTypeOK, FileInfo
    <3>2. /\ Len(toDownload') = Len(toDownload) + 1
          /\ \A i \in 1..Len(toDownload) : toDownload'[i] = toDownload[i]
          /\ toDownload'[Len(toDownload) + 1] = fi.path
      BY <1>2, <2>5, <3>1, AppendProperties DEF WantFile
    <3>3. wanted' = wanted \cup {fi.path}
      BY <1>2, <3>2
    <3>4. Promise!Want(fi.path)
      BY <2>3, <3>3 DEF Promise!Want
    <3> QED
      BY <3>1, <3>4 DEF Promise!Next
  <2> QED
    BY <2>1, <2>4, <2>5
<1>7. CASE RequestBatch
  <2>1. /\ cpc = "batch" /\ cpc' = "recv" /\ next <= Len(toDownload)
        /\ next' = BatchEnd + 1 /\ UNCHANGED <<toDownload, acked>>
    BY <1>7 DEF RequestBatch
  <2>2. Running /\ Outcome = "running" /\ Outcome' = "running"
    BY <2>1 DEF Running, Outcome
  <2>3. acked = Asked
    BY <1>1, <2>1, <2>2 DEF CountInv, Owed
  <2>4. BatchEnd \in Nat /\ next <= BatchEnd /\ BatchEnd <= Len(toDownload)
    BY <1>1, <2>1, BatchBounds DEF TypeOK
  <2> DEFINE group == {toDownload[i] : i \in next..BatchEnd}
  <2>5. Asked' = Asked \cup group
    BY <1>2, <2>1, <2>4 DEF Asked
  <2>6. group \subseteq wanted /\ toDownload[next] \in group
    BY <1>2, <2>4
  <2>7. \A p \in group : p \notin Asked
    <3>1. \A i, j \in 1..Len(toDownload) : toDownload[i] = toDownload[j] => i = j
      BY <1>1, <2>2 DEF ListingInv, Distinct
    <3> QED
      BY <1>2, <2>4, <3>1 DEF Asked
  <2>8. wanted' = wanted /\ acked' = acked
    BY <2>1
  <2> HIDE DEF group, wanted
  <2>9. group \in SUBSET (wanted \ Asked) /\ group # {}
    BY <2>6, <2>7
  <2>10. Promise!Ask
    BY <2>2, <2>3, <2>5, <2>8, <2>9 DEF Promise!Ask, wanted
  <2> QED
    BY <2>10 DEF Promise!Next
<1>8. CASE RecvBatchDone
  <2>1. /\ cpc = "recv" /\ cpc' \in {"recv", "render"}
        /\ UNCHANGED <<toDownload, next>>
        /\ toClient # <<>> /\ Head(toClient).type = "BatchDone"
        /\ acked' = acked \cup {Head(toClient).path}
    BY <1>8 DEF RecvBatchDone, Receives
  <2>2. Running /\ Outcome = "running" /\ Outcome' = "running"
    BY <2>1 DEF Running, Outcome
  <2>3. toClient \in Seq(Frame)
    BY <1>1 DEF TypeOK, WireTypeOK
  <2>4. PICK p \in Path : p = Head(toClient).path /\ OnWire(p)
    BY <2>1, <2>3, Shifted, FilePaths DEF OnWire, OfFile
  <2>5. p \in Asked \ acked
    BY <1>1, <2>2, <2>4 DEF ClientStreamInv, Owed
  <2>6. Asked' = Asked /\ wanted' = wanted /\ acked' = acked \cup {p}
    BY <2>1, <2>4 DEF Asked
  <2>7. Promise!Deliver(p)
    BY <2>2, <2>5, <2>6 DEF Promise!Deliver
  <2> QED
    BY <2>7 DEF Promise!Next
<1>9. CASE FinishPull
  <2>1. /\ cpc = "batch" /\ cpc' = "ok" /\ next > Len(toDownload)
        /\ UNCHANGED <<toDownload, next, acked>>
    BY <1>9 DEF FinishPull, Return
  <2>2. Running /\ Outcome = "running" /\ Outcome' = "ok"
    BY <2>1 DEF Running, Outcome
  <2>3. acked = Asked
    BY <1>1, <2>1, <2>2 DEF CountInv, Owed
  <2>4. Asked = wanted
    <3>1. next - 1 = Len(toDownload)
      BY <1>2, <2>1
    <3> QED
      BY <3>1 DEF Asked
  <2>5. Asked' = Asked /\ wanted' = wanted /\ acked' = acked
    BY <2>1 DEF Asked
  <2>6. Promise!Succeed
    BY <2>2, <2>3, <2>4, <2>5 DEF Promise!Succeed
  <2> QED
    BY <2>6 DEF Promise!Next
<1>10. CASE cpc \notin {"ok", "failed"} /\ cpc' = "failed"
            /\ UNCHANGED <<toDownload, next, acked>>
  <2>1. Outcome = "running" /\ Outcome' = "failed"
    BY <1>10 DEF Outcome
  <2>2. Asked' = Asked /\ wanted' = wanted /\ acked' = acked
    BY <1>10 DEF Asked
  <2>3. Promise!Fail
    BY <2>1, <2>2 DEF Promise!Fail
  <2> QED
    BY <2>3 DEF Promise!Next
<1>11. CASE (RecvListing /\ cpc' # "scan") \/ WriteFails \/ RecvError \/ RenderPanics
            \/ ConnLost
  <2>1. /\ cpc \notin {"ok", "failed"} /\ cpc' = "failed"
        /\ UNCHANGED <<toDownload, next, acked>>
    BY <1>11 DEF RecvListing, WriteFails, RecvError, Receives, RenderPanics, ConnLost,
                 Return
  <2> QED
    BY <1>10, <2>1
<1>12. CASE SessionStep \/ Edit \/ Break \/ UNCHANGED vars
  <2>1. UNCHANGED <<cpc, toDownload, next, acked>>
    BY <1>12 DEF SessionStep, Edit, Break, vars, pullerVars
  <2> QED
    BY <1>4, <2>1
<1> QED
  BY <1>5, <1>6, <1>7, <1>8, <1>9, <1>11, <1>12
     DEF Next, Finished, PullerStep, PullerNext, Download

(* Pull keeps the promise that Delivery states: what it wants is settled    *)
(* before it asks, each group it asks for is new and follows a group that   *)
(* was delivered in full, each delivery is of a path asked for and not yet  *)
(* delivered, and success is reported after all that was wanted.            *)
THEOREM ImplementsDelivery == Spec => KeepsPromise
<1>1. PullInv /\ [Next]_vars => [Promise!Next]_(Promise!vars)
  BY PromiseStep
<1> QED
  BY <1>1, PromiseInit, PullInvariant, PTL DEF Spec, KeepsPromise, Promise!Spec
-----------------------------------------------------------------------------
(***************************************************************************)
(* Content.  The stream to the client, together with what the session's    *)
(* writer still holds back, is one pipe: frames enter at its end, the      *)
(* client takes them at its head, and a broken connection cuts off its     *)
(* end.                                                                    *)
(***************************************************************************)
Pipe == IF link = "up" THEN toClient \o wbuf ELSE toClient

IsChunk(f) == f.type = "DataChunk"
Ends(c)    == c.offset + Len(c.data)

OnPipe(w, p) == \E i \in 1..Len(w) : OfFile(w[i]) /\ w[i].path = p

(* When the client has handled the first i frames of w, it holds the first  *)
(* n blocks that were framed of p, and Progress knows whether that is all.  *)
HoldsAfter(w, i, p, n) ==
  IF i = 0 THEN /\ local[p] = [kind |-> "file", data |-> SubSeq(sent[p].data, 1, n)]
                /\ p \in done <=> n >= Len(sent[p].seen)
           ELSE IsChunk(w[i]) /\ w[i].path = p /\ Ends(w[i]) = n

(* A chunk is a piece of what was framed of its file.  It is the first one, *)
(* or goes on where the frame before it ended.                              *)
ChunkOK(w, i) ==
  IsChunk(w[i]) =>
    /\ sent[w[i].path].chunks > 0
    /\ Ends(w[i]) <= Len(sent[w[i].path].data)
    /\ w[i].data = SubSeq(sent[w[i].path].data, w[i].offset + 1, Ends(w[i]))
    /\ w[i].isLast <=> Ends(w[i]) >= Len(sent[w[i].path].seen)
    /\ IF w[i].offset = 0
       THEN /\ w[i].path \notin done
            /\ \A j \in 1..i - 1 : ~ (OfFile(w[j]) /\ w[j].path = w[i].path)
       ELSE HoldsAfter(w, i - 1, w[i].path, w[i].offset)

ChunkInv(w) == \A i \in 1..Len(w) : ChunkOK(w, i)

(* Nothing but an edit keeps what was framed of p from being the file that  *)
(* stat saw.                                                                *)
Whole(p) == p \notin unsteady => sent[p].chunks > 0 /\ sent[p].data = sent[p].seen

(* An acknowledgement follows all that was framed of its file. *)
AckOK(w, i) ==
  IsAck(w[i]) =>
    /\ Whole(w[i].path)
    /\ IF sent[w[i].path].chunks = 0
       THEN w[i].path \notin done
       ELSE HoldsAfter(w, i - 1, w[i].path, Len(sent[w[i].path].data))

AckInv(w) == \A i \in 1..Len(w) : AckOK(w, i)

(* The file at hand. *)
UnsentInv(w) ==
  cur # NoJob /\ (spc = "stat" \/ sent[cur.path].chunks = 0) =>
    cur.path \notin done /\ ~ OnPipe(w, cur.path)

FramedInv(w) ==
  /\ spc = "stat" => cur.offset = 0
  /\ cur # NoJob /\ spc # "stat" =>
       /\ cur.size = Len(sent[cur.path].seen)
       /\ cur.offset = Len(sent[cur.path].data)
       /\ spc = "open" => sent[cur.path].chunks = 0
       /\ sent[cur.path].chunks = 0 => sent[cur.path].data = <<>>
       /\ spc = "send" /\ sent[cur.path].chunks > 0 => cur.offset > 0
       /\ link = "up" /\ sent[cur.path].chunks > 0 =>
            HoldsAfter(w, Len(w), cur.path, cur.offset)

SteadyInv ==
  cur # NoJob /\ cur.path \notin unsteady =>
    /\ spc \in {"open", "send"} =>
         /\ cur.dir = cur.found
         /\ Found.data = sent[cur.path].seen
         /\ sent[cur.path].data = SubSeq(sent[cur.path].seen, 1, cur.offset)
    /\ spc = "send" => cur.offset < cur.size
    /\ spc = "close" => Whole(cur.path)

(* A file is fetched once: nothing of it is there before it is looked at,   *)
(* and nothing is framed of it after it was acknowledged.                   *)
Pending(p) == Requested(p) \/ Queued(p) \/ Current(p)

PendingInv == \A p \in Path : Pending(p) => p \notin acked

FreshInv ==
  /\ done \subseteq Asked
  /\ \A p \in Path : Requested(p) \/ Queued(p) => p \notin done

(* What the client holds of the files that were acknowledged. *)
AckedInv ==
  \A p \in acked :
    /\ Whole(p)
    /\ sent[p].chunks > 0 => local[p] = [kind |-> "file", data |-> sent[p].data]
    /\ p \in done <=> sent[p].chunks > 0 /\ Len(sent[p].data) >= Len(sent[p].seen)

PipeInv(w) == ChunkInv(w) /\ AckInv(w) /\ UnsentInv(w) /\ FramedInv(w)

ContentInv ==
  /\ PendingInv /\ AckedInv
  /\ Running => FreshInv /\ PipeInv(Pipe) /\ SteadyInv

-----------------------------------------------------------------------------
(* The pipe is a queue. *)
LEMMA PipeType ==
  ASSUME TypeOK
  PROVE  /\ Pipe \in Seq(Frame) /\ Len(Pipe) \in Nat
         /\ toClient \in Seq(Frame) /\ wbuf \in Seq(Frame)
         /\ Len(toClient) \in Nat /\ Len(wbuf) \in Nat
BY ConcatProperties, LenProperties DEF TypeOK, WireTypeOK, Pipe

LEMMA PipeEncode ==
  ASSUME TypeOK, NEW m \in Frame, Encode(m), UNCHANGED link
  PROVE  Pipe' = IF link = "up" THEN Append(Pipe, m) ELSE Pipe
<1>1. toClient \in Seq(Frame) /\ wbuf \in Seq(Frame) /\ <<m>> \in Seq(Frame)
  BY PipeType
<1>2. CASE link = "up"
  <2>1. toClient' = toClient \o Append(wbuf, m) /\ wbuf' = <<>>
    BY <1>2 DEF Encode, Emit
  <2>2. Append(wbuf, m) \in Seq(Frame) /\ Append(wbuf, m) = wbuf \o <<m>>
    BY <1>1, AppendIsConcat
  <2>3. toClient \o Append(wbuf, m) \in Seq(Frame)
    BY <1>1, <2>2, ConcatProperties
  <2>4. Pipe' = toClient \o Append(wbuf, m)
    BY <1>2, <2>1, <2>3, ConcatEmptySeq DEF Pipe
  <2>5. Pipe = toClient \o wbuf /\ Pipe \in Seq(Frame)
    BY <1>2, PipeType DEF Pipe
  <2>6. toClient \o (wbuf \o <<m>>) = (toClient \o wbuf) \o <<m>>
    BY <1>1, ConcatAssociative
  <2>7. Append(Pipe, m) = Pipe \o <<m>>
    BY <2>5, AppendIsConcat
  <2> QED
    BY <1>2, <2>2, <2>4, <2>5, <2>6, <2>7
<1>3. CASE link # "up"
  BY <1>3 DEF Encode, Emit, Pipe
<1> QED
  BY <1>2, <1>3

LEMMA PipeChunk ==
  ASSUME TypeOK, NEW f \in Frame, WriteChunk(f), UNCHANGED link
  PROVE  Pipe' = IF link = "up" THEN Append(Pipe, f) ELSE Pipe
<1>1. toClient \in Seq(Frame) /\ wbuf \in Seq(Frame) /\ <<f>> \in Seq(Frame)
  BY PipeType
<1>2. CASE link = "up"
  <2>1. Append(wbuf, f) \in Seq(Frame) /\ Append(wbuf, f) = wbuf \o <<f>>
    BY <1>1, AppendIsConcat
  <2>2. Pipe = toClient \o wbuf /\ Pipe \in Seq(Frame)
    BY <1>2, PipeType DEF Pipe
  <2>3. toClient \o (wbuf \o <<f>>) = (toClient \o wbuf) \o <<f>>
    BY <1>1, ConcatAssociative
  <2>4. Append(Pipe, f) = Pipe \o <<f>>
    BY <2>2, AppendIsConcat
  <2>5. Pipe' = toClient' \o wbuf'
    BY <1>2 DEF Pipe
  <2>6. CASE wbuf' = Append(wbuf, f) /\ UNCHANGED toClient
    BY <1>2, <2>1, <2>2, <2>3, <2>4, <2>5, <2>6
  <2>7. CASE Emit(wbuf) /\ wbuf' = <<f>>
    BY <1>2, <2>1, <2>2, <2>3, <2>4, <2>5, <2>7 DEF Emit
  <2>8. CASE Emit(Append(wbuf, f)) /\ wbuf' = <<>>
    <3>1. toClient \o Append(wbuf, f) \in Seq(Frame)
      BY <1>1, <2>1, ConcatProperties
    <3>2. Pipe' = toClient \o Append(wbuf, f)
      BY <1>2, <2>5, <2>8, <3>1, ConcatEmptySeq DEF Emit
    <3> QED
      BY <1>2, <2>1, <2>2, <2>3, <2>4, <3>2
  <2> QED
    BY <2>6, <2>7, <2>8 DEF WriteChunk
<1>3. CASE link # "up"
  BY <1>3 DEF WriteChunk, Emit, Pipe
<1> QED
  BY <1>2, <1>3

LEMMA PipeFails ==
  ASSUME EncodeFails, UNCHANGED link
  PROVE  Pipe' = Pipe
BY DEF EncodeFails, Pipe

LEMMA PipeTaken ==
  ASSUME TypeOK, toClient # <<>>, toClient' = Tail(toClient), UNCHANGED <<wbuf, link>>
  PROVE  /\ 1 \in 1..Len(Pipe) /\ Pipe[1] = Head(toClient)
         /\ Len(Pipe') = Len(Pipe) - 1
         /\ \A i \in 1..Len(Pipe') : Pipe'[i] = Pipe[i + 1] /\ i + 1 \in 1..Len(Pipe)
<1>1. /\ Head(toClient) = toClient[1] /\ 1 \in 1..Len(toClient)
      /\ Tail(toClient) \in Seq(Frame) /\ Len(Tail(toClient)) = Len(toClient) - 1
      /\ \A i \in 1..Len(Tail(toClient)) : Tail(toClient)[i] = toClient[i + 1]
  BY Shifted, PipeType
<1>2. CASE link = "up"
  <2>1. /\ Len(Pipe) = Len(toClient) + Len(wbuf)
        /\ \A i \in 1..Len(toClient) + Len(wbuf) :
             Pipe[i] = IF i <= Len(toClient) THEN toClient[i] ELSE wbuf[i - Len(toClient)]
    BY <1>2, PipeType, ConcatProperties DEF Pipe
  <2>2. /\ Len(Pipe') = Len(Tail(toClient)) + Len(wbuf)
        /\ \A i \in 1..Len(Tail(toClient)) + Len(wbuf) :
             Pipe'[i] = IF i <= Len(Tail(toClient)) THEN Tail(toClient)[i]
                        ELSE wbuf[i - Len(Tail(toClient))]
    BY <1>1, <1>2, PipeType, ConcatProperties DEF Pipe
  <2>3. Len(toClient) \in Nat \ {0} /\ Len(wbuf) \in Nat
    BY <1>1, PipeType
  <2> DEFINE n == Len(toClient)
             k == Len(wbuf)
  <2>4. \A i \in 1..n - 1 + k : /\ i + 1 \in 1..n + k
                               /\ (i <= n - 1 => i \in 1..n - 1 /\ i + 1 <= n)
                               /\ (~ (i <= n - 1) => ~ (i + 1 <= n))
                               /\ (i + 1) - n = i - (n - 1)
    BY <2>3
  <2>5. ASSUME NEW i \in 1..Len(Pipe')
        PROVE  Pipe'[i] = Pipe[i + 1] /\ i + 1 \in 1..Len(Pipe)
    BY <1>1, <2>1, <2>2, <2>4
  <2> QED
    BY <1>1, <2>1, <2>2, <2>3, <2>5
<1>3. CASE link # "up"
  <2>1. Pipe = toClient /\ Pipe' = Tail(toClient)
    BY <1>3 DEF Pipe
  <2>2. \A i \in 1..Len(toClient) - 1 : i + 1 \in 1..Len(toClient)
    BY PipeType
  <2> QED
    BY <1>1, <2>1, <2>2
<1> QED
  BY <1>2, <1>3

LEMMA PipeCut ==
  ASSUME TypeOK, link' = "down", UNCHANGED <<toClient, wbuf>>
  PROVE  \A i \in 1..Len(Pipe') : i \in 1..Len(Pipe) /\ Pipe'[i] = Pipe[i]
<1>1. CASE link = "up"
  <2>1. /\ Len(Pipe) = Len(toClient) + Len(wbuf)
        /\ \A i \in 1..Len(toClient) + Len(wbuf) :
             Pipe[i] = IF i <= Len(toClient) THEN toClient[i] ELSE wbuf[i - Len(toClient)]
    BY <1>1, PipeType, ConcatProperties DEF Pipe
  <2>2. Pipe' = toClient /\ Len(toClient) \in Nat /\ Len(wbuf) \in Nat
    BY PipeType DEF Pipe
  <2> QED
    BY <2>1, <2>2
<1>2. CASE link # "up"
  BY <1>2 DEF Pipe
<1> QED
  BY <1>1, <1>2

(* What is in the pipe is on the wire, or a chunk of the file at hand.      *)
LEMMA PipeParts ==
  ASSUME TypeOK, BufferInv, LinkInv, NEW i \in 1..Len(Pipe)
  PROVE  \/ \E j \in 1..Len(toClient) : Pipe[i] = toClient[j]
         \/ IsChunk(Pipe[i]) /\ Current(Pipe[i].path)
<1>1. CASE link = "up"
  <2>1. /\ Len(Pipe) = Len(toClient) + Len(wbuf)
        /\ \A k \in 1..Len(toClient) + Len(wbuf) :
             Pipe[k] = IF k <= Len(toClient) THEN toClient[k] ELSE wbuf[k - Len(toClient)]
    BY <1>1, PipeType, ConcatProperties DEF Pipe
  <2>2. Len(toClient) \in Nat /\ Len(wbuf) \in Nat /\ ~ werr
    BY <1>1, PipeType DEF LinkInv
  <2>3. CASE i <= Len(toClient)
    BY <2>1, <2>2, <2>3
  <2>4. CASE ~ (i <= Len(toClient))
    <3>1. i - Len(toClient) \in 1..Len(wbuf) /\ Pipe[i] = wbuf[i - Len(toClient)]
      BY <2>1, <2>2, <2>4
    <3> QED
      BY <2>2, <3>1 DEF BufferInv, IsChunk
  <2> QED
    BY <2>3, <2>4
<1>2. CASE link # "up"
  BY <1>2 DEF Pipe
<1> QED
  BY <1>1, <1>2

LEMMA PipePaths ==
  ASSUME TypeOK, BufferInv, LinkInv
  PROVE  /\ \A p \in Path : OnPipe(Pipe, p) => OnWire(p) \/ Current(p)
         /\ \A i \in 1..Len(Pipe) : IsAck(Pipe[i]) => AckedOnWire(Pipe[i].path)
<1>1. ASSUME NEW p \in Path, OnPipe(Pipe, p) PROVE OnWire(p) \/ Current(p)
  <2>1. PICK i \in 1..Len(Pipe) : OfFile(Pipe[i]) /\ Pipe[i].path = p
    BY <1>1 DEF OnPipe
  <2> QED
    BY <2>1, PipeParts DEF OnWire
<1>2. ASSUME NEW i \in 1..Len(Pipe), IsAck(Pipe[i]) PROVE AckedOnWire(Pipe[i].path)
  <2>1. ~ IsChunk(Pipe[i])
    BY <1>2 DEF IsAck, IsChunk
  <2>2. PICK j \in 1..Len(toClient) : Pipe[i] = toClient[j]
    BY <2>1, PipeParts
  <2> QED
    BY <1>2, <2>2 DEF AckedOnWire
<1> QED
  BY <1>1, <1>2

-----------------------------------------------------------------------------
(* Reading on in a file, and writing a chunk where the last one ended.      *)
LEMMA ReadOn ==
  ASSUME NEW s \in Seq(Block), NEW t \in Seq(Block)
  PROVE  /\ s \o t \in Seq(Block) /\ Len(s \o t) = Len(s) + Len(t)
         /\ \A m \in Nat \ {0}, n \in 0..Len(s) : SubSeq(s \o t, m, n) = SubSeq(s, m, n)
         /\ SubSeq(s \o t, Len(s) + 1, Len(s) + Len(t)) = t
<1>1. /\ s \o t \in Seq(Block) /\ Len(s \o t) = Len(s) + Len(t)
      /\ \A i \in 1..Len(s) + Len(t) :
           (s \o t)[i] = IF i <= Len(s) THEN s[i] ELSE t[i - Len(s)]
      /\ Len(s) \in Nat /\ Len(t) \in Nat
  BY ConcatProperties, LenProperties
<1>2. ASSUME NEW m \in Nat \ {0}, NEW n \in 0..Len(s)
      PROVE  SubSeq(s \o t, m, n) = SubSeq(s, m, n)
  <2>1. CASE n < m
    BY <1>1, <2>1, SubSeqEmpty
  <2>2. CASE m <= n
    <3>1. m \in 1..Len(s) /\ n \in 1..Len(s)
      BY <1>1, <2>2
    <3> QED
      BY <3>1, SubSeqOfConcat1
  <2> QED
    BY <1>1, <2>1, <2>2
<1>3. SubSeq(s \o t, Len(s) + 1, Len(s) + Len(t)) = t
  <2> DEFINE u == SubSeq(s \o t, Len(s) + 1, Len(s) + Len(t))
  <2>1. \A i \in Len(s) + 1..Len(s) + Len(t) : (s \o t)[i] \in Block
    BY <1>1, ElementOfSeq
  <2>2. /\ u \in Seq(Block)
        /\ Len(u) = IF Len(s) + 1 <= Len(s) + Len(t)
                    THEN (Len(s) + Len(t)) - (Len(s) + 1) + 1 ELSE 0
        /\ \A i \in 1..(Len(s) + Len(t)) - (Len(s) + 1) + 1 :
             u[i] = (s \o t)[(Len(s) + 1) + i - 1]
    <3> Len(s) + 1 \in Int /\ Len(s) + Len(t) \in Int
      BY <1>1
    <3> QED
      BY <2>1, SubSeqProperties
  <2> HIDE DEF u
  <2>3. Len(u) = Len(t)
    BY <1>1, <2>2
  <2>4. \A i \in 1..Len(t) : /\ i \in 1..(Len(s) + Len(t)) - (Len(s) + 1) + 1
                            /\ (Len(s) + 1) + i - 1 = Len(s) + i
                            /\ Len(s) + i \in 1..Len(s) + Len(t)
                            /\ ~ (Len(s) + i <= Len(s))
                            /\ (Len(s) + i) - Len(s) = i
    BY <1>1
  <2>5. \A i \in 1..Len(u) : u[i] = t[i]
    BY <1>1, <2>2, <2>3, <2>4
  <2>6. u = t
    BY <2>2, <2>3, <2>5, SeqEqual
  <2> QED
    BY <2>6 DEF u
<1> QED
  BY <1>1, <1>2, <1>3

LEMMA Piece ==
  ASSUME NEW s \in Seq(Block), NEW m \in Nat \ {0}, NEW n \in Nat, n <= Len(s)
  PROVE  /\ SubSeq(s, m, n) \in Seq(Block)
         /\ Len(SubSeq(s, m, n)) = IF m <= n THEN n - m + 1 ELSE 0
         /\ \A i \in 1..n - m + 1 : SubSeq(s, m, n)[i] = s[m + i - 1]
<1>1. \A i \in m..n : s[i] \in Block
  <2>1. \A i \in m..n : i \in 1..Len(s)
    BY LenProperties
  <2> QED
    BY <2>1, ElementOfSeq
<1>2. m \in Int /\ n \in Int
  OBVIOUS
<1> QED
  BY <1>1, <1>2, SubSeqProperties

LEMMA OverlayGoesOn ==
  ASSUME NEW s \in Seq(Block), NEW off \in Nat, NEW n \in Nat, off + n <= Len(s)
  PROVE  Overlay(SubSeq(s, 1, off), off, SubSeq(s, off + 1, off + n))
           = SubSeq(s, 1, off + n)
<1> DEFINE old  == SubSeq(s, 1, off)
           data == SubSeq(s, off + 1, off + n)
           new  == SubSeq(s, 1, off + n)
           over == Overlay(old, off, data)
<1>0. Len(s) \in Nat /\ off <= Len(s) /\ off + n \in Nat /\ off + 1 \in Nat \ {0}
  BY LenProperties
<1>1. /\ old \in Seq(Block) /\ Len(old) = off
      /\ \A i \in 1..off : old[i] = s[i]
  <2>1. /\ old \in Seq(Block) /\ Len(old) = IF 1 <= off THEN off - 1 + 1 ELSE 0
        /\ \A i \in 1..off - 1 + 1 : old[i] = s[1 + i - 1]
    BY <1>0, Piece
  <2> HIDE DEF old
  <2> QED
    BY <2>1
<1>2. /\ data \in Seq(Block) /\ Len(data) = n
      /\ \A i \in 1..n : data[i] = s[off + i]
  <2>1. /\ data \in Seq(Block)
        /\ Len(data) = IF off + 1 <= off + n THEN (off + n) - (off + 1) + 1 ELSE 0
        /\ \A i \in 1..(off + n) - (off + 1) + 1 : data[i] = s[(off + 1) + i - 1]
    BY <1>0, Piece
  <2> HIDE DEF data
  <2>2. \A i \in 1..n : i \in 1..(off + n) - (off + 1) + 1 /\ (off + 1) + i - 1 = off + i
    OBVIOUS
  <2> QED
    BY <2>1, <2>2
<1>3. /\ new \in Seq(Block) /\ Len(new) = off + n
      /\ \A i \in 1..off + n : new[i] = s[i]
  <2>1. /\ new \in Seq(Block) /\ Len(new) = IF 1 <= off + n THEN (off + n) - 1 + 1 ELSE 0
        /\ \A i \in 1..(off + n) - 1 + 1 : new[i] = s[1 + i - 1]
    BY <1>0, Piece
  <2> HIDE DEF new
  <2> QED
    BY <1>0, <2>1
<1> HIDE DEF old, data, new
<1>4. over \in Seq(Block)
  BY <1>1, <1>2, OverlayType
<1>5. over = [i \in 1..off + n |-> IF off < i /\ i <= off + n THEN data[i - off]
                                  ELSE IF i <= off THEN old[i] ELSE Zero]
  BY <1>1, <1>2 DEF Overlay
<1> HIDE DEF over
<1>6. Len(over) = off + n
  BY <1>0, <1>4, <1>5, LenProperties
<1>7. ASSUME NEW i \in 1..off + n PROVE over[i] = new[i]
  <2>1. CASE off < i
    <3>1. i - off \in 1..n /\ off + (i - off) = i
      BY <2>1
    <3>2. over[i] = data[i - off]
      BY <1>5, <2>1
    <3> QED
      BY <1>2, <1>3, <3>1, <3>2
  <2>2. CASE ~ (off < i)
    <3>1. i \in 1..off /\ over[i] = old[i]
      BY <1>5, <2>2
    <3> QED
      BY <1>1, <1>3, <3>1
  <2> QED
    BY <2>1, <2>2
<1>8. over = new
  BY <1>3, <1>4, <1>6, <1>7, SeqEqual
<1> QED
  BY <1>8 DEF over, old, data, new

-----------------------------------------------------------------------------
(* What the client has still to handle keeps its place among what is framed *)
(* while the files of it only grow.                                         *)
Grew(p) ==
  /\ sent'[p].seen = sent[p].seen
  /\ sent'[p].chunks >= sent[p].chunks
  /\ Len(sent'[p].data) >= Len(sent[p].data)
  /\ \A m \in Nat \ {0}, n \in 0..Len(sent[p].data) :
       SubSeq(sent'[p].data, m, n) = SubSeq(sent[p].data, m, n)

LEMMA SentType ==
  ASSUME TypeOK, NEW p \in Path
  PROVE  /\ sent[p].seen \in Seq(Block) /\ sent[p].data \in Seq(Block)
         /\ sent[p].chunks \in Nat
         /\ Len(sent[p].seen) \in Nat /\ Len(sent[p].data) \in Nat
<1>1. sent[p] \in [seen : Seq(Block), data : Seq(Block), chunks : Nat]
  BY DEF TypeOK, SessionTypeOK
<1> QED
  BY <1>1, LenProperties

(* What is framed is added to what was framed of the file at hand.          *)
LEMMA FramedAdds ==
  ASSUME TypeOK, NEW p \in Path, p = cur.path, NEW d, Framed(d)
  PROVE  /\ sent'[p].seen = sent[p].seen
         /\ sent'[p].data = sent[p].data \o d
         /\ sent'[p].chunks = sent[p].chunks + 1
<1>1. sent \in [Path -> [seen : Seq(Block), data : Seq(Block), chunks : Nat]]
  BY DEF TypeOK, SessionTypeOK
<1>2. PICK x \in [seen : Seq(Block), data : Seq(Block), chunks : Nat] : x = sent[p]
  BY <1>1
<1> DEFINE y == [x EXCEPT !.data = x.data \o d, !.chunks = x.chunks + 1]
<1>3. y.seen = x.seen /\ y.data = x.data \o d /\ y.chunks = x.chunks + 1
  OBVIOUS
<1>4. sent' = [sent EXCEPT ![p] = y]
  BY <1>2 DEF Framed
<1> HIDE DEF y
<1>5. sent'[p] = y
  BY <1>1, <1>4
<1> QED
  BY <1>2, <1>3, <1>5

LEMMA SameGrew ==
  ASSUME TypeOK, NEW p \in Path, sent'[p] = sent[p]
  PROVE  Grew(p)
BY SentType DEF Grew

LEMMA PipeFrame ==
  ASSUME TypeOK, NEW i \in 1..Len(Pipe)
  PROVE  /\ Pipe[i] \in Frame
         /\ OfFile(Pipe[i]) => Pipe[i].path \in Path
         /\ IsChunk(Pipe[i]) => /\ OfFile(Pipe[i])
                                /\ Pipe[i].offset \in Nat
                                /\ Pipe[i].data \in Seq(Block)
                                /\ Len(Pipe[i].data) \in Nat
                                /\ Ends(Pipe[i]) \in Nat
                                /\ Pipe[i].offset <= Ends(Pipe[i])
         /\ IsAck(Pipe[i]) => OfFile(Pipe[i])
<1>1. Pipe \in Seq(Frame)
  BY PipeType
<1>2. Pipe[i] \in Frame
  BY <1>1, ElementOfSeq
<1>3. OfFile(Pipe[i]) => Pipe[i].path \in Path
  BY <1>1, FilePaths
<1>4. IsChunk(Pipe[i]) => Pipe[i].offset \in Nat /\ Pipe[i].data \in Seq(Block)
  BY <1>2 DEF Frame, IsChunk
<1>5. IsChunk(Pipe[i]) => Len(Pipe[i].data) \in Nat
  BY <1>4, LenProperties
<1> QED
  BY <1>2, <1>3, <1>4, <1>5 DEF IsChunk, IsAck, OfFile, Ends

LEMMA HoldsKept ==
  ASSUME TypeOK, NEW i \in Nat, i <= Len(Pipe), NEW p \in Path,
         UNCHANGED <<local, done>>, Grew(p),
         \A j \in 1..i : Pipe'[j] = Pipe[j],
         NEW n \in 0..Len(sent[p].data), HoldsAfter(Pipe, i, p, n)
  PROVE  HoldsAfter(Pipe, i, p, n)'
<1>1. CASE i = 0
  <2>1. SubSeq(sent'[p].data, 1, n) = SubSeq(sent[p].data, 1, n)
    <3> 1 \in Nat \ {0}
      OBVIOUS
    <3> QED
      BY DEF Grew
  <2>2. sent'[p].seen = sent[p].seen /\ local' = local /\ done' = done
    BY DEF Grew
  <2> QED
    BY <1>1, <2>1, <2>2 DEF HoldsAfter
<1>2. CASE i # 0
  <2>1. i \in 1..i
    BY <1>2
  <2>2. Pipe'[i] = Pipe[i]
    BY <2>1
  <2> QED
    BY <1>2, <2>2 DEF HoldsAfter, IsChunk, Ends
<1> QED
  BY <1>1, <1>2

LEMMA ChunkKept ==
  ASSUME TypeOK, TypeOK', NEW i \in 1..Len(Pipe),
         UNCHANGED <<local, done>>, ChunkOK(Pipe, i),
         IsChunk(Pipe[i]) => Grew(Pipe[i].path),
         \A j \in 1..i : Pipe'[j] = Pipe[j]
  PROVE  ChunkOK(Pipe, i)'
<1> SUFFICES ASSUME IsChunk(Pipe[i]) PROVE ChunkOK(Pipe, i)'
  <2>1. i \in 1..i
    BY PipeType
  <2> QED
    BY <2>1 DEF ChunkOK, IsChunk
<1>0. i \in 1..i /\ i - 1 \in Nat /\ i - 1 <= Len(Pipe)
      /\ \A j \in 1..i - 1 : j \in 1..i
  BY PipeType
<1>f. PICK f \in Frame : f = Pipe[i]
  BY PipeFrame
<1>1. Pipe'[i] = f
  BY <1>0, <1>f
<1>2. /\ f.path \in Path /\ f.offset \in Nat /\ Ends(f) \in Nat
      /\ f.offset <= Ends(f)
  BY <1>f, PipeFrame
<1>3. Grew(f.path)
  BY <1>f
<1>4. PICK p \in Path : p = f.path
  BY <1>2
<1>5. /\ sent[p].chunks \in Nat /\ Len(sent[p].data) \in Nat
      /\ Ends(f) <= Len(sent[p].data) /\ sent[p].chunks > 0
      /\ f.data = SubSeq(sent[p].data, f.offset + 1, Ends(f))
      /\ f.isLast <=> Ends(f) >= Len(sent[p].seen)
  BY <1>f, <1>4, SentType DEF ChunkOK
<1>6. Grew(p)
  BY <1>3, <1>4
<1>7. SubSeq(sent'[p].data, f.offset + 1, Ends(f)) = f.data
  <2>1. f.offset + 1 \in Nat \ {0} /\ Ends(f) \in 0..Len(sent[p].data)
    BY <1>2, <1>5
  <2> QED
    BY <1>5, <1>6, <2>1 DEF Grew
<1>8. /\ f.isLast <=> Ends(f) >= Len(sent'[p].seen)
  BY <1>5, <1>6 DEF Grew
<1>9. sent'[p].chunks > 0 /\ Ends(f) <= Len(sent'[p].data)
  <2>1. sent'[p].chunks >= sent[p].chunks /\ Len(sent'[p].data) >= Len(sent[p].data)
    BY <1>6 DEF Grew
  <2>2. sent'[p].chunks \in Int /\ Len(sent'[p].data) \in Int
    <3>1. sent'[p] \in [seen : Seq(Block), data : Seq(Block), chunks : Nat]
      BY DEF TypeOK, SessionTypeOK
    <3> QED
      BY <3>1, LenProperties
  <2>3. /\ sent[p].chunks \in Nat /\ sent[p].chunks > 0
        /\ Len(sent[p].data) \in Nat /\ Ends(f) <= Len(sent[p].data)
    BY <1>5
  <2>4. Ends(f) \in Nat
    BY <1>2
  <2> HIDE DEF Ends
  <2> QED
    BY <2>1, <2>2, <2>3, <2>4
<1>10. IF f.offset = 0
       THEN /\ f.path \notin done'
            /\ \A j \in 1..i - 1 : ~ (OfFile(Pipe'[j]) /\ Pipe'[j].path = f.path)
       ELSE HoldsAfter(Pipe, i - 1, p, f.offset)'
  <2>1. CASE f.offset = 0
    BY <1>0, <1>f, <2>1 DEF ChunkOK
  <2>2. CASE f.offset # 0
    <3>1. HoldsAfter(Pipe, i - 1, p, f.offset)
      BY <1>f, <1>4, <2>2 DEF ChunkOK
    <3>2. f.offset \in 0..Len(sent[p].data)
      BY <1>2, <1>5
    <3>3. \A j \in 1..i - 1 : Pipe'[j] = Pipe[j]
      BY <1>0
    <3> QED
      BY <1>0, <1>6, <2>2, <3>1, <3>2, <3>3, HoldsKept
  <2> QED
    BY <2>1, <2>2
<1> QED
  BY <1>1, <1>4, <1>7, <1>8, <1>9, <1>10 DEF ChunkOK, Ends

LEMMA AckKept ==
  ASSUME TypeOK, NEW i \in 1..Len(Pipe),
         UNCHANGED <<local, done>>, AckOK(Pipe, i),
         IsAck(Pipe[i]) =>
           /\ sent'[Pipe[i].path] = sent[Pipe[i].path]
           /\ Pipe[i].path \in unsteady => Pipe[i].path \in unsteady',
         \A j \in 1..i : Pipe'[j] = Pipe[j]
  PROVE  AckOK(Pipe, i)'
<1>0. i \in 1..i /\ i - 1 \in Nat /\ i - 1 <= Len(Pipe)
      /\ \A j \in 1..i - 1 : j \in 1..i
  BY PipeType
<1> SUFFICES ASSUME IsAck(Pipe[i]) PROVE AckOK(Pipe, i)'
  BY <1>0 DEF AckOK, IsAck
<1>1. PICK p \in Path : p = Pipe[i].path
  BY PipeFrame
<1>2. Pipe'[i] = Pipe[i] /\ Pipe'[i].path = p
  BY <1>0, <1>1
<1>3. sent'[p] = sent[p] /\ (p \in unsteady => p \in unsteady')
  BY <1>1
<1>4. Whole(p)'
  BY <1>1, <1>3 DEF Whole, AckOK
<1>5. CASE sent[p].chunks = 0
  <2>1. p \notin done'
    BY <1>1, <1>5 DEF AckOK
  <2> QED
    BY <1>2, <1>3, <1>4, <1>5, <2>1 DEF AckOK
<1>6. CASE sent[p].chunks # 0
  <2>1. PICK n \in 0..Len(sent[p].data) : n = Len(sent[p].data)
    BY SentType
  <2>2. HoldsAfter(Pipe, i - 1, p, n)
    BY <1>1, <1>6, <2>1 DEF AckOK
  <2>3. Grew(p)
    BY <1>3, SameGrew
  <2>4. HoldsAfter(Pipe, i - 1, p, n)'
    BY <1>0, <2>2, <2>3, HoldsKept
  <2>5. n = Len(sent'[p].data)
    BY <1>3, <2>1
  <2> QED
    BY <1>2, <1>3, <1>4, <1>6, <2>4, <2>5 DEF AckOK
<1> QED
  BY <1>5, <1>6

(* The files of what is in the pipe grow, and those acknowledged in it stay *)
(* as they are.                                                             *)
FilesKept ==
  /\ UNCHANGED <<local, done>>
  /\ \A p \in Path : OnPipe(Pipe, p) => Grew(p)
  /\ \A p \in Path : AckedOnWire(p) =>
       sent'[p] = sent[p] /\ (p \in unsteady => p \in unsteady')

LEMMA FramesKept ==
  ASSUME TypeOK, TypeOK', BufferInv, LinkInv, ChunkInv(Pipe), AckInv(Pipe), FilesKept,
         NEW n \in Nat, n <= Len(Pipe), \A j \in 1..n : Pipe'[j] = Pipe[j],
         NEW i \in 1..n
  PROVE  ChunkOK(Pipe, i)' /\ AckOK(Pipe, i)'
<1>1. i \in 1..Len(Pipe) /\ \A j \in 1..i : j \in 1..n
  BY PipeType
<1>2. \A j \in 1..i : Pipe'[j] = Pipe[j]
  BY <1>1
<1>3. ChunkOK(Pipe, i) /\ AckOK(Pipe, i)
  BY <1>1 DEF ChunkInv, AckInv
<1>4. IsChunk(Pipe[i]) => Grew(Pipe[i].path)
  BY <1>1, PipeFrame DEF FilesKept, OnPipe
<1>5. IsAck(Pipe[i]) =>
        /\ sent'[Pipe[i].path] = sent[Pipe[i].path]
        /\ Pipe[i].path \in unsteady => Pipe[i].path \in unsteady'
  BY <1>1, PipeFrame, PipePaths DEF FilesKept
<1>6. UNCHANGED <<local, done>>
  BY DEF FilesKept
<1> QED
  BY <1>1, <1>2, <1>3, <1>4, <1>5, <1>6, ChunkKept, AckKept

(* A frame added at the end. *)
LEMMA Appended ==
  ASSUME TypeOK, NEW m \in Frame, Pipe' = Append(Pipe, m)
  PROVE  /\ Len(Pipe) \in Nat /\ Len(Pipe') = Len(Pipe) + 1
         /\ Pipe'[Len(Pipe) + 1] = m
         /\ \A i \in 1..Len(Pipe) : Pipe'[i] = Pipe[i]
BY PipeType, AppendProperties

LEMMA StreamContinues ==
  ASSUME TypeOK, TypeOK', BufferInv, LinkInv, ChunkInv(Pipe), AckInv(Pipe), FilesKept,
         NEW m \in Frame,
         \/ Pipe' = Pipe
         \/ /\ Pipe' = Append(Pipe, m)
            /\ IsChunk(m) => ChunkOK(Pipe, Len(Pipe))'
            /\ IsAck(m) => AckOK(Pipe, Len(Pipe))'
  PROVE  ChunkInv(Pipe)' /\ AckInv(Pipe)'
<1>1. CASE Pipe' = Pipe
  <2>1. Len(Pipe) \in Nat /\ Len(Pipe') = Len(Pipe) /\ \A j \in 1..Len(Pipe) : Pipe'[j] = Pipe[j]
    BY <1>1, PipeType
  <2>2. PICK n \in Nat : n = Len(Pipe)
    BY <2>1
  <2>3. \A i \in 1..n : ChunkOK(Pipe, i)' /\ AckOK(Pipe, i)'
    BY <2>1, <2>2, FramesKept
  <2> QED
    BY <2>1, <2>2, <2>3 DEF ChunkInv, AckInv
<1>2. CASE Pipe' # Pipe
  <2>1. /\ Pipe' = Append(Pipe, m)
        /\ IsChunk(m) => ChunkOK(Pipe, Len(Pipe))'
        /\ IsAck(m) => AckOK(Pipe, Len(Pipe))'
    BY <1>2
  <2>2. PICK n \in Nat : n = Len(Pipe)
    BY PipeType
  <2>3. /\ Len(Pipe') = n + 1 /\ Pipe'[n + 1] = m
        /\ \A i \in 1..n : Pipe'[i] = Pipe[i]
    BY <2>1, <2>2, Appended
  <2>4. \A i \in 1..n : ChunkOK(Pipe, i)' /\ AckOK(Pipe, i)'
    BY <2>2, <2>3, FramesKept
  <2>5. ChunkOK(Pipe, n + 1)' /\ AckOK(Pipe, n + 1)'
    <3>1. IsChunk(Pipe'[n + 1]) => ChunkOK(Pipe, n + 1)'
      BY <2>1, <2>3
    <3>2. IsAck(Pipe'[n + 1]) => AckOK(Pipe, n + 1)'
      BY <2>1, <2>3
    <3> QED
      BY <3>1, <3>2 DEF ChunkOK, AckOK, IsChunk, IsAck
  <2>6. \A i \in 1..n + 1 : i \in 1..n \/ i = n + 1
    OBVIOUS
  <2> QED
    BY <2>3, <2>4, <2>5, <2>6 DEF ChunkInv, AckInv
<1> QED
  BY <1>1, <1>2

-----------------------------------------------------------------------------
(* The steps of the session.  They change what was framed, and whether it   *)
(* is steady, of the file at hand only.                                     *)
LEMMA JobAtHand ==
  ASSUME TypeOK
  PROVE  /\ cur # NoJob <=> spc \in {"stat", "open", "send", "close"}
         /\ cur # NoJob => /\ cur \in Job /\ cur.path \in Path
                           /\ cur.size \in Nat /\ cur.offset \in Nat
BY TransferAssumption DEF TypeOK, SessionTypeOK, Job

LEMMA SentElsewhere ==
  ASSUME TypeOK, TypeOK', SessionNext
  PROVE  \A p \in Path : ~ Current(p) =>
           sent'[p] = sent[p] /\ (p \in unsteady <=> p \in unsteady')
<1>1. CASE StatFile
  <2>1. cur # NoJob
    BY <1>1, JobAtHand DEF StatFile
  <2>2. sent' = [sent EXCEPT ![cur.path] =
                   [seen |-> Found.data, data |-> <<>>, chunks |-> 0]]
        /\ unsteady' \in {unsteady \ {cur.path}, unsteady \cup {cur.path}}
    BY <1>1 DEF StatFile
  <2>3. sent \in [Path -> [seen : Seq(Block), data : Seq(Block), chunks : Nat]]
    BY DEF TypeOK, SessionTypeOK
  <2> QED
    BY <2>1, <2>2, <2>3 DEF Current
<1>2. CASE SendEmptyFile \/ SendChunk
  <2>1. cur # NoJob
    BY <1>2, JobAtHand DEF SendEmptyFile, SendChunk
  <2>2. unsteady' = unsteady
    BY <1>2 DEF SendEmptyFile, SendChunk
  <2>3. \E d : Framed(d)
    BY <1>2 DEF SendEmptyFile, SendChunk
  <2>4. \A p \in Path : p # cur.path => sent'[p] = sent[p]
    BY <2>3 DEF Framed, TypeOK, SessionTypeOK
  <2> QED
    BY <2>1, <2>2, <2>4 DEF Current
<1>3. CASE ~ StatFile /\ ~ SendEmptyFile /\ ~ SendChunk
  <2>1. UNCHANGED <<sent, unsteady>>
    BY <1>3 DEF SessionNext, SendFile, HandleList, HandleDownload, BatchHandled,
                FileMissing, ResolveFile, StatFails, SkipDirectory, OpenFile,
                SendStops, SendFails, FinishFile, SessionEnds
  <2> QED
    BY <2>1
<1> QED
  BY <1>1, <1>2, <1>3

(* A path is looked at once it was queued, and queued once it was asked for. *)
LEMMA PathsMoveOn ==
  ASSUME TypeOK, TypeOK', SessionNext, NEW p \in Path
  PROVE  /\ Requested(p)' \/ Queued(p)' => Requested(p) \/ Queued(p)
         /\ Pending(p)' => Pending(p)
<1>1. toServer' = toServer \/ (toServer # <<>> /\ toServer' = Tail(toServer))
  BY DEF SessionNext, SendFile, HandleList, HandleDownload, Decodes, BatchHandled,
         FileMissing, ResolveFile, StatFails, SkipDirectory, StatFile, OpenFile,
         SendEmptyFile, SendChunk, SendStops, SendFails, FinishFile, SessionEnds,
         wireVars
<1>2. \/ queue' = queue
      \/ queue # <<>> /\ queue' = Tail(queue)
      \/ /\ toServer # <<>> /\ Head(toServer).type = "DownloadReq"
         /\ queue' = Head(toServer).files
  BY DEF SessionNext, SendFile, HandleList, HandleDownload, Decodes, BatchHandled,
         FileMissing, ResolveFile, StatFails, SkipDirectory, StatFile, OpenFile,
         SendEmptyFile, SendChunk, SendStops, SendFails, FinishFile, SessionEnds
<1>3. \/ cur' = cur \/ cur' = NoJob
      \/ cur # NoJob /\ cur'.path = cur.path
      \/ queue # <<>> /\ cur'.path = Head(queue)
  <2>1. CASE StatFile \/ SendChunk
    <3>1. cur # NoJob /\ cur \in Job
      BY <2>1, JobAtHand DEF StatFile, SendChunk
    <3>2. cur'.path = cur.path
      BY <2>1, <3>1 DEF StatFile, SendChunk, Job
    <3> QED
      BY <3>1, <3>2
  <2>2. CASE ResolveFile
    BY <2>2 DEF ResolveFile
  <2>3. CASE ~ StatFile /\ ~ SendChunk /\ ~ ResolveFile
    BY <2>3 DEF SessionNext, SendFile, HandleList, HandleDownload, BatchHandled,
                FileMissing, StatFails, SkipDirectory, OpenFile, SendEmptyFile,
                SendStops, SendFails, FinishFile, SessionEnds
  <2> QED
    BY <2>1, <2>2, <2>3
<1>4. Requested(p)' => Requested(p)
  <2>1. toServer \in Seq(Request)
    BY DEF TypeOK, WireTypeOK
  <2>2. \A k \in 1..Len(toServer') : \E l \in 1..Len(toServer) : toServer'[k] = toServer[l]
    BY <1>1, <2>1, Shifted
  <2> QED
    BY <2>2 DEF Requested
<1>5. Queued(p)' => Queued(p) \/ Requested(p)
  <2>1. CASE queue' = queue
    BY <2>1 DEF Queued
  <2>2. CASE queue # <<>> /\ queue' = Tail(queue)
    <3>1. queue \in Seq(Path)
      BY DEF TypeOK, SessionTypeOK
    <3>2. \A k \in 1..Len(queue') : \E l \in 1..Len(queue) : queue'[k] = queue[l]
      BY <2>2, <3>1, Shifted
    <3> QED
      BY <3>2 DEF Queued
  <2>3. CASE /\ toServer # <<>> /\ Head(toServer).type = "DownloadReq"
             /\ queue' = Head(toServer).files
    <3>1. Head(toServer) = toServer[1] /\ 1 \in 1..Len(toServer)
      BY <2>3, Shifted DEF TypeOK, WireTypeOK
    <3> QED
      BY <2>3, <3>1 DEF Queued, Requested
  <2> QED
    BY <1>2, <2>1, <2>2, <2>3
<1>6. Current(p)' => Current(p) \/ Queued(p)
  <2>1. queue # <<>> => Head(queue) = queue[1] /\ 1 \in 1..Len(queue)
    BY Shifted DEF TypeOK, SessionTypeOK
  <2> QED
    BY <1>3, <2>1 DEF Current, Queued
<1> QED
  BY <1>4, <1>5, <1>6 DEF Pending

(* What is not being fetched any more stays as it is.                       *)
LEMMA SessionLeavesFetched ==
  ASSUME TypeOK, TypeOK', PendingInv, AckedInv, SessionStep
  PROVE  PendingInv' /\ AckedInv'
<1>1. SessionNext /\ UNCHANGED <<local, done, acked>>
  BY DEF SessionStep, pullerVars
<1>2. PendingInv'
  BY <1>1, PathsMoveOn DEF PendingInv
<1>3. ASSUME NEW p \in acked PROVE
        /\ Whole(p)'
        /\ sent'[p].chunks > 0 => local'[p] = [kind |-> "file", data |-> sent'[p].data]
        /\ p \in done' <=> sent'[p].chunks > 0 /\ Len(sent'[p].data) >= Len(sent'[p].seen)
  <2>1. p \in Path
    BY DEF TypeOK, PullerTypeOK
  <2>2. ~ Current(p)
    BY <2>1 DEF PendingInv, Pending
  <2>3. sent'[p] = sent[p] /\ (p \in unsteady <=> p \in unsteady')
    BY <1>1, <2>1, <2>2, SentElsewhere
  <2> QED
    BY <1>1, <2>3 DEF AckedInv, Whole
<1> QED
  BY <1>1, <1>2, <1>3 DEF AckedInv

LEMMA SessionKeepsFiles ==
  ASSUME PullInv, TypeOK', Running, UnsentInv(Pipe), SessionStep
  PROVE  FilesKept
<1>1. /\ TypeOK /\ ClientStreamInv /\ SessionNext /\ UNCHANGED <<local, done>>
  BY DEF PullInv, TypeInv, AccountInv, SessionStep, pullerVars
<1>2. ASSUME NEW p \in Path, AckedOnWire(p)
      PROVE  sent'[p] = sent[p] /\ (p \in unsteady => p \in unsteady')
  BY <1>1, <1>2, SentElsewhere DEF ClientStreamInv
<1>3. ASSUME NEW d \in Seq(Block), Framed(d), cur # NoJob
      PROVE  Grew(cur.path)
  <2>1. PICK p \in Path : p = cur.path
    BY <1>1, <1>3, JobAtHand
  <2>2. /\ sent'[p].seen = sent[p].seen
        /\ sent'[p].data = sent[p].data \o d
        /\ sent'[p].chunks = sent[p].chunks + 1
    BY <1>1, <1>3, <2>1 DEF Framed, TypeOK, SessionTypeOK
  <2>3. /\ sent[p].data \in Seq(Block) /\ sent[p].chunks \in Nat
        /\ Len(sent[p].data) \in Nat /\ Len(d) \in Nat
    BY <1>1, SentType, LenProperties
  <2>4. PICK s \in Seq(Block) : s = sent[p].data
    BY <2>3
  <2>5. /\ Len(s \o d) = Len(s) + Len(d)
        /\ \A m \in Nat \ {0}, n \in 0..Len(s) : SubSeq(s \o d, m, n) = SubSeq(s, m, n)
    BY ReadOn
  <2>6. Len(sent'[p].data) >= Len(sent[p].data)
    BY <2>2, <2>3, <2>4, <2>5
  <2>7. sent'[p].chunks >= sent[p].chunks
    BY <2>2, <2>3
  <2>8. Grew(p)
    BY <2>2, <2>4, <2>5, <2>6, <2>7 DEF Grew
  <2> QED
    BY <2>1, <2>8
<1>4. ASSUME NEW p \in Path, OnPipe(Pipe, p)
      PROVE  Grew(p)
  <2>1. CASE ~ Current(p)
    BY <1>1, <2>1, SentElsewhere, SameGrew
  <2>2. CASE Current(p)
    <3>1. cur # NoJob /\ p = cur.path
      BY <2>2 DEF Current
    <3>2. CASE StatFile
      BY <1>4, <3>1, <3>2 DEF StatFile, UnsentInv
    <3>3. CASE SendEmptyFile
      <4>1. <<>> \in Seq(Block) /\ Framed(<<>>)
        BY <3>3, EmptySeq DEF SendEmptyFile
      <4> QED
        BY <1>3, <3>1, <4>1
    <3>4. CASE SendChunk
      <4>1. cur \in Job /\ cur.offset \in Nat /\ cur.size \in Nat
        BY <1>1, <3>1, JobAtHand
      <4>2. Opened.data \in Seq(Block)
        BY <1>1, <4>1 DEF Opened, TypeOK, SessionTypeOK, Entry, Job
      <4>3. PICK d \in Seq(Block) : d = ReadAt(Opened.data, cur.offset, cur.size)
        BY <4>1, <4>2, ReadAtType
      <4>4. Framed(d)
        BY <3>4, <4>3 DEF SendChunk
      <4> QED
        BY <1>3, <3>1, <4>4
    <3>5. CASE ~ StatFile /\ ~ SendEmptyFile /\ ~ SendChunk
      <4>1. UNCHANGED sent
        BY <1>1, <3>5 DEF SessionNext, SendFile, HandleList, HandleDownload,
                BatchHandled, FileMissing, ResolveFile, StatFails, SkipDirectory,
                OpenFile, SendStops, SendFails, FinishFile, SessionEnds
      <4> QED
        BY <1>1, <4>1, SameGrew
    <3> QED
      BY <3>2, <3>3, <3>4, <3>5
  <2> QED
    BY <2>1, <2>2
<1> QED
  BY <1>1, <1>2, <1>4 DEF FilesKept

LEMMA SessionKeepsFresh ==
  ASSUME TypeOK, TypeOK', FreshInv, SessionStep
  PROVE  FreshInv'
<1>1. SessionNext /\ UNCHANGED <<done, next, toDownload>>
  BY DEF SessionStep, pullerVars
<1> QED
  BY <1>1, PathsMoveOn DEF FreshInv, Asked

RunningInv(w) == FreshInv /\ PipeInv(w) /\ SteadyInv

(* The file at hand is finished, given up, or passed over; or there is none. *)
LEMMA JobOver ==
  ASSUME PullInv, TypeOK', Running, RunningInv(Pipe), SessionStep, cur' = NoJob,
         NEW m \in Frame,
         \/ Pipe' = Pipe
         \/ /\ Pipe' = Append(Pipe, m) /\ ~ IsChunk(m)
            /\ IsAck(m) => AckOK(Pipe, Len(Pipe))'
  PROVE  RunningInv(Pipe)'
<1>1. /\ TypeOK /\ BufferInv /\ LinkInv /\ FreshInv /\ UnsentInv(Pipe)
      /\ ChunkInv(Pipe) /\ AckInv(Pipe)
  BY DEF PullInv, TypeInv, AccountInv, RunningInv, PipeInv
<1>2. FilesKept
  BY <1>1, SessionKeepsFiles
<1>3. ChunkInv(Pipe)' /\ AckInv(Pipe)'
  BY <1>1, <1>2, StreamContinues
<1>4. FreshInv'
  BY <1>1, SessionKeepsFresh
<1>5. spc' # "stat"
  BY TransferAssumption DEF TypeOK, SessionTypeOK
<1>6. UnsentInv(Pipe)' /\ FramedInv(Pipe)' /\ SteadyInv'
  BY <1>5 DEF UnsentInv, FramedInv, SteadyInv
<1> QED
  BY <1>3, <1>4, <1>6 DEF RunningInv, PipeInv

LEMMA ReportOnPipe ==
  ASSUME TypeOK, NEW c \in {404, 500}, Report(c), UNCHANGED link
  PROVE  /\ ErrorMessage(c) \in Frame
         /\ ~ IsChunk(ErrorMessage(c)) /\ ~ IsAck(ErrorMessage(c))
         /\ Pipe' = Pipe \/ Pipe' = Append(Pipe, ErrorMessage(c))
<1>1. /\ ErrorMessage(c) \in Frame
      /\ ~ IsChunk(ErrorMessage(c)) /\ ~ IsAck(ErrorMessage(c))
  BY FrameTypes DEF ErrorMessage, IsChunk, IsAck
<1>2. CASE Encode(ErrorMessage(c))
  BY <1>1, <1>2, PipeEncode
<1>3. CASE EncodeFails
  BY <1>1, <1>3, PipeFails
<1> QED
  BY <1>1, <1>2, <1>3 DEF Report

LEMMA ReplyOnPipe ==
  ASSUME TypeOK, NEW m \in Frame, Reply(m), UNCHANGED link
  PROVE  Pipe' = Pipe \/ Pipe' = Append(Pipe, m)
<1>1. CASE Encode(m)
  BY <1>1, PipeEncode
<1>2. CASE EncodeFails
  BY <1>2, PipeFails
<1> QED
  BY <1>1, <1>2 DEF Reply

LEMMA NoJobSteps ==
  ASSUME PullInv, TypeOK', Running, RunningInv(Pipe), SessionStep,
         \/ HandleList \/ HandleDownload \/ BatchHandled \/ SessionEnds
         \/ FileMissing \/ StatFails \/ SkipDirectory \/ SendFails
  PROVE  RunningInv(Pipe)'
<1>0. TypeOK
  BY DEF PullInv, TypeInv
<1>n. \A c \in {404, 500} : ErrorMessage(c) \in Frame
  BY FrameTypes
<1>1. CASE HandleList
  <2>1. /\ spc = "decode" /\ UNCHANGED <<cur, link>>
        /\ toServer # <<>> /\ Head(toServer).type = "ListRequest"
    BY <1>1 DEF HandleList, Decodes
  <2>2. cur' = NoJob
    BY <1>0, <2>1, JobAtHand
  <2>3. Head(toServer).root \in Dir \cup {NoDir}
    <3>1. Head(toServer) \in Request
      BY <1>0, <2>1, Shifted DEF TypeOK, WireTypeOK
    <3> QED
      BY <2>1, <3>1 DEF Request
  <2>4. PICK m \in Frame : Reply(m) /\ ~ IsChunk(m) /\ ~ IsAck(m)
    <3>1. CASE Head(toServer).root = NoDir
      <4>1. Reply(ErrorMessage(404))
        BY <1>1, <3>1 DEF HandleList
      <4> QED
        BY <1>n, <4>1 DEF ErrorMessage, IsChunk, IsAck
    <3>2. CASE Head(toServer).root # NoDir
      <4>1. \/ Reply(ListResponse(Walk(Head(toServer).root)))
            \/ Reply(ErrorMessage(500))
        BY <1>1, <3>2 DEF HandleList
      <4>2. ListResponse(Walk(Head(toServer).root)) \in Frame
        BY <1>0, <2>3, <3>2, WalkType, FrameTypes DEF TypeOK
      <4>3. \A fis : ~ IsChunk(ListResponse(fis)) /\ ~ IsAck(ListResponse(fis))
        BY DEF ListResponse, IsChunk, IsAck
      <4>4. ~ IsChunk(ErrorMessage(500)) /\ ~ IsAck(ErrorMessage(500))
        BY DEF ErrorMessage, IsChunk, IsAck
      <4> QED
        BY <1>n, <4>1, <4>2, <4>3, <4>4
    <3> QED
      BY <3>1, <3>2
  <2>5. Pipe' = Pipe \/ Pipe' = Append(Pipe, m)
    BY <1>0, <2>1, <2>4, ReplyOnPipe
  <2> QED
    BY <2>2, <2>4, <2>5, JobOver
<1>2. CASE HandleDownload \/ BatchHandled \/ SessionEnds \/ SkipDirectory
  <2>1. /\ UNCHANGED <<toClient, wbuf, link>>
        /\ (spc \in {"decode", "next"} /\ cur' = cur) \/ cur' = NoJob
    BY <1>2 DEF HandleDownload, Decodes, BatchHandled, SessionEnds, SkipDirectory, wireVars
  <2>2. cur' = NoJob /\ Pipe' = Pipe
    BY <1>0, <2>1, JobAtHand DEF Pipe
  <2> QED
    BY <1>n, <2>2, JobOver
<1>3. CASE FileMissing \/ StatFails \/ SendFails
  <2>1. /\ Report(404) \/ Report(500)
        /\ UNCHANGED link
        /\ (spc = "next" /\ cur' = cur) \/ cur' = NoJob
    BY <1>3 DEF FileMissing, StatFails, SendFails
  <2>2. cur' = NoJob
    BY <1>0, <2>1, JobAtHand
  <2>3. PICK c \in {404, 500} : Report(c)
    BY <2>1
  <2>4. /\ ErrorMessage(c) \in Frame
        /\ ~ IsChunk(ErrorMessage(c)) /\ ~ IsAck(ErrorMessage(c))
        /\ Pipe' = Pipe \/ Pipe' = Append(Pipe, ErrorMessage(c))
    BY <1>0, <2>1, <2>3, ReportOnPipe
  <2> QED
    BY <2>2, <2>4, JobOver
<1> QED
  BY <1>1, <1>2, <1>3

(* The file a request asked for is found, and looked at.                    *)
LEMMA ResolveFileKeepsContent ==
  ASSUME PullInv, TypeOK', Running, RunningInv(Pipe), SessionStep, ResolveFile
  PROVE  RunningInv(Pipe)'
<1>1. /\ TypeOK /\ BufferInv /\ LinkInv /\ ClientStreamInv /\ FreshInv
      /\ UnsentInv(Pipe) /\ ChunkInv(Pipe) /\ AckInv(Pipe)
  BY DEF PullInv, TypeInv, AccountInv, RunningInv, PipeInv
<1>2. /\ spc = "next" /\ spc' = "stat" /\ queue # <<>>
      /\ UNCHANGED <<toClient, wbuf, link, sent, unsteady>>
      /\ cur'.path = Head(queue) /\ cur'.offset = 0
  BY DEF ResolveFile, wireVars
<1>3. Pipe' = Pipe /\ UNCHANGED done
  BY <1>2 DEF Pipe, SessionStep, pullerVars
<1>4. ChunkInv(Pipe)' /\ AckInv(Pipe)'
  <2>1. FilesKept
    BY <1>1, SessionKeepsFiles
  <2>2. ErrorMessage(404) \in Frame
    BY FrameTypes
  <2> QED
    BY <1>1, <1>3, <2>1, <2>2, StreamContinues
<1>5. FreshInv'
  BY <1>1, SessionKeepsFresh
<1>6. UnsentInv(Pipe)'
  <2>1. queue \in Seq(Path)
    BY <1>1 DEF TypeOK, SessionTypeOK
  <2>2. Head(queue) = queue[1] /\ 1 \in 1..Len(queue)
    BY <1>2, <2>1, Shifted
  <2>3. PICK p \in Path : p = Head(queue)
    BY <1>2, <2>1
  <2>4. Queued(p)
    BY <2>2, <2>3 DEF Queued
  <2>5. ~ Current(p)
    BY <1>1, <1>2, JobAtHand DEF Current
  <2>6. p \notin done /\ ~ OnPipe(Pipe, p)
    BY <1>1, <2>4, <2>5, PipePaths DEF FreshInv, ClientStreamInv
  <2>7. p \notin done' /\ ~ OnPipe(Pipe, p)'
    BY <1>3, <2>6 DEF OnPipe, OfFile
  <2>8. cur'.path = p
    BY <1>2, <2>3
  <2> QED
    BY <2>7, <2>8 DEF UnsentInv, OnPipe
<1>7. FramedInv(Pipe)' /\ SteadyInv'
  BY <1>2 DEF FramedInv, SteadyInv
<1> QED
  BY <1>4, <1>5, <1>6, <1>7 DEF RunningInv, PipeInv

LEMMA StatFileKeepsContent ==
  ASSUME PullInv, TypeOK', Running, RunningInv(Pipe), SessionStep, StatFile
  PROVE  RunningInv(Pipe)'
<1>1. /\ TypeOK /\ BufferInv /\ LinkInv /\ FreshInv
      /\ UnsentInv(Pipe) /\ FramedInv(Pipe) /\ ChunkInv(Pipe) /\ AckInv(Pipe)
  BY DEF PullInv, TypeInv, AccountInv, RunningInv, PipeInv
<1>2. /\ spc = "stat" /\ spc' = "open"
      /\ UNCHANGED <<toClient, wbuf, link>>
      /\ cur' = [cur EXCEPT !.size = Len(Found.data)]
      /\ sent' = [sent EXCEPT ![cur.path] =
                    [seen |-> Found.data, data |-> <<>>, chunks |-> 0]]
      /\ unsteady' = IF cur.found = cur.dir THEN unsteady \ {cur.path}
                                            ELSE unsteady \cup {cur.path}
  BY DEF StatFile, wireVars
<1>3. Pipe' = Pipe /\ UNCHANGED <<done, disk>>
  BY <1>2 DEF Pipe, SessionStep, pullerVars
<1>4. ChunkInv(Pipe)' /\ AckInv(Pipe)'
  <2>1. FilesKept
    BY <1>1, SessionKeepsFiles
  <2>2. ErrorMessage(404) \in Frame
    BY FrameTypes
  <2> QED
    BY <1>1, <1>3, <2>1, <2>2, StreamContinues
<1>5. FreshInv'
  BY <1>1, SessionKeepsFresh
<1>6. cur # NoJob /\ cur \in Job /\ cur.path \in Path
  BY <1>1, <1>2, JobAtHand
<1>7. PICK p \in Path : p = cur.path
  BY <1>6
<1>8. /\ cur'.path = p /\ cur'.found = cur.found /\ cur'.dir = cur.dir
      /\ cur'.offset = cur.offset /\ cur'.size = Len(Found.data)
  BY <1>2, <1>6, <1>7 DEF Job
<1>9. /\ sent'[p].seen = Found.data /\ sent'[p].data = <<>> /\ sent'[p].chunks = 0
  BY <1>1, <1>2, <1>7 DEF TypeOK, SessionTypeOK
<1>10. cur.offset = 0
  BY <1>1, <1>2 DEF FramedInv
<1>11. UnsentInv(Pipe)'
  <2>1. p \notin done' /\ ~ OnPipe(Pipe, p)'
    BY <1>1, <1>2, <1>3, <1>6, <1>7 DEF UnsentInv, OnPipe, OfFile
  <2> QED
    BY <1>8, <2>1 DEF UnsentInv, OnPipe
<1>12. FramedInv(Pipe)'
  BY <1>2, <1>8, <1>9, <1>10, EmptySeq DEF FramedInv
<1>13. SteadyInv'
  <2>1. ASSUME p \notin unsteady' PROVE cur.dir = cur.found
    BY <1>2, <1>7, <2>1
  <2>2. Found' = Found
    BY <1>3, <1>7, <1>8 DEF Found
  <2>3. SubSeq(sent'[p].seen, 1, cur'.offset) = <<>>
    BY <1>8, <1>10, SubSeqEmpty
  <2> QED
    BY <1>2, <1>8, <1>9, <2>1, <2>2, <2>3 DEF SteadyInv
<1> QED
  BY <1>4, <1>5, <1>11, <1>12, <1>13 DEF RunningInv, PipeInv

(* SendFile goes on without framing anything.                               *)
LEMMA OpenFileKeepsContent ==
  ASSUME PullInv, TypeOK', Running, RunningInv(Pipe), SessionStep, OpenFile \/ SendStops,
         SteadyInv'
  PROVE  RunningInv(Pipe)'
<1>1. /\ TypeOK /\ BufferInv /\ LinkInv /\ FreshInv
      /\ UnsentInv(Pipe) /\ FramedInv(Pipe) /\ ChunkInv(Pipe) /\ AckInv(Pipe)
  BY DEF PullInv, TypeInv, AccountInv, RunningInv, PipeInv
<1>2. /\ (spc = "open" /\ spc' = "send") \/ (spc = "send" /\ spc' = "close")
      /\ UNCHANGED <<toClient, wbuf, link, cur, sent>>
  BY DEF OpenFile, SendStops, wireVars
<1>3. Pipe' = Pipe /\ UNCHANGED <<done, local>>
  BY <1>2 DEF Pipe, SessionStep, pullerVars
<1>4. ChunkInv(Pipe)' /\ AckInv(Pipe)'
  <2>1. FilesKept
    BY <1>1, SessionKeepsFiles
  <2>2. ErrorMessage(404) \in Frame
    BY FrameTypes
  <2> QED
    BY <1>1, <1>3, <2>1, <2>2, StreamContinues
<1>5. FreshInv'
  BY <1>1, SessionKeepsFresh
<1>6. UnsentInv(Pipe)'
  BY <1>1, <1>2, <1>3 DEF UnsentInv, OnPipe, OfFile
<1>7. FramedInv(Pipe)'
  BY <1>1, <1>2, <1>3 DEF FramedInv, HoldsAfter, IsChunk, Ends
<1> QED
  BY <1>4, <1>5, <1>6, <1>7 DEF RunningInv, PipeInv

(* Of the file that stat saw, a read short of its end gives the next blocks. *)
LEMMA ReadsNext ==
  ASSUME NEW s \in Seq(Block), NEW off \in Nat, off < Len(s)
  PROVE  LET d == ReadAt(s, off, Len(s))
         IN  /\ Len(d) \in Nat \ {0} /\ off + Len(d) <= Len(s)
             /\ d = SubSeq(s, off + 1, off + Len(d))
             /\ SubSeq(s, 1, off) \o d = SubSeq(s, 1, off + Len(d))
<1>1. BufLen \in Nat \ {0}
  BY SessionAssumption DEF BufLen
<1>2. Len(s) \in Nat
  BY LenProperties
<1>3. PICK n \in Nat : n = Len(s)
  BY <1>2
<1>4. PICK toRead \in Nat \ {0} :
        /\ toRead = IF n - off < BufLen THEN n - off ELSE BufLen
        /\ off + toRead <= n
  <2>1. n - off \in Nat \ {0}
    BY <1>3
  <2> DEFINE k == IF n - off < BufLen THEN n - off ELSE BufLen
  <2>2. k \in Nat \ {0} /\ off + k <= n
    BY <1>1, <2>1
  <2> QED
    BY <2>2
<1>5. PICK e \in Nat : e = off + toRead
  BY <1>4
<1>6. e <= n /\ off + 1 <= e
  BY <1>4, <1>5
<1>7. ReadAt(s, off, n) = SubSeq(s, off + 1, e)
  BY <1>3, <1>4, <1>5, <1>6, SMTT(30) DEF ReadAt
<1>8. Len(SubSeq(s, off + 1, e)) = e - (off + 1) + 1
  BY <1>3, <1>6, Piece
<1>9. Len(ReadAt(s, off, n)) = e - off
  BY <1>7, <1>8
<1>10. e - off \in Nat \ {0} /\ off + (e - off) = e
  BY <1>6
<1>11. SubSeq(s, 1, off) \o SubSeq(s, off + 1, e) = SubSeq(s, 1, e)
  <2>1. 1 \in 1..Len(s) + 1 /\ off \in 1 - 1..Len(s) /\ e \in off..Len(s)
    BY <1>3, <1>6
  <2> QED
    BY <2>1, ConcatAdjacentSubSeq
<1> QED
  BY <1>3, <1>6, <1>7, <1>9, <1>10, <1>11

(* The file at hand is read where stat saw it, unless it was edited.        *)
LEMMA SteadyRead ==
  ASSUME TypeOK, SteadyInv, FramedInv(Pipe), spc = "send", cur.path \notin unsteady
  PROVE  /\ Opened = Found /\ Found.data = sent[cur.path].seen
         /\ cur.size = Len(sent[cur.path].seen)
         /\ sent[cur.path].data = SubSeq(sent[cur.path].seen, 1, cur.offset)
         /\ cur.offset < cur.size
BY JobAtHand DEF SteadyInv, FramedInv, Opened, Found

LEMMA OpenFileKeeps ==
  ASSUME PullInv, TypeOK', Running, RunningInv(Pipe), SessionStep, OpenFile
  PROVE  RunningInv(Pipe)'
<1>1. TypeOK /\ SteadyInv /\ FramedInv(Pipe)
  BY DEF PullInv, TypeInv, RunningInv, PipeInv
<1>2. /\ spc = "open" /\ spc' = "send" /\ cur.size > 0
      /\ UNCHANGED <<cur, sent, unsteady, disk>>
  BY DEF OpenFile, SessionStep
<1>3. cur # NoJob /\ cur.path \in Path
  BY <1>1, <1>2, JobAtHand
<1>4. cur.offset = 0
  <2>1. sent[cur.path].data = <<>> /\ cur.offset = Len(sent[cur.path].data)
    BY <1>1, <1>2, <1>3 DEF FramedInv
  <2> QED
    BY <2>1, EmptySeq
<1>5. SteadyInv'
  BY <1>1, <1>2, <1>3, <1>4 DEF SteadyInv, Found
<1> QED
  BY <1>5, OpenFileKeepsContent

LEMMA SendStopsKeeps ==
  ASSUME PullInv, TypeOK', Running, RunningInv(Pipe), SessionStep, SendStops
  PROVE  RunningInv(Pipe)'
<1>1. TypeOK /\ SteadyInv /\ FramedInv(Pipe)
  BY DEF PullInv, TypeInv, RunningInv, PipeInv
<1>2. /\ spc = "send" /\ spc' = "close"
      /\ ReadAt(Opened.data, cur.offset, cur.size) = <<>>
      /\ UNCHANGED <<cur, sent, unsteady, disk>>
  BY DEF SendStops, SessionStep
<1>3. cur # NoJob /\ cur.path \in Path /\ cur.offset \in Nat
  BY <1>1, <1>2, JobAtHand
<1>4. ASSUME cur.path \notin unsteady PROVE FALSE
  <2>1. PICK s \in Seq(Block) : s = sent[cur.path].seen
    BY <1>1, <1>3, SentType
  <2>2. /\ Opened.data = s /\ cur.size = Len(s) /\ cur.offset < Len(s)
    BY <1>1, <1>2, <1>4, <2>1, SteadyRead
  <2>3. Len(ReadAt(s, cur.offset, Len(s))) \in Nat \ {0}
    BY <1>3, <2>2, ReadsNext
  <2> QED
    BY <1>2, <2>2, <2>3, EmptySeq
<1>5. SteadyInv'
  BY <1>2, <1>4 DEF SteadyInv
<1> QED
  BY <1>5, OpenFileKeepsContent

(* A chunk is framed: it goes on where the one before it ended.             *)
LEMMA ChunkFramed ==
  ASSUME PullInv, TypeOK', Running, RunningInv(Pipe), SessionStep,
         spc \in {"open", "send"}, spc' \in {"send", "close"}, UNCHANGED link,
         NEW d \in Seq(Block), Framed(d), spc' = "send" => Len(d) > 0,
         WriteChunk(DataChunk(cur.path, cur.offset, d, IsLast(cur.offset + Len(d)))),
         cur'.path = cur.path, cur'.size = cur.size, cur'.offset = cur.offset + Len(d),
         SteadyInv'
  PROVE  RunningInv(Pipe)'
<1>1. /\ TypeOK /\ BufferInv /\ LinkInv /\ FreshInv
      /\ UnsentInv(Pipe) /\ FramedInv(Pipe) /\ ChunkInv(Pipe) /\ AckInv(Pipe)
  BY DEF PullInv, TypeInv, AccountInv, RunningInv, PipeInv
<1>2. /\ cur # NoJob /\ cur.path \in Path /\ cur.offset \in Nat /\ cur.size \in Nat
  BY <1>1, JobAtHand
<1>p. PICK p \in Path : p = cur.path
  BY <1>2
<1>o. PICK off \in Nat : off = cur.offset
  BY <1>2
<1>e. PICK end \in Nat : end = off + Len(d) /\ off <= end
  <2>1. Len(d) \in Nat
    BY LenProperties
  <2> QED
    BY <2>1
<1>f. PICK f \in Frame : /\ f = DataChunk(p, off, d, IsLast(end))
                        /\ WriteChunk(f)
  <2>1. IsLast(end) \in BOOLEAN
    BY DEF IsLast
  <2>2. DataChunk(p, off, d, IsLast(end)) \in Frame
    BY <2>1, FrameTypes
  <2> QED
    BY <1>e, <1>o, <1>p, <2>2
<1>3. /\ IsChunk(f) /\ ~ IsAck(f) /\ OfFile(f)
      /\ f.path = p /\ f.offset = off /\ f.data = d /\ Ends(f) = end
      /\ f.isLast <=> end >= cur.size
  BY <1>e, <1>f DEF DataChunk, IsChunk, IsAck, OfFile, Ends, IsLast
<1>4. UNCHANGED <<local, done>>
  BY DEF SessionStep, pullerVars
<1>5. /\ sent[p].seen \in Seq(Block) /\ sent[p].data \in Seq(Block)
      /\ sent[p].chunks \in Nat /\ Len(sent[p].seen) \in Nat
      /\ Len(sent[p].data) \in Nat
  BY <1>1, SentType
<1>6. /\ sent'[p].seen = sent[p].seen
      /\ sent'[p].data = sent[p].data \o d
      /\ sent'[p].chunks = sent[p].chunks + 1
  BY <1>1, <1>p, FramedAdds
<1>7. /\ cur.size = Len(sent[p].seen) /\ off = Len(sent[p].data)
      /\ spc = "open" => sent[p].chunks = 0
      /\ sent[p].chunks = 0 => sent[p].data = <<>>
      /\ spc = "send" /\ sent[p].chunks > 0 => off > 0
      /\ link = "up" /\ sent[p].chunks > 0 => HoldsAfter(Pipe, Len(Pipe), p, off)
  BY <1>1, <1>2, <1>p, <1>o DEF FramedInv
<1>8. /\ Len(sent'[p].data) = end
      /\ SubSeq(sent'[p].data, off + 1, end) = d
      /\ SubSeq(sent'[p].data, 1, off) = SubSeq(sent[p].data, 1, off)
  <2>1. PICK s \in Seq(Block) : s = sent[p].data
    BY <1>5
  <2>2. off = Len(s) /\ off \in 0..Len(s) /\ 1 \in Nat \ {0}
    BY <1>7, <2>1
  <2>3. /\ Len(s \o d) = Len(s) + Len(d)
        /\ \A m \in Nat \ {0}, n \in 0..Len(s) : SubSeq(s \o d, m, n) = SubSeq(s, m, n)
        /\ SubSeq(s \o d, Len(s) + 1, Len(s) + Len(d)) = d
    BY ReadOn
  <2>4. SubSeq(s \o d, 1, off) = SubSeq(s, 1, off)
    BY <2>2, <2>3
  <2>5. sent'[p].data = s \o d
    BY <1>6, <2>1
  <2> QED
    BY <1>e, <2>1, <2>2, <2>3, <2>4, <2>5
<1>9. off = 0 <=> sent[p].chunks = 0
  <2>1. sent[p].chunks = 0 => off = 0
    BY <1>7, EmptySeq
  <2>2. sent[p].chunks # 0 => sent[p].chunks > 0
    BY <1>5
  <2>3. sent[p].chunks # 0 => off # 0
    <3>1. sent[p].chunks # 0 => off > 0
      BY <1>7, <2>2
    <3> QED
      BY <3>1
  <2> QED
    BY <2>1, <2>3
<1>10. sent'[p].chunks > 0
  BY <1>5, <1>6
<1>11. Pipe' = IF link = "up" THEN Append(Pipe, f) ELSE Pipe
  BY <1>1, <1>f, PipeChunk
<1>12. PICK n \in Nat : n = Len(Pipe)
  BY <1>1, PipeType
<1>13. ASSUME link = "up"
       PROVE  /\ Len(Pipe') = n + 1 /\ Pipe'[n + 1] = f
              /\ \A i \in 1..n : Pipe'[i] = Pipe[i]
  BY <1>1, <1>11, <1>12, <1>13, Appended
<1>14. ASSUME link = "up" PROVE ChunkOK(Pipe, n + 1)'
  <2>1. n + 1 - 1 = n /\ Pipe'[n + 1] = f
    BY <1>13, <1>14
  <2>2. ASSUME off = 0
        PROVE  /\ p \notin done'
               /\ \A j \in 1..n : ~ (OfFile(Pipe'[j]) /\ Pipe'[j].path = p)
    <3>1. p \notin done /\ ~ OnPipe(Pipe, p)
      BY <1>1, <1>2, <1>9, <1>p, <2>2 DEF UnsentInv
    <3> QED
      BY <1>4, <1>12, <1>13, <1>14, <3>1 DEF OnPipe
  <2>3. ASSUME off # 0 PROVE HoldsAfter(Pipe, n, p, off)'
    <3>1. sent[p].chunks > 0
      BY <1>5, <1>9, <2>3
    <3>2. HoldsAfter(Pipe, n, p, off)
      BY <1>7, <1>12, <1>14, <3>1
    <3>3. CASE n = 0
      BY <1>4, <1>6, <1>8, <3>2, <3>3 DEF HoldsAfter
    <3>4. CASE n # 0
      <4>1. n \in 1..n
        BY <3>4
      <4>2. Pipe'[n] = Pipe[n]
        BY <1>13, <1>14, <4>1
      <4> QED
        BY <3>2, <3>4, <4>2 DEF HoldsAfter, IsChunk, Ends
    <3> QED
      BY <3>3, <3>4
  <2>4. /\ sent'[p].chunks > 0 /\ Ends(f) <= Len(sent'[p].data)
        /\ f.data = SubSeq(sent'[p].data, f.offset + 1, Ends(f))
        /\ f.isLast <=> Ends(f) >= Len(sent'[p].seen)
    <3>1. Ends(f) <= Len(sent'[p].data)
      BY <1>3, <1>8
    <3>2. f.data = SubSeq(sent'[p].data, f.offset + 1, Ends(f))
      BY <1>3, <1>8
    <3>3. f.isLast <=> Ends(f) >= Len(sent'[p].seen)
      BY <1>3, <1>6, <1>7
    <3> QED
      BY <1>10, <3>1, <3>2, <3>3
  <2>5. PICK k \in Nat : k = n + 1 /\ k - 1 = n
    OBVIOUS
  <2>6. IF f.offset = 0
        THEN /\ f.path \notin done'
             /\ \A j \in 1..k - 1 : ~ (OfFile(Pipe'[j]) /\ Pipe'[j].path = f.path)
        ELSE HoldsAfter(Pipe, k - 1, f.path, f.offset)'
    BY <1>3, <2>2, <2>3, <2>5
  <2>7. /\ sent'[f.path].chunks > 0 /\ Ends(f) <= Len(sent'[f.path].data)
        /\ f.data = SubSeq(sent'[f.path].data, f.offset + 1, Ends(f))
        /\ f.isLast <=> Ends(f) >= Len(sent'[f.path].seen)
    BY <1>3, <2>4
  <2>8. Pipe'[k] = f
    BY <2>1, <2>5
  <2>9. ChunkOK(Pipe, k)'
    BY <2>6, <2>7, <2>8 DEF ChunkOK, Ends
  <2> QED
    BY <2>5, <2>9
<1>15. ChunkInv(Pipe)' /\ AckInv(Pipe)'
  <2>1. FilesKept
    BY <1>1, SessionKeepsFiles
  <2>2. ASSUME link = "up" PROVE ChunkOK(Pipe, Len(Pipe))'
    BY <1>13, <1>14, <2>2
  <2> QED
    BY <1>1, <1>3, <1>11, <2>1, <2>2, StreamContinues
<1>16. FreshInv'
  BY <1>1, SessionKeepsFresh
<1>17. UnsentInv(Pipe)'
  <2>1. sent'[p].chunks # 0
    BY <1>10
  <2> QED
    BY <1>p, <2>1 DEF UnsentInv
<1>18. FramedInv(Pipe)'
  <2>1. cur'.size = Len(sent'[p].seen) /\ cur'.offset = end /\ cur'.path = p
    BY <1>6, <1>7, <1>e, <1>o, <1>p
  <2>2. spc' = "send" => end > 0
    <3>1. Len(d) \in Nat
      BY LenProperties
    <3> QED
      BY <1>e, <3>1
  <2>3. ASSUME link = "up" PROVE HoldsAfter(Pipe, Len(Pipe), p, end)'
    <3>1. n + 1 # 0
      OBVIOUS
    <3> QED
      BY <1>3, <1>13, <2>3, <3>1 DEF HoldsAfter, IsChunk, Ends
  <2>4. sent'[p].chunks # 0
    BY <1>10
  <2> QED
    BY <1>8, <2>1, <2>2, <2>3, <2>4 DEF FramedInv
<1> QED
  BY <1>15, <1>16, <1>17, <1>18 DEF RunningInv, PipeInv

LEMMA SendEmptyFileKeeps ==
  ASSUME PullInv, TypeOK', Running, RunningInv(Pipe), SessionStep, SendEmptyFile
  PROVE  RunningInv(Pipe)'
<1>1. TypeOK /\ SteadyInv /\ FramedInv(Pipe)
  BY DEF PullInv, TypeInv, RunningInv, PipeInv
<1>2. /\ spc = "open" /\ spc' = "close" /\ cur.size = 0
      /\ WriteChunk(DataChunk(cur.path, 0, <<>>, TRUE))
      /\ Framed(<<>>)
      /\ UNCHANGED <<link, cur, unsteady, disk>>
  BY DEF SendEmptyFile, SessionStep
<1>3. cur # NoJob /\ cur.path \in Path
  BY <1>1, <1>2, JobAtHand
<1>p. PICK p \in Path : p = cur.path
  BY <1>3
<1>4. /\ sent[p].chunks = 0 /\ sent[p].data = <<>>
      /\ cur.offset = Len(sent[p].data) /\ Len(sent[p].seen) = 0
  BY <1>1, <1>2, <1>3, <1>p DEF FramedInv
<1>5. cur.offset = 0 /\ sent[p].seen = <<>>
  <2>1. sent[p].seen \in Seq(Block)
    BY <1>1, SentType
  <2> QED
    BY <1>4, <2>1, EmptySeq
<1>6. /\ Len(<<>>) = 0 /\ <<>> \in Seq(Block) /\ <<>> \o <<>> = <<>>
  BY EmptySeq, ConcatEmptySeq
<1>7. cur.offset + Len(<<>>) = 0 /\ (IsLast(0) <=> TRUE)
  BY <1>2, <1>5, <1>6 DEF IsLast
<1>8. WriteChunk(DataChunk(cur.path, cur.offset, <<>>, IsLast(cur.offset + Len(<<>>))))
  <2>1. IsLast(0) = TRUE
    BY <1>2 DEF IsLast
  <2> QED
    BY <1>2, <1>5, <1>7, <2>1
<1>9. SteadyInv'
  <2>1. /\ sent'[p].seen = sent[p].seen
        /\ sent'[p].data = <<>>
        /\ sent'[p].chunks = 1
    BY <1>1, <1>2, <1>4, <1>6, <1>p DEF Framed, TypeOK, SessionTypeOK
  <2>2. Whole(p)'
    BY <1>5, <2>1 DEF Whole
  <2> QED
    BY <1>2, <1>p, <2>2 DEF SteadyInv
<1>10. cur'.path = cur.path /\ cur'.size = cur.size /\ cur'.offset = cur.offset + Len(<<>>)
  BY <1>2, <1>5, <1>7
<1> QED
  BY <1>2, <1>6, <1>8, <1>9, <1>10, ChunkFramed

LEMMA SendChunkKeeps ==
  ASSUME PullInv, TypeOK', Running, RunningInv(Pipe), SessionStep, SendChunk
  PROVE  RunningInv(Pipe)'
<1>1. TypeOK /\ SteadyInv /\ FramedInv(Pipe)
  BY DEF PullInv, TypeInv, RunningInv, PipeInv
<1>2. spc = "send" /\ UNCHANGED <<link, unsteady, disk>>
  BY DEF SendChunk, SessionStep
<1>3. /\ cur # NoJob /\ cur \in Job /\ cur.path \in Path
      /\ cur.offset \in Nat /\ cur.size \in Nat
  BY <1>1, <1>2, JobAtHand
<1>4. Opened.data \in Seq(Block)
  BY <1>1, <1>3 DEF Opened, TypeOK, SessionTypeOK, Entry, Job
<1>d. PICK d \in Seq(Block) : d = ReadAt(Opened.data, cur.offset, cur.size)
  BY <1>3, <1>4, ReadAtType
<1>p. PICK p \in Path : p = cur.path
  BY <1>3
<1>e. PICK end \in Nat : end = cur.offset + Len(d) /\ Len(d) \in Nat
  <2>1. Len(d) \in Nat
    BY LenProperties
  <2> QED
    BY <1>3, <2>1
<1>5. /\ d # <<>>
      /\ WriteChunk(DataChunk(cur.path, cur.offset, d, IsLast(end)))
      /\ Framed(d)
      /\ cur' = [cur EXCEPT !.offset = end]
      /\ spc' = IF end < cur.size THEN "send" ELSE "close"
  BY <1>d, <1>e DEF SendChunk
<1>6. Len(d) > 0
  <2>1. Len(d) # 0
    BY <1>5, EmptySeq
  <2> QED
    BY <1>e, <2>1
<1>7. /\ cur'.path = cur.path /\ cur'.size = cur.size /\ cur'.offset = end
      /\ cur'.dir = cur.dir /\ cur'.found = cur.found
  BY <1>3, <1>5 DEF Job
<1>8. /\ sent'[p].seen = sent[p].seen
      /\ sent'[p].data = sent[p].data \o d
      /\ sent'[p].chunks = sent[p].chunks + 1
  BY <1>1, <1>5, <1>p, FramedAdds
<1>9. ASSUME p \notin unsteady
      PROVE  /\ Found.data = sent[p].seen /\ cur.dir = cur.found
             /\ sent'[p].data = SubSeq(sent[p].seen, 1, end)
             /\ ~ (end < cur.size) => sent'[p].data = sent[p].seen
  <2>1. PICK s \in Seq(Block) : s = sent[p].seen
    BY <1>1, SentType
  <2>2. /\ Opened = Found /\ Found.data = s /\ cur.size = Len(s)
        /\ sent[p].data = SubSeq(s, 1, cur.offset) /\ cur.offset < Len(s)
    BY <1>1, <1>2, <1>9, <1>p, <2>1, SteadyRead
  <2>3. PICK off \in Nat : off = cur.offset
    BY <1>3
  <2>4. d = ReadAt(s, off, Len(s)) /\ off < Len(s)
    BY <1>d, <2>2, <2>3
  <2>5. off + Len(d) <= Len(s) /\ SubSeq(s, 1, off) \o d = SubSeq(s, 1, off + Len(d))
    BY <2>4, ReadsNext
  <2>6. sent'[p].data = SubSeq(s, 1, end) /\ end <= Len(s)
    BY <1>8, <1>e, <2>2, <2>3, <2>5
  <2>7. cur.dir = cur.found
    BY <1>1, <1>2, <1>3, <1>9, <1>p DEF SteadyInv
  <2>8. ASSUME ~ (end < cur.size) PROVE sent'[p].data = s
    <3>1. end = Len(s)
      <4>1. Len(s) \in Nat
        BY LenProperties
      <4> QED
        BY <2>2, <2>6, <2>8, <4>1
    <3> QED
      BY <2>6, <3>1, SubSeqFull
  <2> QED
    BY <2>1, <2>2, <2>6, <2>7, <2>8
<1>10. SteadyInv'
  <2>1. Found' = Found
    BY <1>2, <1>7 DEF Found
  <2>2. sent'[p].chunks > 0
    BY <1>1, <1>8, SentType
  <2>3. ASSUME p \notin unsteady, ~ (end < cur.size) PROVE Whole(p)'
    BY <1>8, <1>9, <2>2, <2>3 DEF Whole
  <2>4. cur'.path = p
    BY <1>7, <1>p
  <2>5. CASE end < cur.size
    <3>1. spc' = "send"
      BY <1>5, <2>5
    <3> QED
      BY <1>2, <1>7, <1>8, <1>9, <2>1, <2>4, <2>5, <3>1 DEF SteadyInv
  <2>6. CASE ~ (end < cur.size)
    <3>1. spc' = "close"
      BY <1>5, <2>6
    <3> QED
      BY <1>2, <2>3, <2>4, <2>6, <3>1 DEF SteadyInv
  <2> QED
    BY <2>5, <2>6
<1>11. spc' \in {"send", "close"}
  BY <1>5
<1> QED
  BY <1>2, <1>5, <1>6, <1>7, <1>10, <1>11, <1>e, ChunkFramed

(* BatchDone closes what was framed of the file.                            *)
LEMMA FinishFileKeepsContent ==
  ASSUME PullInv, TypeOK', Running, RunningInv(Pipe), SessionStep, FinishFile
  PROVE  RunningInv(Pipe)'
<1>1. TypeOK /\ SteadyInv /\ FramedInv(Pipe) /\ UnsentInv(Pipe)
  BY DEF PullInv, TypeInv, RunningInv, PipeInv
<1>2. /\ spc = "close" /\ cur' = NoJob /\ UNCHANGED <<link, sent, unsteady>>
      /\ Encode(BatchDone(cur.path)) \/ EncodeFails
  BY DEF FinishFile
<1>3. cur # NoJob /\ cur.path \in Path /\ cur.offset \in Nat
  BY <1>1, <1>2, JobAtHand
<1>p. PICK p \in Path : p = cur.path
  BY <1>3
<1>m. PICK m \in Frame : m = BatchDone(p)
  BY FrameTypes
<1>4. IsAck(m) /\ ~ IsChunk(m) /\ m.path = p
  BY <1>m DEF BatchDone, IsAck, IsChunk
<1>5. UNCHANGED <<local, done>>
  BY DEF SessionStep, pullerVars
<1>6. Pipe' = Pipe \/ (link = "up" /\ Pipe' = Append(Pipe, m))
  <2>1. CASE Encode(BatchDone(cur.path))
    <3>1. Encode(m)
      BY <1>m, <1>p, <2>1
    <3>2. Pipe' = IF link = "up" THEN Append(Pipe, m) ELSE Pipe
      BY <1>1, <1>2, <3>1, PipeEncode
    <3> QED
      BY <3>2
  <2>2. CASE EncodeFails
    BY <1>2, <2>2, PipeFails
  <2> QED
    BY <1>2, <2>1, <2>2
<1>7. ASSUME link = "up", Pipe' = Append(Pipe, m)
      PROVE  AckOK(Pipe, Len(Pipe))'
  <2>1. PICK n \in Nat : n = Len(Pipe)
    BY <1>1, PipeType
  <2>2. /\ Len(Pipe') = n + 1 /\ Pipe'[n + 1] = m
        /\ \A i \in 1..n : Pipe'[i] = Pipe[i]
    BY <1>1, <1>7, <2>1, Appended
  <2>3. PICK k \in Nat : k = n + 1 /\ k - 1 = n
    OBVIOUS
  <2>4. Whole(p)'
    <3>1. p \notin unsteady => Whole(p)
      BY <1>1, <1>2, <1>3, <1>p DEF SteadyInv
    <3> QED
      BY <1>2, <3>1 DEF Whole
  <2>5. ASSUME sent[p].chunks = 0 PROVE p \notin done'
    BY <1>1, <1>3, <1>5, <1>p, <2>5 DEF UnsentInv
  <2>6. ASSUME sent[p].chunks # 0 PROVE HoldsAfter(Pipe, k - 1, p, Len(sent[p].data))'
    <3>1. sent[p].chunks > 0
      BY <1>1, <2>6, SentType
    <3>2. HoldsAfter(Pipe, n, p, Len(sent[p].data))
      BY <1>1, <1>2, <1>3, <1>7, <1>p, <2>1, <3>1 DEF FramedInv
    <3>3. CASE n = 0
      BY <1>2, <1>5, <2>3, <3>2, <3>3 DEF HoldsAfter
    <3>4. CASE n # 0
      <4>1. n \in 1..n
        BY <3>4
      <4>2. Pipe'[n] = Pipe[n]
        BY <2>2, <4>1
      <4> QED
        BY <1>2, <2>3, <3>2, <3>4, <4>2 DEF HoldsAfter, IsChunk, Ends
    <3> QED
      BY <3>3, <3>4
  <2>7. Pipe'[k] = m /\ Pipe'[k].path = p
    BY <1>4, <2>2, <2>3
  <2>8. IF sent'[p].chunks = 0 THEN p \notin done'
        ELSE HoldsAfter(Pipe, k - 1, p, Len(sent[p].data))'
    BY <1>2, <2>5, <2>6
  <2>9. AckOK(Pipe, k)'
    BY <2>4, <2>7, <2>8 DEF AckOK
  <2> QED
    BY <2>2, <2>3, <2>9
<1> QED
  BY <1>2, <1>4, <1>6, <1>7, JobOver

LEMMA SessionKeepsContent ==
  ASSUME PullInv, TypeOK', Running, RunningInv(Pipe), SessionStep
  PROVE  RunningInv(Pipe)'
BY NoJobSteps, ResolveFileKeepsContent, StatFileKeepsContent, OpenFileKeeps,
   SendEmptyFileKeeps, SendChunkKeeps, SendStopsKeeps, FinishFileKeepsContent
DEF SessionStep, SessionNext, SendFile

-----------------------------------------------------------------------------
(* The steps of the client.  Between two requests the pipe is empty.        *)
LEMMA PendingIsOwed == PullInv /\ Running => PendingInv
<1> SUFFICES ASSUME PullInv, Running, NEW p \in Path, Pending(p)
             PROVE  p \in Owed
  BY DEF PendingInv, Owed
<1>1. RequestInv /\ SessionInv
  BY DEF PullInv, AccountInv
<1> QED
  BY <1>1 DEF Pending, Requested, Queued, Current, RequestInv, SessionInv

LEMMA PendingIsOwedNext == PullInv' /\ Running' => PendingInv'
BY PendingIsOwed, PTL

Resting == cpc \in {"start", "scan", "batch", "render"}

LEMMA NothingPiped == PullInv /\ Resting => Pipe = <<>> /\ cur = NoJob
<1> SUFFICES ASSUME PullInv, Resting PROVE Pipe = <<>> /\ cur = NoJob
  OBVIOUS
<1>1. Running
  BY DEF Running, Resting
<1>2. TypeOK /\ SessionInv /\ CountInv /\ TurnsInv /\ BufferInv /\ LinkInv
  BY <1>1 DEF PullInv, TypeInv, AccountInv
<1>3. Owed = {} /\ toClient = <<>>
  BY <1>2 DEF CountInv, TurnsInv, Resting
<1>4. cur = NoJob
  BY <1>2, <1>3, Idle
<1>5. link = "up" => wbuf = <<>>
  <2>1. ASSUME link = "up" PROVE \A i \in 1..Len(wbuf) : FALSE
    BY <1>2, <1>4, <2>1 DEF LinkInv, BufferInv, Current
  <2>2. wbuf \in Seq(Frame) /\ (wbuf # <<>> => 1 \in 1..Len(wbuf))
    BY <1>2, PipeType, FirstOf
  <2> QED
    BY <2>1, <2>2
<1>6. Pipe = <<>>
  BY <1>3, <1>5, EmptySeq, ConcatEmptySeq DEF Pipe
<1> QED
  BY <1>4, <1>6

LEMMA NothingPipedNext == PullInv' /\ Resting' => (Pipe = <<>> /\ cur = NoJob)'
BY NothingPiped, PTL

LEMMA EmptyPipe ==
  ASSUME TypeOK', Pipe' = <<>>, cur' = NoJob
  PROVE  PipeInv(Pipe)' /\ SteadyInv'
<1>1. Len(Pipe') = 0
  BY EmptySeq
<1>2. spc' # "stat"
  BY TransferAssumption DEF TypeOK, SessionTypeOK
<1>3. ChunkInv(Pipe)' /\ AckInv(Pipe)'
  <2>1. \A i \in 1..Len(Pipe') : FALSE
    BY <1>1
  <2> QED
    BY <2>1 DEF ChunkInv, AckInv
<1>4. UnsentInv(Pipe)' /\ FramedInv(Pipe)' /\ SteadyInv'
  BY <1>2 DEF UnsentInv, FramedInv, SteadyInv
<1> QED
  BY <1>3, <1>4 DEF PipeInv

LEMMA FreshBetween ==
  ASSUME PullInv, PullInv', Running, Running', FreshInv, cpc # "recv",
         UNCHANGED <<done, acked>>
  PROVE  FreshInv'
<1>1. CountInv /\ CountInv' /\ RequestInv' /\ SessionInv' /\ acked' \subseteq Asked'
  BY DEF PullInv, AccountInv
<1>2. done \subseteq acked
  BY <1>1 DEF FreshInv, CountInv, Owed
<1>3. ASSUME NEW p \in Path, Requested(p)' \/ Queued(p)'
      PROVE  p \notin acked'
  <2>1. p \in Owed'
    BY <1>1, <1>3 DEF Requested, Queued, RequestInv, SessionInv
  <2> QED
    BY <2>1 DEF Owed
<1> QED
  BY <1>1, <1>2, <1>3 DEF FreshInv

(* The steps around the requests. *)
LEMMA BetweenRequests ==
  ASSUME PullInv, PullInv', Running, Running', FreshInv,
         Resting' \/ (Resting /\ UNCHANGED <<toClient, wbuf, link, cur>>),
         cpc # "recv", UNCHANGED <<done, acked>>
  PROVE  RunningInv(Pipe)'
<1>1. TypeOK'
  BY DEF PullInv, TypeInv
<1>2. Pipe' = <<>> /\ cur' = NoJob
  <2>1. CASE Resting'
    BY <2>1, NothingPipedNext
  <2>2. CASE Resting /\ UNCHANGED <<toClient, wbuf, link, cur>>
    BY <2>2, NothingPiped DEF Pipe
  <2> QED
    BY <2>1, <2>2
<1> QED
  BY <1>1, <1>2, EmptyPipe, FreshBetween DEF RunningInv

(* Download's loop takes a frame off the pipe. *)
HeadHandled ==
  LET h == Head(toClient) IN
  /\ \A q \in Path : q # h.path => local'[q] = local[q] /\ (q \in done' <=> q \in done)
  /\ IsAck(h) => UNCHANGED <<local, done>>
  /\ IsChunk(h) =>
       /\ local'[h.path] = [kind |-> "file",
                            data |-> SubSeq(sent[h.path].data, 1, Ends(h))]
       /\ h.path \in done' <=> Ends(h) >= Len(sent[h.path].seen)

LEMMA HoldsShifted ==
  ASSUME TypeOK, toClient # <<>>, toClient' = Tail(toClient),
         UNCHANGED <<wbuf, link, sent>>, HeadHandled,
         NEW i \in 1..Len(Pipe), NEW k \in Nat, k = i - 1,
         NEW p \in Path, NEW n, HoldsAfter(Pipe, i, p, n)
  PROVE  HoldsAfter(Pipe, k, p, n)'
<1>1. /\ Pipe[1] = Head(toClient)
      /\ Len(Pipe') = Len(Pipe) - 1
      /\ \A j \in 1..Len(Pipe') : Pipe'[j] = Pipe[j + 1]
      /\ Len(Pipe) \in Nat
  BY PipeTaken, PipeType
<1>2. IsChunk(Pipe[i]) /\ Pipe[i].path = p /\ Ends(Pipe[i]) = n
  <2>1. i # 0
    OBVIOUS
  <2> QED
    BY <2>1 DEF HoldsAfter
<1>3. CASE k = 0
  <2>1. i = 1
    BY <1>3
  <2>2. /\ local'[p] = [kind |-> "file", data |-> SubSeq(sent[p].data, 1, n)]
        /\ p \in done' <=> n >= Len(sent[p].seen)
    BY <1>1, <1>2, <2>1 DEF HeadHandled
  <2> QED
    BY <1>3, <2>2 DEF HoldsAfter
<1>4. CASE k # 0
  <2>1. k \in 1..Len(Pipe') /\ k + 1 = i
    BY <1>1, <1>4
  <2>2. Pipe'[k] = Pipe[i]
    BY <1>1, <2>1
  <2> QED
    BY <1>2, <1>4, <2>2 DEF HoldsAfter, IsChunk, Ends
<1> QED
  BY <1>3, <1>4

LEMMA ChunkShifted ==
  ASSUME TypeOK, toClient # <<>>, toClient' = Tail(toClient), OfFile(Head(toClient)),
         UNCHANGED <<wbuf, link, sent>>, HeadHandled, ChunkInv(Pipe),
         NEW k \in 1..Len(Pipe')
  PROVE  ChunkOK(Pipe, k)'
<1>1. /\ 1 \in 1..Len(Pipe) /\ Pipe[1] = Head(toClient)
      /\ \A j \in 1..Len(Pipe') : Pipe'[j] = Pipe[j + 1] /\ j + 1 \in 1..Len(Pipe)
  BY PipeTaken
<1> SUFFICES ASSUME IsChunk(Pipe'[k]) PROVE ChunkOK(Pipe, k)'
  BY DEF ChunkOK, IsChunk
<1>2. PICK i \in 1..Len(Pipe) : i = k + 1 /\ Pipe'[k] = Pipe[i]
  BY <1>1
<1>f. PICK f \in Frame : f = Pipe[i]
  BY PipeFrame
<1>3. /\ IsChunk(f) /\ OfFile(f) /\ f.path \in Path
      /\ ChunkOK(Pipe, i)
  BY <1>2, <1>f, PipeFrame DEF ChunkInv
<1>4. /\ sent[f.path].chunks > 0 /\ Ends(f) <= Len(sent[f.path].data)
      /\ f.data = SubSeq(sent[f.path].data, f.offset + 1, Ends(f))
      /\ f.isLast <=> Ends(f) >= Len(sent[f.path].seen)
  BY <1>3, <1>f DEF ChunkOK
<1>5. ASSUME f.offset = 0
      PROVE  /\ f.path \notin done'
             /\ \A j \in 1..k - 1 : ~ (OfFile(Pipe'[j]) /\ Pipe'[j].path = f.path)
  <2>1. /\ f.path \notin done
        /\ \A j \in 1..i - 1 : ~ (OfFile(Pipe[j]) /\ Pipe[j].path = f.path)
    BY <1>3, <1>5, <1>f DEF ChunkOK
  <2>2. 1 \in 1..i - 1
    BY <1>2
  <2>3. f.path # Head(toClient).path
    BY <1>1, <2>1, <2>2
  <2>4. f.path \notin done'
    BY <1>3, <2>1, <2>3 DEF HeadHandled
  <2>5. \A j \in 1..k - 1 : j \in 1..Len(Pipe') /\ j + 1 \in 1..i - 1
    <3>1. Len(Pipe') \in Nat
      BY PipeTaken, PipeType
    <3> QED
      BY <1>2, <3>1
  <2>6. \A j \in 1..k - 1 : Pipe'[j] = Pipe[j + 1]
    BY <1>1, <2>5
  <2> QED
    BY <2>1, <2>4, <2>5, <2>6
<1>6. ASSUME f.offset # 0 PROVE HoldsAfter(Pipe, k - 1, f.path, f.offset)'
  <2>1. HoldsAfter(Pipe, i - 1, f.path, f.offset)
    BY <1>3, <1>6, <1>f DEF ChunkOK
  <2>2. i - 1 = k /\ k \in 1..Len(Pipe)
    BY <1>2
  <2>3. PICK l \in Nat : l = k - 1
    OBVIOUS
  <2>4. HoldsAfter(Pipe, k, f.path, f.offset)
    BY <2>1, <2>2
  <2>5. HoldsAfter(Pipe, l, f.path, f.offset)'
    BY <1>3, <2>2, <2>3, <2>4, HoldsShifted
  <2> QED
    BY <2>3, <2>5
<1>7. IF f.offset = 0
      THEN /\ f.path \notin done'
           /\ \A j \in 1..k - 1 : ~ (OfFile(Pipe'[j]) /\ Pipe'[j].path = f.path)
      ELSE HoldsAfter(Pipe, k - 1, f.path, f.offset)'
  BY <1>5, <1>6
<1>8. Pipe'[k] = f /\ sent' = sent
  BY <1>2, <1>f
<1>9. /\ sent'[f.path].chunks > 0 /\ Ends(f) <= Len(sent'[f.path].data)
      /\ f.data = SubSeq(sent'[f.path].data, f.offset + 1, Ends(f))
      /\ f.isLast <=> Ends(f) >= Len(sent'[f.path].seen)
  BY <1>4, <1>8
<1> QED
  BY <1>7, <1>8, <1>9 DEF ChunkOK, Ends

LEMMA AckShifted ==
  ASSUME TypeOK, toClient # <<>>, toClient' = Tail(toClient), OfFile(Head(toClient)),
         UNCHANGED <<wbuf, link, sent, unsteady>>, HeadHandled,
         ChunkInv(Pipe), AckInv(Pipe), NEW k \in 1..Len(Pipe')
  PROVE  AckOK(Pipe, k)'
<1>1. /\ 1 \in 1..Len(Pipe) /\ Pipe[1] = Head(toClient)
      /\ \A j \in 1..Len(Pipe') : Pipe'[j] = Pipe[j + 1] /\ j + 1 \in 1..Len(Pipe)
  BY PipeTaken
<1> SUFFICES ASSUME IsAck(Pipe'[k]) PROVE AckOK(Pipe, k)'
  BY DEF AckOK, IsAck
<1>2. PICK i \in 1..Len(Pipe) : i = k + 1 /\ Pipe'[k] = Pipe[i]
  BY <1>1
<1>p. PICK p \in Path : p = Pipe[i].path
  BY <1>2, PipeFrame DEF IsAck
<1>3. IsAck(Pipe[i]) /\ AckOK(Pipe, i)
  BY <1>2 DEF AckInv, IsAck
<1>4. Whole(p)'
  BY <1>3, <1>p DEF AckOK, Whole
<1>5. ASSUME sent[p].chunks = 0 PROVE p \notin done'
  <2>1. p \notin done
    BY <1>3, <1>5, <1>p DEF AckOK
  <2>2. CASE p # Head(toClient).path
    BY <2>1, <2>2 DEF HeadHandled
  <2>3. CASE p = Head(toClient).path
    <3>1. ~ IsChunk(Head(toClient))
      <4>1. ASSUME IsChunk(Pipe[1]) PROVE sent[Pipe[1].path].chunks > 0
        BY <1>1, <4>1 DEF ChunkInv, ChunkOK
      <4> QED
        BY <1>1, <1>5, <2>3, <4>1
    <3>2. IsAck(Head(toClient))
      BY <3>1 DEF OfFile, IsAck, IsChunk
    <3> QED
      BY <2>1, <3>2 DEF HeadHandled
  <2> QED
    BY <2>2, <2>3
<1>6. ASSUME sent[p].chunks # 0 PROVE HoldsAfter(Pipe, k - 1, p, Len(sent[p].data))'
  <2>1. PICK n \in Nat : n = Len(sent[p].data)
    BY SentType
  <2>2. HoldsAfter(Pipe, i - 1, p, n)
    BY <1>3, <1>6, <1>p, <2>1 DEF AckOK
  <2>3. i - 1 = k /\ k \in 1..Len(Pipe)
    BY <1>2
  <2>4. PICK l \in Nat : l = k - 1
    OBVIOUS
  <2>5. HoldsAfter(Pipe, k, p, n)
    BY <2>2, <2>3
  <2>6. HoldsAfter(Pipe, l, p, n)'
    BY <2>3, <2>4, <2>5, HoldsShifted
  <2>7. n = Len(sent'[p].data)
    BY <2>1
  <2> QED
    BY <2>4, <2>6, <2>7
<1>7. Pipe'[k].path = p /\ sent' = sent
  BY <1>2, <1>p
<1>8. IF sent'[p].chunks = 0 THEN p \notin done'
      ELSE HoldsAfter(Pipe, k - 1, p, Len(sent[p].data))'
  BY <1>5, <1>6, <1>7
<1> QED
  BY <1>4, <1>7, <1>8 DEF AckOK

LEMMA FrameHandled ==
  ASSUME PullInv, TypeOK', Running, RunningInv(Pipe), toClient # <<>>, toClient' = Tail(toClient),
         OfFile(Head(toClient)), HeadHandled,
         UNCHANGED <<toServer, wbuf, link, sessionVars, disk, toDownload, next>>
  PROVE  RunningInv(Pipe)'
<1>1. /\ TypeOK /\ ClientStreamInv /\ RequestInv /\ FreshInv /\ SteadyInv
      /\ ChunkInv(Pipe) /\ AckInv(Pipe) /\ UnsentInv(Pipe) /\ FramedInv(Pipe)
  BY DEF PullInv, TypeInv, AccountInv, RunningInv, PipeInv
<1>2. UNCHANGED <<spc, queue, cur, sent, unsteady>>
  BY DEF sessionVars
<1>3. /\ 1 \in 1..Len(Pipe) /\ Pipe[1] = Head(toClient)
      /\ Len(Pipe') = Len(Pipe) - 1
      /\ \A j \in 1..Len(Pipe') : Pipe'[j] = Pipe[j + 1] /\ j + 1 \in 1..Len(Pipe)
  BY <1>1, PipeTaken
<1>4. ChunkInv(Pipe)' /\ AckInv(Pipe)'
  BY <1>1, <1>2, ChunkShifted, AckShifted DEF ChunkInv, AckInv
<1>5. PICK p \in Path : p = Head(toClient).path
  BY <1>1, <1>3, PipeFrame
<1>6. OnPipe(Pipe, p) /\ OnWire(p)
  <2>1. Head(toClient) = toClient[1] /\ 1 \in 1..Len(toClient)
    BY <1>1, Shifted DEF TypeOK, WireTypeOK
  <2> QED
    BY <1>3, <1>5, <2>1 DEF OnPipe, OnWire
<1>7. FreshInv'
  <2>1. p \in Asked /\ ~ Queued(p) /\ ~ Requested(p)
    <3>1. p \in Owed /\ ~ Queued(p)
      BY <1>1, <1>6 DEF ClientStreamInv
    <3>2. ~ Requested(p)
      BY <1>1 DEF RequestInv, Requested
    <3> QED
      BY <3>1, <3>2 DEF Owed
  <2>2. done' \subseteq done \cup {p}
    <3>1. \A q \in done' : q \in Path
      BY DEF TypeOK, PullerTypeOK
    <3> QED
      BY <1>5, <3>1 DEF HeadHandled
  <2>3. Asked' = Asked
    BY DEF Asked
  <2>4. \A q \in Path : (Requested(q)' <=> Requested(q)) /\ (Queued(q)' <=> Queued(q))
    BY <1>2 DEF Requested, Queued
  <2> QED
    BY <1>1, <2>1, <2>2, <2>3, <2>4 DEF FreshInv
<1>8. UnsentInv(Pipe)'
  <2>1. SUFFICES ASSUME cur # NoJob, spc = "stat" \/ sent[cur.path].chunks = 0
                 PROVE  cur.path \notin done' /\ ~ OnPipe(Pipe, cur.path)'
    BY <1>2 DEF UnsentInv, OnPipe
  <2>2. PICK c \in Path : c = cur.path
    BY <1>1, <2>1, JobAtHand
  <2>3. c \notin done /\ ~ OnPipe(Pipe, c)
    BY <1>1, <2>1, <2>2 DEF UnsentInv
  <2>4. c \notin done'
    BY <1>5, <1>6, <2>3 DEF HeadHandled
  <2>5. ~ OnPipe(Pipe, c)'
    BY <1>3, <2>3 DEF OnPipe, OfFile
  <2> QED
    BY <1>2, <2>2, <2>4, <2>5 DEF OnPipe
<1>9. FramedInv(Pipe)'
  <2>1. ASSUME cur # NoJob, spc # "stat", link = "up", sent[cur.path].chunks > 0
        PROVE  HoldsAfter(Pipe, Len(Pipe), cur.path, cur.offset)'
    <3>1. PICK c \in Path : c = cur.path
      BY <1>1, <2>1, JobAtHand
    <3>2. PICK off \in Nat : off = cur.offset
      BY <1>1, <2>1, JobAtHand
    <3>3. HoldsAfter(Pipe, Len(Pipe), c, off)
      BY <1>1, <2>1, <3>1, <3>2 DEF FramedInv
    <3>4. PICK i \in 1..Len(Pipe) : i = Len(Pipe)
      BY <1>1, <1>3, PipeType
    <3>5. PICK k \in Nat : k = i - 1
      OBVIOUS
    <3>6. HoldsAfter(Pipe, i, c, off)
      BY <3>3, <3>4
    <3>7. HoldsAfter(Pipe, k, c, off)'
      BY <1>1, <1>2, <3>5, <3>6, HoldsShifted
    <3>8. k = Len(Pipe') /\ c = cur'.path /\ off = cur'.offset
      BY <1>2, <1>3, <3>1, <3>2, <3>4, <3>5
    <3> QED
      BY <3>7, <3>8 DEF HoldsAfter, IsChunk, Ends
  <2> QED
    BY <1>1, <1>2, <2>1 DEF FramedInv
<1>10. SteadyInv'
  BY <1>1, <1>2 DEF SteadyInv, Found, Whole
<1> QED
  BY <1>4, <1>7, <1>8, <1>9, <1>10 DEF RunningInv, PipeInv

(* A chunk is written where the one before it ended. *)
LEMMA ChunkWritten ==
  ASSUME PullInv, Running, RunningInv(Pipe), RecvChunk
  PROVE  HeadHandled
<1>1. /\ TypeOK /\ ChunkInv(Pipe)
  BY DEF PullInv, TypeInv, RunningInv, PipeInv
<1>2. /\ toClient # <<>> /\ toClient' = Tail(toClient) /\ UNCHANGED <<wbuf, link>>
      /\ local' = [local EXCEPT ![Head(toClient).path] = Written(Head(toClient))]
      /\ done' = IF Head(toClient).isLast THEN done \cup {Head(toClient).path} ELSE done
      /\ Head(toClient).type = "DataChunk"
  BY DEF RecvChunk, Receives
<1>3. 1 \in 1..Len(Pipe) /\ Pipe[1] = Head(toClient)
  BY <1>1, <1>2, PipeTaken
<1>f. PICK f \in Frame : f = Head(toClient)
  BY <1>1, <1>3, PipeFrame
<1>4. /\ IsChunk(f) /\ ~ IsAck(f) /\ f.path \in Path /\ f.offset \in Nat
      /\ f.data \in Seq(Block) /\ Len(f.data) \in Nat
  <2>1. IsChunk(f) /\ ~ IsAck(f)
    BY <1>2, <1>f DEF IsChunk, IsAck
  <2> QED
    BY <1>1, <1>3, <1>f, <2>1, PipeFrame
<1>p. PICK p \in Path : p = f.path
  BY <1>4
<1>o. PICK off \in Nat : off = f.offset
  BY <1>4
<1>n. PICK n \in Nat : n = Len(f.data)
  BY <1>4
<1>s. PICK s \in Seq(Block) : s = sent[p].data
  BY <1>1, SentType
<1>5. ChunkOK(Pipe, 1)
  BY <1>1, <1>3 DEF ChunkInv
<1>6. /\ Ends(f) = off + n /\ off + n <= Len(s)
      /\ f.data = SubSeq(s, off + 1, off + n)
      /\ f.isLast <=> off + n >= Len(sent[p].seen)
  BY <1>3, <1>4, <1>5, <1>f, <1>n, <1>o, <1>p, <1>s DEF ChunkOK, Ends
<1>7. /\ Truncated(local[p].data, off) = SubSeq(s, 1, off)
      /\ p \in done => off + n >= Len(sent[p].seen)
  <2>1. CASE off = 0
    <3>1. Truncated(local[p].data, off) = <<>> /\ SubSeq(s, 1, off) = <<>>
      BY <2>1, SubSeqEmpty DEF Truncated
    <3>2. p \notin done
      BY <1>3, <1>4, <1>5, <1>f, <1>o, <1>p, <2>1 DEF ChunkOK
    <3> QED
      BY <3>1, <3>2
  <2>2. CASE off # 0
    <3>1. HoldsAfter(Pipe, 1 - 1, p, off)
      BY <1>3, <1>4, <1>5, <1>f, <1>o, <1>p, <2>2 DEF ChunkOK
    <3>2. /\ local[p] = [kind |-> "file", data |-> SubSeq(s, 1, off)]
          /\ p \in done <=> off >= Len(sent[p].seen)
      BY <1>s, <3>1 DEF HoldsAfter
    <3>3. Truncated(local[p].data, off) = SubSeq(s, 1, off)
      BY <2>2, <3>2 DEF Truncated
    <3>4. off >= Len(sent[p].seen) => off + n >= Len(sent[p].seen)
      BY <1>1, SentType
    <3> QED
      BY <3>2, <3>3, <3>4
  <2> QED
    BY <2>1, <2>2
<1>8. Written(f) = [kind |-> "file", data |-> SubSeq(s, 1, off + n)]
  <2>1. Overlay(SubSeq(s, 1, off), off, SubSeq(s, off + 1, off + n)) = SubSeq(s, 1, off + n)
    BY <1>6, OverlayGoesOn
  <2>2. Overlay(Truncated(local[p].data, off), off, f.data) = SubSeq(s, 1, off + n)
    BY <1>6, <1>7, <2>1
  <2> QED
    BY <1>o, <1>p, <2>2 DEF Written
<1>9. /\ \A q \in Path : q # p => local'[q] = local[q] /\ (q \in done' <=> q \in done)
      /\ local'[p] = Written(f)
  BY <1>1, <1>2, <1>f, <1>p DEF TypeOK, PullerTypeOK
<1>10. p \in done' <=> f.isLast \/ p \in done
  BY <1>2, <1>f, <1>p
<1>11. p \in done' <=> off + n >= Len(sent[p].seen)
  BY <1>6, <1>7, <1>10
<1> QED
  BY <1>4, <1>6, <1>8, <1>9, <1>11, <1>f, <1>p, <1>s DEF HeadHandled

-----------------------------------------------------------------------------
(* Every step keeps the contents in order. *)
LEMMA HeadOwed ==
  ASSUME PullInv, Running, toClient # <<>>, OfFile(Head(toClient))
  PROVE  Head(toClient).path \in Owed /\ Head(toClient).path \in Path
<1>1. TypeOK /\ ClientStreamInv
  BY DEF PullInv, TypeInv, AccountInv
<1>2. Head(toClient) = toClient[1] /\ 1 \in 1..Len(toClient)
  BY <1>1, Shifted DEF TypeOK, WireTypeOK
<1>3. Head(toClient).path \in Path
  BY <1>1, <1>2, FilePaths DEF TypeOK, WireTypeOK
<1> QED
  BY <1>1, <1>2, <1>3 DEF ClientStreamInv, OnWire

LEMMA FetchedKept ==
  ASSUME TypeOK, AckedInv, UNCHANGED <<sent, unsteady, acked>>,
         \A p \in acked : local'[p] = local[p] /\ (p \in done' <=> p \in done)
  PROVE  AckedInv'
BY DEF AckedInv, Whole

LEMMA PullerKeepsContent ==
  ASSUME PullInv, PullInv', ContentInv, PullerStep
  PROVE  ContentInv'
<1>1. /\ PullerNext /\ UNCHANGED <<sessionVars, disk>>
      /\ UNCHANGED <<spc, queue, cur, sent, unsteady>>
  BY DEF PullerStep, sessionVars
<1>2. /\ Running /\ TypeOK /\ TypeOK' /\ PendingInv /\ AckedInv
      /\ FreshInv /\ PipeInv(Pipe) /\ SteadyInv /\ RunningInv(Pipe)
  <2>1. Running
    BY <1>1 DEF PullerNext, Download, RequestListing, RecvListing, Scan, ScanDone,
                RequestBatch, RecvChunk, WriteFails, RecvBatchDone, RecvError,
                Receives, Render, RenderPanics, FinishPull, ConnLost, Running
  <2> QED
    BY <2>1 DEF ContentInv, PullInv, TypeInv, RunningInv
<1>3. SUFFICES AckedInv' /\ (Running' => RunningInv(Pipe)') /\ (~ Running' => PendingInv')
  BY PendingIsOwedNext DEF ContentInv, RunningInv
<1>4. CASE RequestListing \/ RequestBatch
  <2>1. /\ UNCHANGED <<toClient, wbuf, link, local, done, acked>>
        /\ cpc \in {"start", "batch"} /\ cpc' \in {"list", "recv"}
    BY <1>4 DEF RequestListing, RequestBatch
  <2>2. AckedInv'
    BY <1>1, <1>2, <2>1, FetchedKept
  <2>3. Running' /\ Resting /\ cpc # "recv"
    BY <2>1 DEF Running, Resting
  <2> QED
    BY <1>1, <1>2, <2>1, <2>2, <2>3, BetweenRequests
<1>5. CASE RecvListing \/ ScanDone \/ Render
  <2>1. /\ UNCHANGED <<toServer, local, done, acked>>
        /\ cpc # "recv" /\ cpc' \in {"scan", "batch", "failed"}
    BY <1>5 DEF RecvListing, ScanDone, Render, Return, wireVars
  <2>2. AckedInv'
    BY <1>1, <1>2, <2>1, FetchedKept
  <2>3. Running' => Resting'
    BY <2>1 DEF Running, Resting
  <2>4. PendingInv'
    BY <1>1, <1>2, <2>1 DEF PendingInv, Pending, Requested, Queued, Current
  <2> QED
    BY <1>2, <2>1, <2>2, <2>3, <2>4, BetweenRequests
<1>6. CASE Scan
  <2>1. cpc = "scan" /\ cpc' = "scan" /\ UNCHANGED <<done, acked>>
    BY <1>6 DEF Scan
  <2>2. acked = {}
    <3>1. acked \subseteq Asked /\ next = 1
      BY <1>2, <2>1 DEF PullInv, AccountInv, ListingInv
    <3> QED
      BY <3>1 DEF Asked
  <2>3. AckedInv'
    BY <2>1, <2>2 DEF AckedInv
  <2>4. Running' /\ Resting' /\ cpc # "recv"
    BY <2>1 DEF Running, Resting
  <2> QED
    BY <1>2, <2>1, <2>3, <2>4, BetweenRequests
<1>7. CASE FinishPull \/ RenderPanics \/ ConnLost \/ RecvError
  <2>1. /\ UNCHANGED <<toServer, local, done, acked>>
        /\ cpc' \in {"ok", "failed"}
    BY <1>7 DEF FinishPull, RenderPanics, ConnLost, RecvError, Return
  <2>2. AckedInv'
    BY <1>1, <1>2, <2>1, FetchedKept
  <2>3. PendingInv'
    BY <1>1, <1>2, <2>1 DEF PendingInv, Pending, Requested, Queued, Current
  <2> QED
    BY <2>1, <2>2, <2>3 DEF Running
<1>8. CASE WriteFails
  <2>1. /\ UNCHANGED <<toServer, done, acked>> /\ cpc' \in {"ok", "failed"}
        /\ toClient # <<>> /\ OfFile(Head(toClient))
        /\ \/ UNCHANGED local
           \/ \E e : local' = [local EXCEPT ![Head(toClient).path] = e]
    BY <1>8 DEF WriteFails, Receives, Return, OfFile
  <2>2. Head(toClient).path \notin acked
    BY <1>2, <2>1, HeadOwed DEF Owed
  <2>3. \A p \in acked : local'[p] = local[p]
    <3>1. \A p \in acked : p \in Path
      BY <1>2 DEF TypeOK, PullerTypeOK
    <3> QED
      BY <1>2, <2>1, <2>2, <3>1 DEF TypeOK, PullerTypeOK
  <2>4. AckedInv'
    BY <1>1, <1>2, <2>1, <2>3, FetchedKept
  <2>5. PendingInv'
    BY <1>1, <1>2, <2>1 DEF PendingInv, Pending, Requested, Queued, Current
  <2> QED
    BY <2>1, <2>4, <2>5 DEF Running
<1>9. CASE RecvChunk
  <2>1. /\ UNCHANGED <<toServer, wbuf, link, toDownload, next, cpc, acked>>
        /\ toClient # <<>> /\ toClient' = Tail(toClient)
        /\ OfFile(Head(toClient))
    BY <1>9 DEF RecvChunk, Receives, OfFile
  <2>2. HeadHandled
    BY <1>2, <1>9, ChunkWritten
  <2>3. RunningInv(Pipe)'
    BY <1>1, <1>2, <2>1, <2>2, FrameHandled
  <2>4. AckedInv'
    <3>1. \A p \in acked : p \in Path /\ p # Head(toClient).path
      BY <1>2, <2>1, HeadOwed DEF Owed, TypeOK, PullerTypeOK
    <3> QED
      BY <1>1, <1>2, <2>1, <2>2, <3>1, FetchedKept DEF HeadHandled
  <2>5. Running'
    BY <1>2, <2>1 DEF Running
  <2> QED
    BY <2>3, <2>4, <2>5
<1>10. CASE RecvBatchDone
  <2>1. /\ UNCHANGED <<toServer, wbuf, link, toDownload, next, local, done>>
        /\ toClient # <<>> /\ toClient' = Tail(toClient)
        /\ Head(toClient).type = "BatchDone"
        /\ cpc' \in {"recv", "render"}
        /\ acked' = acked \cup {Head(toClient).path}
    BY <1>10 DEF RecvBatchDone, Receives
  <2>2. IsAck(Head(toClient)) /\ OfFile(Head(toClient)) /\ ~ IsChunk(Head(toClient))
    BY <2>1 DEF IsAck, OfFile, IsChunk
  <2>3. HeadHandled
    BY <2>1, <2>2 DEF HeadHandled
  <2>4. RunningInv(Pipe)'
    BY <1>1, <1>2, <2>1, <2>2, <2>3, FrameHandled
  <2>5. PICK p \in Path : p = Head(toClient).path
    BY <1>2, <2>1, <2>2, HeadOwed
  <2>6. AckOK(Pipe, 1) /\ IsAck(Pipe[1]) /\ Pipe[1].path = p
    BY <1>1, <1>2, <2>1, <2>2, <2>5, PipeTaken DEF PipeInv, AckInv
  <2>7. /\ Whole(p)
        /\ sent[p].chunks > 0 => local[p] = [kind |-> "file", data |-> sent[p].data]
        /\ p \in done <=> sent[p].chunks > 0 /\ Len(sent[p].data) >= Len(sent[p].seen)
    <3>1. Whole(p)
      BY <2>6 DEF AckOK
    <3>2. CASE sent[p].chunks = 0
      BY <2>6, <3>1, <3>2 DEF AckOK
    <3>3. CASE sent[p].chunks # 0
      <4>1. HoldsAfter(Pipe, 1 - 1, p, Len(sent[p].data))
        BY <2>6, <3>3 DEF AckOK
      <4>2. SubSeq(sent[p].data, 1, Len(sent[p].data)) = sent[p].data
        BY <1>2, SentType, SubSeqFull
      <4>3. /\ local[p] = [kind |-> "file", data |-> sent[p].data]
            /\ p \in done <=> Len(sent[p].data) >= Len(sent[p].seen)
        BY <4>1, <4>2 DEF HoldsAfter
      <4>4. sent[p].chunks > 0
        BY <1>2, <3>3, SentType
      <4> QED
        BY <3>1, <4>3, <4>4
    <3> QED
      BY <3>2, <3>3
  <2>8. AckedInv'
    <3>1. \A q \in acked' : q \in acked \/ q = p
      BY <2>1, <2>5
    <3> QED
      BY <1>1, <1>2, <2>1, <2>7, <3>1 DEF AckedInv, Whole
  <2>9. Running'
    BY <2>1 DEF Running
  <2> QED
    BY <2>4, <2>8, <2>9
<1> QED
  BY <1>1, <1>4, <1>5, <1>6, <1>7, <1>8, <1>9, <1>10 DEF PullerNext, Download

(* Somebody edits a file, or the connection breaks.                         *)
LEMMA WorldKeepsContent ==
  ASSUME PullInv, PullInv', ContentInv, Edit \/ Break \/ UNCHANGED vars
  PROVE  ContentInv'
<1>1. /\ UNCHANGED <<toServer, toClient, wbuf, spc, queue, cur, sent, cpc, next,
                     toDownload, local, done, acked>>
      /\ unsteady \subseteq unsteady'
      /\ (UNCHANGED link) \/ (link' = "down" /\ UNCHANGED <<disk, unsteady>>)
  BY DEF Edit, Break, vars, wireVars, sessionVars, pullerVars
<1>2. TypeOK /\ TypeOK' /\ PendingInv /\ AckedInv
  BY DEF PullInv, TypeInv, ContentInv
<1>3. PendingInv' /\ AckedInv'
  BY <1>1, <1>2 DEF PendingInv, Pending, Requested, Queued, Current, AckedInv, Whole
<1>4. ASSUME Running PROVE RunningInv(Pipe)'
  <2>1. /\ BufferInv /\ LinkInv /\ FreshInv /\ SteadyInv
        /\ ChunkInv(Pipe) /\ AckInv(Pipe) /\ UnsentInv(Pipe) /\ FramedInv(Pipe)
    BY <1>4 DEF PullInv, AccountInv, ContentInv, PipeInv
  <2>2. FilesKept
    <3>1. \A p \in Path : Grew(p)
      BY <1>1, <1>2, SameGrew
    <3> QED
      BY <1>1, <3>1 DEF FilesKept
  <2>3. FreshInv'
    BY <1>1, <2>1 DEF FreshInv, Asked, Requested, Queued
  <2>4. PipeInv(Pipe)'
    <3>1. CASE UNCHANGED link
      <4>1. Pipe' = Pipe
        BY <1>1, <3>1 DEF Pipe
      <4>2. ErrorMessage(404) \in Frame
        BY FrameTypes
      <4>3. ChunkInv(Pipe)' /\ AckInv(Pipe)'
        BY <1>2, <2>1, <2>2, <4>1, <4>2, StreamContinues
      <4>4. UnsentInv(Pipe)'
        BY <1>1, <2>1, <4>1 DEF UnsentInv, OnPipe, OfFile
      <4>5. FramedInv(Pipe)'
        BY <1>1, <2>1, <3>1, <4>1 DEF FramedInv, HoldsAfter, IsChunk, Ends
      <4> QED
        BY <4>3, <4>4, <4>5 DEF PipeInv
    <3>2. CASE link' = "down"
      <4>1. \A i \in 1..Len(Pipe') : i \in 1..Len(Pipe) /\ Pipe'[i] = Pipe[i]
        BY <1>1, <1>2, <3>2, PipeCut
      <4>2. Len(Pipe) \in Nat /\ Len(Pipe') \in Nat
        <5>1. Pipe' = toClient' /\ toClient' \in Seq(Frame)
          BY <1>2, <3>2 DEF Pipe, TypeOK, WireTypeOK
        <5> QED
          BY <1>2, <5>1, PipeType, LenProperties
      <4>3. PICK n \in Nat : n = Len(Pipe')
        BY <4>2
      <4>4. n <= Len(Pipe)
        <5>1. CASE n = 0
          BY <4>2, <5>1
        <5>2. CASE n # 0
          <6>1. n \in 1..n
            BY <5>2
          <6>2. n \in 1..Len(Pipe)
            BY <4>1, <4>3, <6>1
          <6> QED
            BY <4>2, <6>2
        <5> QED
          BY <5>1, <5>2
      <4>5. \A i \in 1..n : ChunkOK(Pipe, i)' /\ AckOK(Pipe, i)'
        BY <1>2, <2>1, <2>2, <4>1, <4>3, <4>4, FramesKept
      <4>6. ChunkInv(Pipe)' /\ AckInv(Pipe)'
        BY <4>3, <4>5 DEF ChunkInv, AckInv
      <4>7. UnsentInv(Pipe)'
        BY <1>1, <2>1, <4>1 DEF UnsentInv, OnPipe, OfFile
      <4>8. FramedInv(Pipe)'
        BY <1>1, <2>1, <3>2 DEF FramedInv
      <4> QED
        BY <4>6, <4>7, <4>8 DEF PipeInv
    <3> QED
      BY <1>1, <3>1, <3>2
  <2>5. SteadyInv'
    <3>1. ASSUME cur # NoJob, cur.path \notin unsteady', spc \in {"open", "send"}
          PROVE  Found'.data = Found.data
      <4>1. CASE UNCHANGED disk
        BY <1>1, <4>1 DEF Found
      <4>2. CASE Edit
        <5>1. PICK d \in Dir, p \in Path, e \in EditEntries :
                /\ disk' = [disk EXCEPT ![d][p] = e]
                /\ unsteady' = IF BeingSent(p) THEN unsteady \cup {p} ELSE unsteady
          BY <4>2 DEF Edit
        <5>2. p # cur.path
          BY <3>1, <5>1 DEF BeingSent
        <5>3. cur.path \in Path /\ cur.found \in Dir
          BY <1>2, <3>1, JobAtHand DEF Job
        <5>4. disk'[cur.found][cur.path] = disk[cur.found][cur.path]
          BY <1>2, <5>1, <5>2, <5>3 DEF TypeOK, SessionTypeOK
        <5> QED
          BY <1>1, <5>4 DEF Found
      <4> QED
        BY <1>1, <4>1, <4>2 DEF Break, vars
    <3> QED
      BY <1>1, <2>1, <3>1 DEF SteadyInv, Whole
  <2> QED
    BY <2>3, <2>4, <2>5 DEF RunningInv
<1>5. Running' <=> Running
  BY <1>1 DEF Running
<1> QED
  BY <1>3, <1>4, <1>5 DEF ContentInv, RunningInv

LEMMA ContentInit == Init => ContentInv
<1> SUFFICES ASSUME Init PROVE ContentInv
  OBVIOUS
<1>1. /\ toServer = <<>> /\ toClient = <<>> /\ wbuf = <<>> /\ link = "up"
      /\ spc = "decode" /\ queue = <<>> /\ cur = NoJob /\ acked = {} /\ done = {}
  BY DEF Init, WireInit, SessionInit, PullerInit
<1>2. Pipe = <<>> /\ Len(Pipe) = 0
  BY <1>1, EmptySeq, ConcatEmptySeq DEF Pipe
<1>3. PendingInv /\ AckedInv
  BY <1>1 DEF PendingInv, AckedInv
<1>4. FreshInv
  <2>1. Len(toServer) = 0 /\ Len(queue) = 0
    BY <1>1, EmptySeq
  <2> QED
    BY <1>1, <2>1 DEF FreshInv
<1>5. PipeInv(Pipe)
  <2>1. ChunkInv(Pipe) /\ AckInv(Pipe)
    <3>1. \A i \in 1..Len(Pipe) : FALSE
      BY <1>2
    <3> QED
      BY <3>1 DEF ChunkInv, AckInv
  <2> QED
    BY <1>1, <2>1 DEF PipeInv, UnsentInv, FramedInv
<1>6. SteadyInv
  BY <1>1 DEF SteadyInv
<1> QED
  BY <1>3, <1>4, <1>5, <1>6 DEF ContentInv

LEMMA ContentStep == PullInv /\ PullInv' /\ ContentInv /\ [Next]_vars => ContentInv'
<1> SUFFICES ASSUME PullInv, PullInv', ContentInv, [Next]_vars PROVE ContentInv'
  OBVIOUS
<1>1. TypeOK /\ TypeOK' /\ PendingInv /\ AckedInv
  BY DEF PullInv, TypeInv, ContentInv
<1>2. CASE SessionStep
  <2>1. PendingInv' /\ AckedInv'
    BY <1>1, <1>2, SessionLeavesFetched
  <2>2. Running' <=> Running
    BY <1>2 DEF SessionStep, pullerVars, Running
  <2>3. Running => RunningInv(Pipe)'
    BY <1>1, <1>2, SessionKeepsContent DEF ContentInv, RunningInv
  <2> QED
    BY <2>1, <2>2, <2>3 DEF ContentInv, RunningInv
<1>3. CASE PullerStep
  BY <1>3, PullerKeepsContent
<1>4. CASE Edit \/ Break \/ UNCHANGED vars
  BY <1>4, WorldKeepsContent
<1> QED
  BY <1>2, <1>3, <1>4 DEF Next, Finished

(* What every file that was acknowledged holds, on both sides.              *)
THEOREM ContentInvariant == Spec => []ContentInv
BY PullInvariant, ContentInit, ContentStep, PTL DEF Spec

-----------------------------------------------------------------------------
(* Of every file that was acknowledged the client holds the very bytes the  *)
(* server framed, in order, whatever was in its place before.               *)
THEOREM HoldsWhatWasSent == Spec => []LocalHoldsWhatWasSent
<1>1. ContentInv => LocalHoldsWhatWasSent
  BY DEF ContentInv, AckedInv, LocalHoldsWhatWasSent
<1> QED
  BY <1>1, ContentInvariant, PTL

(* A file that nobody edited between its stat and its last chunk arrives as *)
(* stat saw it, however it was cut into chunks.                             *)
THEOREM ArrivesWhole == Spec => []UnchangedFileArrivesWhole
<1>1. ContentInv => UnchangedFileArrivesWhole
  BY DEF ContentInv, AckedInv, Whole, UnchangedFileArrivesWhole
<1> QED
  BY <1>1, ContentInvariant, PTL

(* Progress counts a file as done exactly when all the bytes that its stat  *)
(* promised were sent.                                                      *)
THEOREM DoneIsWhole == Spec => []DoneMeansWhole
<1>1. ContentInv => DoneMeansWhole
  BY DEF ContentInv, AckedInv, DoneMeansWhole
<1> QED
  BY <1>1, ContentInvariant, PTL

-----------------------------------------------------------------------------
(* Which entry is sent.  A listing is answered before any path is on its    *)
(* way, and the paths on their way are those it listed.                     *)
Unlisted == \E k \in 1..Len(toServer) : toServer[k].type = "ListRequest"

UnlistedInv == Unlisted => Len(toServer) = 1 /\ queue = <<>> /\ cur = NoJob

OnServer(p) == Requested(p) \/ Queued(p)

OnClient(p) ==
  \/ \E i \in 1..Len(toClient) :
       toClient[i].type = "ListResponse" /\ \E fi \in toClient[i].files : fi.path = p
  \/ \E fi \in unscanned : fi.path = p
  \/ \E i \in 1..Len(toDownload) : toDownload[i] = p

ListedInv ==
  edits = 0 =>
    \A p \in Path : OnServer(p) \/ (Running /\ OnClient(p)) =>
      listRoot # NoDir /\ LstatFinds(listRoot, p)

OriginInv == UnlistedInv /\ ListedInv /\ StraysOnlyAfterEditOrByDeadLink

(* The order in which resolveFilePath looks begins with the listed root.    *)
LEMMA ListedRootFirst ==
  ASSUME TypeOK, listRoot # NoDir, NEW p \in Path, StatFinds(listRoot, p),
         NEW d, ResolvesTo(p, d)
  PROVE  d = listRoot
<1>1. listRoot \in Dir /\ RootDirs \in Seq(Dir) /\ <<listRoot>> \in Seq(Dir)
  BY SessionAssumption DEF TypeOK, SessionTypeOK
<1>2. SearchOrder = <<listRoot>> \o RootDirs
  BY DEF SearchOrder
<1>3. /\ SearchOrder[1] = listRoot /\ Len(SearchOrder) \in Nat
      /\ Len(SearchOrder) = 1 + Len(RootDirs)
  <2>1. /\ Len(<<listRoot>>) = 1 /\ <<listRoot>>[1] = listRoot /\ Len(RootDirs) \in Nat
    BY <1>1, LenProperties
  <2>2. 1 \in 1..Len(<<listRoot>>) + Len(RootDirs)
    BY <2>1
  <2> QED
    BY <1>1, <1>2, <2>1, <2>2, ConcatProperties
<1>4. PICK i \in 1..Len(SearchOrder) :
        /\ SearchOrder[i] = d
        /\ \A j \in 1..(i - 1) : ~ StatFinds(SearchOrder[j], p)
  BY DEF ResolvesTo
<1>5. i = 1
  <2>1. ASSUME i # 1 PROVE FALSE
    <3>1. 1 \in 1..(i - 1)
      BY <1>3, <2>1
    <3> QED
      BY <1>3, <1>4, <3>1
  <2> QED
    BY <2>1
<1> QED
  BY <1>3, <1>4, <1>5

LEMMA UnlistedKept ==
  ASSUME PullInv, PullInv', UnlistedInv, [Next]_vars
  PROVE  UnlistedInv'
<1>1. TypeOK /\ TypeOK'
  BY DEF PullInv, TypeInv
<1>2. CASE Running'
  <2>1. SUFFICES ASSUME Unlisted' PROVE UnlistedInv'
    BY DEF UnlistedInv
  <2>2. /\ TurnsInv' /\ SessionInv' /\ CountInv'
    BY <1>2 DEF PullInv, AccountInv
  <2>3. Len(toServer') \in Nat /\ Len(toServer') # 0
    <3>1. Len(toServer') \in Nat
      BY <1>1, LenProperties DEF TypeOK, WireTypeOK
    <3>2. PICK k \in 1..Len(toServer') : TRUE
      BY <2>1 DEF Unlisted
    <3> QED
      BY <3>1, <3>2
  <2>4. Len(toServer') = 1
    <3>1. Len(toServer') <= 1
      BY <2>2 DEF TurnsInv
    <3>2. PICK n \in Nat : n = Len(toServer')
      BY <2>3
    <3>3. n <= 1 /\ n # 0
      BY <2>3, <3>1, <3>2
    <3>4. n = 1
      BY <3>3
    <3> QED
      BY <3>2, <3>4
  <2>5. cpc' # "recv"
    BY <2>1, <2>2 DEF TurnsInv, Unlisted
  <2>6. Owed' = {}
    BY <2>2, <2>5 DEF CountInv
  <2>7. queue' = <<>> /\ cur' = NoJob
    <3>1. \A i \in 1..Len(queue') : FALSE
      BY <2>2, <2>6 DEF SessionInv
    <3>2. queue' \in Seq(Path)
      BY <1>1 DEF TypeOK, SessionTypeOK
    <3>3. queue' = <<>>
      BY <3>1, <3>2, FirstOf
    <3>4. cur' = NoJob
      BY <2>2, <2>6 DEF SessionInv
    <3> QED
      BY <3>3, <3>4
  <2> QED
    BY <2>4, <2>7 DEF UnlistedInv
<1>3. CASE ~ Running' /\ UNCHANGED <<toServer, queue, cur>>
  BY <1>3 DEF UnlistedInv, Unlisted
<1>4. CASE ~ Running' /\ ~ UNCHANGED <<toServer, queue, cur>>
  <2>1. SessionStep
    <3>1. CASE PullerStep
      <4>1. UNCHANGED <<queue, cur>>
        BY <3>1 DEF PullerStep, sessionVars
      <4>2. UNCHANGED toServer
        BY <1>4, <3>1 DEF PullerStep, PullerNext, Download, RequestListing, RecvListing,
           Scan, ScanDone, RequestBatch, RecvChunk, WriteFails, RecvBatchDone, RecvError,
           Render, RenderPanics, FinishPull, ConnLost, Running, wireVars
      <4> QED
        BY <1>4, <4>1, <4>2
    <3>2. CASE Edit \/ Break \/ UNCHANGED vars
      BY <1>4, <3>2 DEF Edit, Break, vars, wireVars, sessionVars
    <3> QED
      BY <3>1, <3>2 DEF Next, Finished
  <2>2. SUFFICES ASSUME Unlisted' PROVE FALSE
    BY DEF UnlistedInv
  <2>3. toServer \in Seq(Request) /\ toServer' \in Seq(Request)
    BY <1>1 DEF TypeOK, WireTypeOK
  <2>4. PICK k \in 1..Len(toServer') : toServer'[k].type = "ListRequest"
    BY <2>2 DEF Unlisted
  <2>5. ASSUME toServer # <<>>, toServer' = Tail(toServer) PROVE FALSE
    <3>1. /\ Len(toServer') = Len(toServer) - 1
          /\ k + 1 \in 1..Len(toServer) /\ toServer'[k] = toServer[k + 1]
      BY <2>3, <2>5, Shifted
    <3>2. Unlisted
      BY <2>4, <3>1 DEF Unlisted
    <3>3. Len(toServer) = 1
      BY <3>2 DEF UnlistedInv
    <3> QED
      BY <3>1, <3>3
  <2>6. UNCHANGED toServer /\ ~ HandleList /\ ~ HandleDownload
    BY <2>1, <2>5 DEF SessionStep, SessionNext, SendFile, HandleList, HandleDownload,
         Decodes, BatchHandled, FileMissing, ResolveFile, StatFails, SkipDirectory,
         StatFile, OpenFile, SendEmptyFile, SendChunk, SendStops, SendFails,
         FinishFile, SessionEnds, wireVars
  <2>7. Unlisted
    BY <2>2, <2>6 DEF Unlisted
  <2>8. queue = <<>> /\ cur = NoJob
    BY <2>7 DEF UnlistedInv
  <2>9. spc \notin {"stat", "open", "send", "close"}
    BY <1>1, <2>8, JobAtHand
  <2>10. BatchHandled \/ SessionEnds
    BY <2>1, <2>6, <2>8, <2>9 DEF SessionStep, SessionNext, SendFile, FileMissing,
         ResolveFile, StatFails, SkipDirectory, StatFile, OpenFile, SendEmptyFile,
         SendChunk, SendStops, SendFails, FinishFile
  <2> QED
    BY <1>4, <2>6, <2>10 DEF BatchHandled, SessionEnds
<1> QED
  BY <1>2, <1>3, <1>4

(* Nothing but handleList sends a listing. *)
LEMMA ListingsOld ==
  ASSUME PullInv, TypeOK', Running, SessionNext, ~ HandleList,
         NEW i \in 1..Len(toClient'), toClient'[i].type = "ListResponse"
  PROVE  \E j \in 1..Len(toClient) : toClient'[i] = toClient[j]
<1>1. /\ TypeOK /\ BufferInv /\ WriterTypeOK
      /\ Len(toClient) \in Nat /\ Len(toClient') \in Nat
  BY WireSplit, PipeType, LenProperties
  DEF PullInv, TypeInv, AccountInv, TypeOK, WireTypeOK
<1>2. SUFFICES \E m : Grows(m) /\ m.type # "ListResponse"
  <2>1. PICK m : Grows(m) /\ m.type # "ListResponse"
    BY <1>2
  <2>2. CASE i \in 1..Len(toClient)
    BY <2>1, <2>2 DEF Grows
  <2>3. CASE i \in Len(toClient) + 1..Len(toClient')
    BY <2>1, <2>3 DEF Grows
  <2> QED
    BY <1>1, <2>2, <2>3
<1>3. CASE UNCHANGED toClient
  <2>1. ErrorMessage(404).type # "ListResponse"
    BY DEF ErrorMessage
  <2> QED
    BY <1>1, <1>3, <2>1, StaysGrows
<1>4. CASE FileMissing \/ StatFails \/ SendFails
  <2>1. PICK c \in {404, 500} : Report(c)
    BY <1>4 DEF FileMissing, StatFails, SendFails
  <2>2. Grows(ErrorMessage(c)) /\ ErrorMessage(c).type # "ListResponse"
    BY <1>1, <2>1, ReportGrows DEF ErrorMessage
  <2> QED
    BY <2>2
<1>5. ASSUME NEW f \in Frame, f.type = "DataChunk", cur # NoJob, f.path = cur.path,
             WriteChunk(f)
      PROVE  Grows(f) /\ f.type # "ListResponse"
  BY <1>1, <1>5, ChunkGrows DEF Current
<1>6. CASE SendEmptyFile
  <2>1. /\ cur # NoJob /\ cur.path \in Path
        /\ WriteChunk(DataChunk(cur.path, 0, <<>>, TRUE))
    BY <1>1, <1>6, JobAtHand DEF SendEmptyFile
  <2>2. PICK f \in Frame : f = DataChunk(cur.path, 0, <<>>, TRUE)
    <3>1. <<>> \in Seq(Block)
      BY EmptySeq
    <3> QED
      BY <2>1, <3>1, FrameTypes
  <2>3. f.type = "DataChunk" /\ f.path = cur.path
    BY <2>2 DEF DataChunk
  <2> QED
    BY <1>5, <2>1, <2>2, <2>3
<1>7. CASE SendChunk
  <2>1. /\ cur # NoJob /\ cur \in Job /\ cur.path \in Path
        /\ cur.offset \in Nat /\ cur.size \in Nat
    BY <1>1, <1>7, JobAtHand DEF SendChunk
  <2>2. Opened.data \in Seq(Block)
    BY <1>1, <2>1 DEF Opened, TypeOK, SessionTypeOK, Entry, Job
  <2>3. PICK d \in Seq(Block) : d = ReadAt(Opened.data, cur.offset, cur.size)
    BY <2>1, <2>2, ReadAtType
  <2>4. WriteChunk(DataChunk(cur.path, cur.offset, d, IsLast(cur.offset + Len(d))))
    BY <1>7, <2>3 DEF SendChunk
  <2>5. PICK f \in Frame : f = DataChunk(cur.path, cur.offset, d, IsLast(cur.offset + Len(d)))
    <3>1. IsLast(cur.offset + Len(d)) \in BOOLEAN
      BY DEF IsLast
    <3> QED
      BY <2>1, <3>1, FrameTypes
  <2>6. f.type = "DataChunk" /\ f.path = cur.path
    BY <2>5 DEF DataChunk
  <2> QED
    BY <1>5, <2>1, <2>4, <2>5, <2>6
<1>8. CASE FinishFile
  <2>1. PICK p \in Path : p = cur.path
    BY <1>1, <1>8, JobAtHand DEF FinishFile
  <2>2. CASE Encode(BatchDone(cur.path))
    <3>1. BatchDone(p) \in Frame /\ BatchDone(p).type # "ListResponse"
      BY FrameTypes DEF BatchDone
    <3>2. Grows(BatchDone(p))
      BY <1>1, <2>1, <2>2, <3>1, EncodeGrows
    <3> QED
      BY <3>1, <3>2
  <2>3. CASE EncodeFails
    BY <1>3, <2>3 DEF EncodeFails
  <2> QED
    BY <1>8, <2>2, <2>3 DEF FinishFile
<1> QED
  BY <1>3, <1>4, <1>6, <1>7, <1>8 DEF SessionNext, SendFile, HandleDownload, BatchHandled,
     ResolveFile, SkipDirectory, StatFile, OpenFile, SendStops, SessionEnds, wireVars

(* The paths of a listing stand below the directory that was listed.        *)
LEMMA ListedThere ==
  ASSUME PullInv, TypeOK', UnlistedInv, HandleList, UNCHANGED <<pullerVars, disk>>,
         NEW p \in Path, OnServer(p)' \/ (Running /\ OnClient(p)')
  PROVE  listRoot' # NoDir /\ LstatFinds(listRoot, p)'
<1>1. TypeOK
  BY DEF PullInv, TypeInv
<1>2. /\ toServer # <<>> /\ Head(toServer).type = "ListRequest"
      /\ toServer' = Tail(toServer) /\ UNCHANGED <<queue, cur>>
  BY DEF HandleList, Decodes
<1>3. /\ Head(toServer) = toServer[1] /\ 1 \in 1..Len(toServer)
      /\ toServer[1] \in Request /\ Len(toServer') = Len(toServer) - 1
  BY <1>1, <1>2, Shifted DEF TypeOK, WireTypeOK
<1>4. Len(toServer) = 1 /\ queue = <<>> /\ cur = NoJob
  BY <1>2, <1>3 DEF UnlistedInv, Unlisted
<1>5. ~ OnServer(p)'
  <2>1. Len(toServer') = 0 /\ Len(queue') = 0
    BY <1>2, <1>3, <1>4, EmptySeq
  <2> QED
    BY <2>1 DEF OnServer, Requested, Queued
<1>6. Running /\ OnClient(p)'
  BY <1>5
<1>7. /\ TurnsInv /\ ListingInv /\ BufferInv /\ WriterTypeOK
  BY <1>1, <1>6, WireSplit DEF PullInv, AccountInv, TypeOK
<1>8. cpc = "list"
  <2>1. cpc \in {"list", "recv", "ok", "failed"}
    BY <1>1, <1>2, <1>7, TakenRequest
  <2>2. cpc # "recv"
    BY <1>2, <1>3, <1>7 DEF TurnsInv
  <2> QED
    BY <1>6, <2>1, <2>2 DEF Running
<1>9. toClient = <<>> /\ unscanned = {} /\ toDownload = <<>>
  BY <1>2, <1>7, <1>8 DEF TurnsInv, ListingInv
<1>10. PICK i \in 1..Len(toClient') :
         toClient'[i].type = "ListResponse" /\ \E fi \in toClient'[i].files : fi.path = p
  <2>1. unscanned' = {} /\ Len(toDownload') = 0
    BY <1>9, EmptySeq DEF pullerVars
  <2> QED
    BY <1>6, <2>1 DEF OnClient
<1>11. ASSUME NEW m \in Frame, Reply(m)
       PROVE  toClient'[i] = m
  <2>1. CASE Encode(m)
    <3>1. Grows(m) /\ Len(toClient) = 0
      BY <1>7, <1>9, <2>1, EncodeGrows, EmptySeq
    <3>2. i \in Len(toClient) + 1..Len(toClient')
      BY <3>1
    <3> QED
      BY <1>10, <3>1, <3>2 DEF Grows
  <2>2. CASE EncodeFails
    BY <1>9, <1>10, <2>2, EmptySeq DEF EncodeFails
  <2> QED
    BY <1>11, <2>1, <2>2 DEF Reply
<1>12. \A c \in {404, 500} : ErrorMessage(c) \in Frame /\ ErrorMessage(c).type # "ListResponse"
  BY FrameTypes DEF ErrorMessage
<1>13. PICK root \in Dir \cup {NoDir} : root = Head(toServer).root
  BY <1>2, <1>3 DEF Request
<1>14. root # NoDir
  BY <1>10, <1>11, <1>12, <1>13 DEF HandleList
<1>15. ListResponse(Walk(root)) \in Frame
  BY <1>1, <1>14, WalkType, FrameTypes DEF TypeOK
<1>16. listRoot' = root /\ (Reply(ListResponse(Walk(root))) \/ Reply(ErrorMessage(500)))
  BY <1>13, <1>14 DEF HandleList
<1>17. toClient'[i] = ListResponse(Walk(root))
  BY <1>10, <1>11, <1>12, <1>15, <1>16
<1>18. LstatFinds(root, p)
  BY <1>10, <1>17 DEF ListResponse, Walk
<1> QED
  BY <1>14, <1>16, <1>18 DEF LstatFinds

LEMMA ListedKept ==
  ASSUME PullInv, TypeOK', UnlistedInv, ListedInv, [Next]_vars
  PROVE  ListedInv'
<1>1. TypeOK
  BY DEF PullInv, TypeInv
<1> SUFFICES ASSUME edits' = 0, NEW p \in Path, OnServer(p)' \/ (Running' /\ OnClient(p)')
             PROVE  listRoot' # NoDir /\ LstatFinds(listRoot, p)'
  BY DEF ListedInv
<1>2. CASE SessionStep
  <2>1. /\ SessionNext /\ UNCHANGED <<pullerVars, disk, edits>>
        /\ UNCHANGED <<cpc, unscanned, toDownload>>
    BY <1>2 DEF SessionStep, pullerVars
  <2>2. Running' <=> Running
    BY <2>1 DEF Running
  <2>3. CASE HandleList
    BY <2>1, <2>2, <2>3, ListedThere
  <2>4. CASE ~ HandleList
    <3>1. OnServer(p)' => OnServer(p)
      BY <1>1, <2>1, PathsMoveOn DEF OnServer
    <3>2. Running /\ OnClient(p)' => OnClient(p)
      BY <2>1, <2>4, ListingsOld DEF OnClient
    <3>3. listRoot' = listRoot
      BY <2>1, <2>4 DEF SessionNext, SendFile, HandleDownload, BatchHandled, FileMissing,
         ResolveFile, StatFails, SkipDirectory, StatFile, OpenFile, SendEmptyFile,
         SendChunk, SendStops, SendFails, FinishFile, SessionEnds
    <3> QED
      BY <2>1, <2>2, <3>1, <3>2, <3>3 DEF ListedInv, LstatFinds
  <2> QED
    BY <2>3, <2>4
<1>3. CASE PullerStep
  <2>1. /\ PullerNext /\ UNCHANGED <<disk, edits, listRoot, queue>>
    BY <1>3 DEF PullerStep, sessionVars
  <2>2. Running
    BY <2>1 DEF PullerNext, Download, RequestListing, RecvListing, Scan, ScanDone,
                RequestBatch, RecvChunk, WriteFails, RecvBatchDone, RecvError,
                Receives, Render, RenderPanics, FinishPull, ConnLost, Running
  <2>3. toServer \in Seq(Request) /\ toClient \in Seq(Frame) /\ toDownload \in Seq(Path)
    BY <1>1 DEF TypeOK, WireTypeOK, PullerTypeOK
  <2>4. OnServer(p)' => OnServer(p) \/ OnClient(p)
    <3>1. CASE RequestBatch
      <4>1. next <= Len(toDownload) /\ SendRequest(DownloadReq(Batch))
        BY <3>1 DEF RequestBatch
      <4>2. \A i \in 1..Len(Batch) : \E j \in 1..Len(toDownload) : Batch[i] = toDownload[j]
        <5>1. /\ Batch \in Seq(Path) /\ BatchEnd \in Nat /\ next \in Nat \ {0}
              /\ next <= BatchEnd /\ BatchEnd <= Len(toDownload)
              /\ Len(toDownload) \in Nat
          BY <1>1, <2>3, <4>1, BatchBounds, LenProperties DEF TypeOK, PullerTypeOK
        <5>2. \A i \in next..BatchEnd : toDownload[i] \in Path
          BY <2>3, <5>1, ElementOfSeq
        <5>3. PICK e \in Nat : e = BatchEnd /\ next <= e /\ e <= Len(toDownload)
          BY <5>1
        <5>4. /\ Len(Batch) = e - next + 1
              /\ \A i \in 1..e - next + 1 : Batch[i] = toDownload[next + i - 1]
          BY <2>3, <5>1, <5>2, <5>3, SubSeqProperties DEF Batch
        <5>5. ASSUME NEW i \in 1..Len(Batch)
              PROVE  \E j \in 1..Len(toDownload) : Batch[i] = toDownload[j]
          <6>1. next + i - 1 \in 1..Len(toDownload)
            BY <5>1, <5>3, <5>4, <5>5
          <6> QED
            BY <5>4, <5>5, <6>1
        <5> QED
          BY <5>5
      <4>3. CASE toServer' = toServer
        BY <2>1, <4>3 DEF OnServer, Requested, Queued
      <4>4. CASE toServer' = Append(toServer, DownloadReq(Batch))
        <5>1. DownloadReq(Batch) \in Request
          BY <1>1, <4>1, BatchBounds, RequestTypes DEF TypeOK
        <5>2. /\ Len(toServer') = Len(toServer) + 1 /\ Len(toServer) \in Nat
              /\ \A k \in 1..Len(toServer) : toServer'[k] = toServer[k]
              /\ toServer'[Len(toServer) + 1] = DownloadReq(Batch)
          BY <2>3, <4>4, <5>1, AppendProperties, LenProperties
        <5>3. \A k \in 1..Len(toServer') : k \in 1..Len(toServer) \/ k = Len(toServer) + 1
          BY <5>2
        <5>4. DownloadReq(Batch).files = Batch
          BY DEF DownloadReq
        <5> QED
          BY <2>1, <4>2, <5>2, <5>3, <5>4 DEF OnServer, OnClient, Requested, Queued
      <4> QED
        BY <4>1, <4>3, <4>4 DEF SendRequest
    <3>2. CASE RequestListing
      <4>1. PICK root \in Dir \cup {NoDir} : SendRequest(ListRequest(root))
        BY <3>2 DEF RequestListing
      <4>2. ListRequest(root) \in Request /\ ListRequest(root).type # "DownloadReq"
        BY RequestTypes DEF ListRequest
      <4>3. CASE toServer' = toServer
        BY <2>1, <4>3 DEF OnServer, Requested, Queued
      <4>4. CASE toServer' = Append(toServer, ListRequest(root))
        <5>1. /\ Len(toServer') = Len(toServer) + 1 /\ Len(toServer) \in Nat
              /\ \A k \in 1..Len(toServer) : toServer'[k] = toServer[k]
              /\ toServer'[Len(toServer) + 1] = ListRequest(root)
          BY <2>3, <4>2, <4>4, AppendProperties, LenProperties
        <5>2. \A k \in 1..Len(toServer') : k \in 1..Len(toServer) \/ k = Len(toServer) + 1
          BY <5>1
        <5> QED
          BY <2>1, <4>2, <5>1, <5>2 DEF OnServer, Requested, Queued
      <4> QED
        BY <4>1, <4>3, <4>4 DEF SendRequest
    <3>3. CASE ~ RequestBatch /\ ~ RequestListing
      <4>1. UNCHANGED toServer
        BY <2>1, <3>3 DEF PullerNext, Download, RecvListing, Scan, ScanDone, RecvChunk,
           WriteFails, RecvBatchDone, RecvError, Render, RenderPanics, FinishPull,
           ConnLost, wireVars
      <4> QED
        BY <2>1, <4>1 DEF OnServer, Requested, Queued
    <3> QED
      BY <3>1, <3>2, <3>3
  <2>5. OnClient(p)' => OnClient(p)
    <3>1. \/ toClient' = toClient
          \/ toClient # <<>> /\ toClient' = Tail(toClient)
      BY <2>1 DEF PullerNext, Download, RequestListing, RecvListing, Scan, ScanDone,
           RequestBatch, RecvChunk, WriteFails, RecvBatchDone, RecvError, Receives,
           Render, RenderPanics, FinishPull, ConnLost, wireVars
    <3>2. \A i \in 1..Len(toClient') : \E j \in 1..Len(toClient) : toClient'[i] = toClient[j]
      <4>1. CASE toClient' = toClient
        BY <4>1
      <4>2. CASE toClient # <<>> /\ toClient' = Tail(toClient)
        BY <2>3, <4>2, Shifted
      <4> QED
        BY <3>1, <4>1, <4>2
    <3>3. CASE RecvListing
      <4>1. /\ toDownload' = toDownload /\ toClient # <<>>
            /\ \/ unscanned' = unscanned
               \/ Head(toClient).type = "ListResponse" /\ unscanned' = Head(toClient).files
        BY <3>3 DEF RecvListing
      <4>2. Head(toClient) = toClient[1] /\ 1 \in 1..Len(toClient)
        BY <2>3, <4>1, Shifted
      <4> QED
        BY <3>2, <4>1, <4>2 DEF OnClient
    <3>4. CASE Scan
      <4>1. PICK fi \in unscanned :
              /\ unscanned' = unscanned \ {fi}
              /\ toDownload' = toDownload \/ toDownload' = Append(toDownload, fi.path)
        BY <3>4 DEF Scan, ScanDir, SkipExisting, WantFile
      <4>2. fi.path \in Path
        BY <1>1, <4>1 DEF TypeOK, PullerTypeOK, FileInfo
      <4>3. \A i \in 1..Len(toDownload') :
              toDownload'[i] = fi.path \/ \E j \in 1..Len(toDownload) : toDownload'[i] = toDownload[j]
        <5>1. CASE toDownload' = toDownload
          BY <5>1
        <5>2. CASE toDownload' = Append(toDownload, fi.path)
          <6>1. /\ Len(toDownload') = Len(toDownload) + 1 /\ Len(toDownload) \in Nat
                /\ \A j \in 1..Len(toDownload) : toDownload'[j] = toDownload[j]
                /\ toDownload'[Len(toDownload) + 1] = fi.path
            BY <2>3, <4>2, <5>2, AppendProperties, LenProperties
          <6>2. \A i \in 1..Len(toDownload') : i \in 1..Len(toDownload) \/ i = Len(toDownload) + 1
            BY <6>1
          <6> QED
            BY <6>1, <6>2
        <5> QED
          BY <4>1, <5>1, <5>2
      <4> QED
        BY <3>2, <4>1, <4>3 DEF OnClient
    <3>5. CASE ~ RecvListing /\ ~ Scan
      <4>1. UNCHANGED <<unscanned, toDownload>>
        BY <2>1, <3>5 DEF PullerNext, Download, RequestListing, ScanDone, RequestBatch,
           RecvChunk, WriteFails, RecvBatchDone, RecvError, Render, RenderPanics,
           FinishPull, ConnLost
      <4> QED
        BY <3>2, <4>1 DEF OnClient
    <3> QED
      BY <3>3, <3>4, <3>5
  <2> QED
    BY <2>1, <2>2, <2>4, <2>5 DEF ListedInv, LstatFinds
<1>4. CASE Edit
  <2>1. edits \in Nat /\ edits' = edits + 1
    BY <1>1, <1>4, TransferAssumption DEF TypeOK, Edit
  <2> QED
    BY <2>1
<1>5. CASE Break \/ UNCHANGED vars
  <2>1. UNCHANGED <<toServer, toClient, queue, cpc, unscanned, toDownload, listRoot,
                    disk, edits>>
    BY <1>5 DEF Break, vars, wireVars, sessionVars, pullerVars
  <2> QED
    BY <2>1 DEF ListedInv, OnServer, OnClient, Requested, Queued, Running, LstatFinds
<1> QED
  BY <1>2, <1>3, <1>4, <1>5 DEF Next, Finished

LEMMA StraysKept ==
  ASSUME PullInv, TypeOK', ListedInv, StraysOnlyAfterEditOrByDeadLink, [Next]_vars
  PROVE  StraysOnlyAfterEditOrByDeadLink'
<1>1. TypeOK
  BY DEF PullInv, TypeInv
<1>2. CASE ResolveFile /\ UNCHANGED <<disk, edits>>
  <2>1. SUFFICES ASSUME edits = 0, cur'.found # cur'.dir
                 PROVE  disk[cur'.dir][cur'.path].kind = "deadlink"
    <3>1. edits = 0 \/ edits > 0
      BY <1>1, TransferAssumption DEF TypeOK
    <3> QED
      BY <1>2, <3>1 DEF StraysOnlyAfterEditOrByDeadLink
  <2>2. PICK d \in Dir :
          /\ ResolvesTo(Head(queue), d)
          /\ cur' = [path |-> Head(queue), found |-> d, dir |-> SendRoot(d),
                     size |-> 0, offset |-> 0]
    BY <1>2 DEF ResolveFile
  <2>3. PICK p \in Path : p = Head(queue) /\ Queued(p)
    <3>1. queue # <<>> /\ queue \in Seq(Path)
      BY <1>1, <1>2 DEF ResolveFile, TypeOK, SessionTypeOK
    <3>2. Head(queue) = queue[1] /\ Head(queue) \in Path /\ 1 \in 1..Len(queue)
      BY <3>1, Shifted
    <3> QED
      BY <3>2 DEF Queued
  <2>4. listRoot # NoDir /\ LstatFinds(listRoot, p)
    BY <2>1, <2>3 DEF ListedInv, OnServer
  <2>5. cur'.found = d /\ cur'.dir = listRoot /\ cur'.path = p
    BY <2>2, <2>3, <2>4 DEF SendRoot
  <2>6. ~ StatFinds(listRoot, p)
    BY <1>1, <2>1, <2>2, <2>3, <2>4, <2>5, ListedRootFirst
  <2> QED
    BY <2>4, <2>5, <2>6 DEF LstatFinds, StatFinds
<1>3. CASE (StatFile \/ SendChunk) /\ UNCHANGED <<disk, edits>>
  <2>1. cur \in Job /\ cur # NoJob
    BY <1>1, <1>3, JobAtHand DEF StatFile, SendChunk
  <2>2. PICK n : cur' = [cur EXCEPT !.size = n] \/ cur' = [cur EXCEPT !.offset = n]
    BY <1>3 DEF StatFile, SendChunk
  <2>3. cur'.found = cur.found /\ cur'.dir = cur.dir /\ cur'.path = cur.path
    BY <2>1, <2>2 DEF Job
  <2> QED
    BY <1>3, <2>1, <2>3 DEF StraysOnlyAfterEditOrByDeadLink
<1>4. CASE (cur' = cur \/ cur' = NoJob) /\ UNCHANGED <<disk, edits>>
  BY <1>4 DEF StraysOnlyAfterEditOrByDeadLink
<1>5. CASE SessionStep
  <2>1. SessionNext /\ UNCHANGED <<disk, edits>>
    BY <1>5 DEF SessionStep
  <2>2. ASSUME ~ ResolveFile, ~ StatFile, ~ SendChunk
        PROVE  cur' = cur \/ cur' = NoJob
    BY <2>1, <2>2 DEF SessionNext, SendFile, HandleList, HandleDownload, BatchHandled,
       FileMissing, StatFails, SkipDirectory, OpenFile, SendEmptyFile, SendStops,
       SendFails, FinishFile, SessionEnds
  <2> QED
    BY <1>2, <1>3, <1>4, <2>1, <2>2
<1>6. CASE Edit
  <2>1. edits \in Nat /\ edits' = edits + 1
    BY <1>1, <1>6, TransferAssumption DEF TypeOK, Edit
  <2>2. edits' > 0
    BY <2>1
  <2> QED
    BY <2>2 DEF StraysOnlyAfterEditOrByDeadLink
<1>7. CASE PullerStep \/ Break \/ UNCHANGED vars
  BY <1>4, <1>7 DEF PullerStep, Break, vars, sessionVars
<1> QED
  BY <1>5, <1>6, <1>7 DEF Next, Finished

LEMMA OriginInit == Init => OriginInv
<1> SUFFICES ASSUME Init PROVE OriginInv
  OBVIOUS
<1>1. /\ toServer = <<>> /\ toClient = <<>> /\ queue = <<>> /\ cur = NoJob
      /\ toDownload = <<>> /\ unscanned = {}
  BY DEF Init, WireInit, SessionInit, PullerInit
<1>2. \A k \in 1..Len(<<>>) : FALSE
  BY EmptySeq
<1>3. ~ Unlisted
  BY <1>1, <1>2 DEF Unlisted
<1>4. \A p \in Path : ~ OnServer(p) /\ ~ OnClient(p)
  BY <1>1, <1>2 DEF OnServer, OnClient, Requested, Queued
<1> QED
  BY <1>1, <1>3, <1>4 DEF OriginInv, UnlistedInv, ListedInv, StraysOnlyAfterEditOrByDeadLink

LEMMA OriginStep == PullInv /\ PullInv' /\ OriginInv /\ [Next]_vars => OriginInv'
<1> SUFFICES ASSUME PullInv, PullInv', OriginInv, [Next]_vars PROVE OriginInv'
  OBVIOUS
<1>1. TypeOK'
  BY DEF PullInv, TypeInv
<1>2. UnlistedInv /\ ListedInv /\ StraysOnlyAfterEditOrByDeadLink
  BY DEF OriginInv
<1>3. UnlistedInv'
  BY <1>2, UnlistedKept
<1>4. ListedInv'
  BY <1>1, <1>2, ListedKept
<1>5. StraysOnlyAfterEditOrByDeadLink'
  BY <1>1, <1>2, StraysKept
<1> QED
  BY <1>3, <1>4, <1>5 DEF OriginInv

(* While nobody edits the server's disk, handleDownload looks at every path *)
(* of the listing in the directory that was listed, where it will open it,  *)
(* whatever the configured roots hold under the same path, unless what was  *)
(* listed there is a dangling link.                                         *)
THEOREM SendsWhatWasListed == Spec => []StraysOnlyAfterEditOrByDeadLink
<1>1. OriginInv => StraysOnlyAfterEditOrByDeadLink
  BY DEF OriginInv
<1> QED
  BY <1>1, PullInvariant, OriginInit, OriginStep, PTL DEF Spec
-----------------------------------------------------------------------------
(* The progress bar.  Update and Done leave what was received of a file at  *)
(* its size once it is done, and nothing is received before it is asked for.*)
BarInv ==
  Running =>
    /\ \A p \in done : received[p] = expected[p]
    /\ \A p \in Path \ Asked : received[p] = 0

(* The bytes of finitely many files are finitely many. *)
LEMMA TotalFinite ==
  ASSUME NEW bytes \in [Path -> Nat], toDownload \in Seq(Path)
  PROVE  IsFiniteSet(UNION { BytesOf(bytes, toDownload[i]) : i \in 1..Len(toDownload) })
<1> DEFINE S == { BytesOf(bytes, toDownload[i]) : i \in 1..Len(toDownload) }
           f == [i \in 1..Len(toDownload) |-> BytesOf(bytes, toDownload[i])]
<1>1. Len(toDownload) \in Nat /\ \A i \in 1..Len(toDownload) : toDownload[i] \in Path
  BY LenProperties, ElementOfSeq
<1>2. IsFiniteSet(1..Len(toDownload))
  BY <1>1, FS_Interval
<1>3. f \in Surjection(1..Len(toDownload), S)
  BY DEF Surjection
<1>4. IsFiniteSet(S)
  BY <1>2, <1>3, FS_Surjection
<1>5. \A T \in S : IsFiniteSet(T)
  <2>1. SUFFICES ASSUME NEW i \in 1..Len(toDownload)
                 PROVE  IsFiniteSet(BytesOf(bytes, toDownload[i]))
    OBVIOUS
  <2>2. PICK p \in Path : p = toDownload[i]
    BY <1>1
  <2>3. PICK n \in Nat : n = bytes[p]
    OBVIOUS
  <2>4. IsFiniteSet({p}) /\ IsFiniteSet(1..n)
    <3>1. IsFiniteSet({p})
      BY FS_Singleton, Zenon
    <3>2. 1 \in Int /\ n \in Int
      OBVIOUS
    <3>3. IsFiniteSet(1..n)
      BY <3>2, FS_Interval
    <3> QED
      BY <3>1, <3>3
  <2> QED
    BY <2>2, <2>3, <2>4, FS_Product DEF BytesOf
<1> QED
  BY <1>4, <1>5, FS_UNION

(* Bytes received within every file are within the total. *)
LEMMA TotalMonotone ==
  ASSUME NEW a \in [Path -> Nat], NEW b \in [Path -> Nat], toDownload \in Seq(Path),
         \A i \in 1..Len(toDownload) : a[toDownload[i]] <= b[toDownload[i]]
  PROVE  Total(a) \in Nat /\ Total(b) \in Nat /\ Total(a) <= Total(b)
<1> DEFINE A == UNION { BytesOf(a, toDownload[i]) : i \in 1..Len(toDownload) }
           B == UNION { BytesOf(b, toDownload[i]) : i \in 1..Len(toDownload) }
<1>1. IsFiniteSet(A) /\ IsFiniteSet(B)
  BY TotalFinite
<1>2. A \subseteq B
  <2>1. SUFFICES ASSUME NEW i \in 1..Len(toDownload)
                 PROVE  BytesOf(a, toDownload[i]) \subseteq BytesOf(b, toDownload[i])
    OBVIOUS
  <2>2. PICK p \in Path : p = toDownload[i]
    BY ElementOfSeq
  <2>3. a[p] \in Nat /\ b[p] \in Nat /\ a[p] <= b[p]
    BY <2>2
  <2>4. 1..a[p] \subseteq 1..b[p]
    BY <2>3
  <2> QED
    BY <2>2, <2>4 DEF BytesOf
<1>3. Total(a) = Cardinality(A) /\ Total(b) = Cardinality(B)
  BY DEF Total
<1> HIDE DEF A, B
<1>4. Cardinality(A) \in Nat /\ Cardinality(B) \in Nat
  BY <1>1, FS_CardinalityType
<1>5. Cardinality(A) <= Cardinality(B)
  BY <1>1, <1>2, FS_Subset
<1> QED
  BY <1>3, <1>4, <1>5

(* A share of the width is no more than the width. *)
LEMMA ShareFits ==
  ASSUME NEW a \in Nat, NEW b \in Nat, NEW w \in Nat, a <= b, b # 0
  PROVE  (a * w) \div b <= w
<1> DEFINE q == (a * w) \div b
<1>1. a * w \in Nat /\ a * w <= b * w
  OBVIOUS
<1>2. q \in Int /\ b * q <= a * w
  BY <1>1
<1> HIDE DEF q
<1>3. SUFFICES ASSUME q >= w + 1 PROVE FALSE
  BY <1>2 DEF q
<1>4. b * q >= b * (w + 1)
  BY <1>2, <1>3
<1>5. b * (w + 1) = b * w + b
  OBVIOUS
<1> QED
  BY <1>1, <1>2, <1>4, <1>5

(* At first nothing is received, and nothing is to be. *)
LEMMA BarInit == Init => BarInv
BY DEF Init, PullerInit, BarInv

(* What the client decodes moves what was received of that file alone. *)
LEMMA ChunkCounted ==
  ASSUME PullInv, ContentInv, BarInv, Running, RecvChunk
  PROVE  BarInv'
<1>1. TypeOK /\ AccountInv /\ PipeInv(Pipe)
  BY DEF PullInv, TypeInv, ContentInv
<1> DEFINE c == Head(toClient)
<1>2. /\ toClient # <<>> /\ c.type = "DataChunk"
      /\ received' = [received EXCEPT ![c.path] = ReceivedBytes(c)]
      /\ done' = IF c.isLast THEN done \cup {c.path} ELSE done
      /\ toClient' = Tail(toClient)
      /\ UNCHANGED <<toDownload, next, expected, wbuf, link>>
  BY DEF RecvChunk, Receives
<1>3. c \in Frame /\ c = toClient[1] /\ 1 \in 1..Len(toClient)
  BY <1>1, <1>2, Shifted DEF TypeOK, WireTypeOK
<1>4. /\ c.path \in Path /\ c.offset \in Nat /\ Len(c.data) \in Nat
  BY <1>2, <1>3, LenProperties DEF Frame
<1>5. c = Pipe[1] /\ 1 \in 1..Len(Pipe)
  BY <1>1, <1>2, PipeTaken
<1>6. ChunkOK(Pipe, 1)
  BY <1>1, <1>5 DEF PipeInv, ChunkInv
<1>7. c.path \in Asked
  <2>1. OnWire(c.path)
    BY <1>2, <1>3 DEF OnWire, OfFile
  <2> QED
    BY <1>1, <1>4, <2>1 DEF AccountInv, ClientStreamInv, Owed
<1>8. c.path \in done => c.isLast
  <2>1. SUFFICES ASSUME c.path \in done PROVE c.isLast
    OBVIOUS
  <2> HIDE DEF c
  <2>2. IsChunk(c)
    BY <1>2 DEF IsChunk
  <2>3. /\ c.isLast <=> Ends(c) >= Len(sent[c.path].seen)
        /\ c.offset = 0 => c.path \notin done
        /\ c.offset # 0 => HoldsAfter(Pipe, 0, c.path, c.offset)
    BY <1>5, <1>6, <2>2 DEF ChunkOK
  <2>4. c.offset >= Len(sent[c.path].seen)
    BY <2>1, <2>3 DEF HoldsAfter
  <2>5. Len(sent[c.path].seen) \in Nat
    BY <1>1, <1>4, SentType
  <2> QED
    BY <1>4, <2>3, <2>4, <2>5 DEF Ends
<1>9. /\ c.isLast => received'[c.path] = expected[c.path]
      /\ \A p \in Path : p # c.path => received'[p] = received[p]
  BY <1>1, <1>2, <1>4 DEF ReceivedBytes, TypeOK, PullerTypeOK
<1>10. Asked' = Asked /\ expected' = expected /\ done \in SUBSET Path
  BY <1>1, <1>2 DEF Asked, TypeOK, PullerTypeOK
<1> HIDE DEF c
<1>11. \A p \in done' : received'[p] = expected'[p]
  BY <1>2, <1>4, <1>8, <1>9, <1>10 DEF BarInv
<1>12. \A p \in Path \ Asked' : received'[p] = 0
  BY <1>7, <1>9, <1>10 DEF BarInv
<1> QED
  BY <1>11, <1>12 DEF BarInv

(* Bytes are counted as the content accounts for them. *)
LEMMA BarStep == PullInv /\ PullInv' /\ ContentInv /\ BarInv /\ [Next]_vars => BarInv'
<1> SUFFICES ASSUME PullInv, PullInv', ContentInv, BarInv, [Next]_vars, Running'
             PROVE  BarInv'
  BY DEF BarInv
<1>1. TypeOK /\ TypeOK' /\ AccountInv /\ AccountInv'
  BY DEF PullInv, TypeInv
<1>2. CASE UNCHANGED <<cpc, toDownload, next, expected, received, done>>
  BY <1>2 DEF BarInv, Running, Asked
<1>3. CASE PullerNext
  <2>1. CASE RecvChunk
    <3>1. Running
      BY <2>1 DEF RecvChunk, Receives, Running
    <3> QED
      BY <2>1, <3>1, ChunkCounted
  <2>2. CASE Scan
    <3>1. Running /\ next = 1 /\ UNCHANGED <<next, received, done>>
      BY <1>1, <2>2 DEF Scan, Running, AccountInv, ListingInv
    <3>2. Asked = {} /\ Asked' = {}
      BY <3>1 DEF Asked
    <3>3. done = {}
      BY <3>1, <3>2 DEF ContentInv, FreshInv
    <3> QED
      BY <3>1, <3>2, <3>3 DEF BarInv
  <2>3. CASE RequestBatch
    <3>1. Running /\ UNCHANGED <<toDownload, expected, received, done>>
      BY <2>3 DEF RequestBatch, Running
    <3>2. Asked \subseteq Asked'
      <4>1. next \in Nat /\ next' \in Nat /\ next' >= next
        <5>1. next \in Nat /\ Len(toDownload) \in Nat /\ next <= Len(toDownload)
          BY <1>1, <2>3, LenProperties DEF RequestBatch, TypeOK, PullerTypeOK
        <5>2. BatchSize \in Nat /\ BatchSize >= 1
          BY PullerAssumption DEF BatchSize
        <5>3. BatchEnd \in Nat /\ BatchEnd >= next
          BY <5>1, <5>2 DEF BatchEnd
        <5>4. next' = BatchEnd + 1
          BY <2>3 DEF RequestBatch
        <5> QED
          BY <5>1, <5>3, <5>4
      <4>2. 1..next - 1 \subseteq 1..next' - 1
        <5>1. \A x, y \in Nat : y >= x => 1..x - 1 \subseteq 1..y - 1
          OBVIOUS
        <5> QED
          BY <4>1, <5>1, Zenon
      <4> QED
        BY <3>1, <4>2 DEF Asked
    <3> QED
      BY <3>1, <3>2 DEF BarInv
  <2>4. ASSUME ~ RecvChunk, ~ Scan, ~ RequestBatch
        PROVE  Running /\ UNCHANGED <<toDownload, next, expected, received, done>>
    BY <1>3, <2>4 DEF PullerNext, RequestListing, RecvListing, ScanDone, Download,
       WriteFails, RecvBatchDone, RecvError, Receives, Render, RenderPanics, FinishPull,
       ConnLost, Running
  <2>5. CASE Running /\ UNCHANGED <<toDownload, next, expected, received, done>>
    BY <2>5 DEF BarInv, Asked
  <2> QED
    BY <2>1, <2>2, <2>3, <2>4, <2>5
<1> QED
  BY <1>2, <1>3 DEF Next, SessionStep, PullerStep, Edit, Break, Finished, vars, pullerVars

(* The bar of a batch none of whose files was edited is at most full, for   *)
(* files of any size and a console of any width.                            *)
THEOREM BarFits == Spec => []BarFitsUnlessEdited
<1>1. PullInv /\ ContentInv /\ BarInv => BarFitsUnlessEdited
  <2>1. SUFFICES ASSUME PullInv, ContentInv, BarInv, cpc = "render",
                        acked \cap unsteady = {}
                 PROVE  ~ BarOverflows
    BY DEF BarFitsUnlessEdited
  <2>2. TypeOK /\ AccountInv /\ Running
    BY <2>1 DEF PullInv, TypeInv, Running
  <2>3. acked = Asked
    BY <2>1, <2>2 DEF AccountInv, CountInv, Owed
  <2>4. ASSUME NEW p \in Path PROVE received[p] <= expected[p]
    <3>1. received[p] \in Nat /\ expected[p] \in Nat
      BY <2>2 DEF TypeOK, PullerTypeOK
    <3>2. CASE p \in Asked
      <4>1. p \in acked /\ p \notin unsteady
        BY <2>1, <2>3, <3>2
      <4>2. /\ sent[p].chunks > 0 /\ sent[p].data = sent[p].seen
            /\ p \in done <=> sent[p].chunks > 0 /\ Len(sent[p].data) >= Len(sent[p].seen)
        BY <2>1, <4>1 DEF ContentInv, AckedInv, Whole
      <4>3. Len(sent[p].seen) \in Nat
        BY <2>2, SentType
      <4>4. p \in done
        BY <4>2, <4>3
      <4>5. received[p] = expected[p]
        BY <2>1, <2>2, <4>4 DEF BarInv
      <4> QED
        BY <3>1, <4>5
    <3>3. CASE p \notin Asked
      <4>1. received[p] = 0
        BY <2>1, <2>2, <3>3 DEF BarInv
      <4> QED
        BY <3>1, <4>1
    <3> QED
      BY <3>2, <3>3
  <2>5. Total(received) \in Nat /\ Total(expected) \in Nat
        /\ Total(received) <= Total(expected)
    <3>1. /\ received \in [Path -> Nat] /\ expected \in [Path -> Nat]
          /\ toDownload \in Seq(Path)
      BY <2>2 DEF TypeOK, PullerTypeOK
    <3>2. \A i \in 1..Len(toDownload) : received[toDownload[i]] <= expected[toDownload[i]]
      BY <2>4, <3>1, ElementOfSeq
    <3> QED
      BY <3>1, <3>2, TotalMonotone
  <2>6. BarWidth \in Nat
    BY PullerAssumption DEF BarWidth, Columns
  <2>7. Filled \in Int /\ Filled <= BarWidth
    <3>1. CASE Total(expected) = 0
      BY <2>6, <3>1 DEF Filled
    <3>2. CASE Total(expected) # 0
      <4>1. Filled = (Total(received) * BarWidth) \div Total(expected)
        BY <3>2 DEF Filled
      <4>2. PICK a \in Nat, b \in Nat, w \in Nat :
              a = Total(received) /\ b = Total(expected) /\ w = BarWidth
        BY <2>5, <2>6
      <4>3. a <= b /\ b # 0
        BY <2>5, <3>2, <4>2
      <4>4. (a * w) \div b \in Int
        BY <4>3
      <4>5. (a * w) \div b <= w
        BY <4>3, ShareFits
      <4> QED
        BY <4>1, <4>2, <4>4, <4>5
    <3> QED
      BY <3>1, <3>2
  <2> QED
    BY <2>6, <2>7 DEF BarOverflows
<1> QED
  BY <1>1, PullInvariant, ContentInvariant, BarInit, BarStep, PTL DEF Spec
=============================================================================
