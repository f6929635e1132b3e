------------------------------- MODULE Puller -------------------------------
(***************************************************************************)
(* The client's side of one connection: client.Pull over client.Conn, with *)
(* the local tree it writes and the Progress it keeps.  One action per     *)
(* message sent or decoded, and one per entry of the listing.              *)
(***************************************************************************)
EXTENDS Wire, FiniteSets

CONSTANTS
  Concurrency,   \* the --concurrency option
  IsTerm,        \* standard output is a terminal
  TermWidth,     \* its width, as the console reports it
  Zero           \* what fills the hole before a write past the end of a file

ASSUME PullerAssumption ==
  /\ Concurrency \in Int
  /\ IsTerm \in BOOLEAN
  /\ TermWidth \in Nat
  /\ Zero \in Block

VARIABLES
  cpc,         \* where Pull is
  unscanned,   \* entries of the listing the diff loop has not reached
  toDownload,  \* paths the diff loop found missing or different
  next,        \* index in toDownload of the next batch's first path
  remaining,   \* Download's count of files still to be finished
  local,       \* the tree under OutputDir
  expected,    \* Progress: size given to AddFile
  received,    \* Progress: bytes given to the last Update
  done,        \* Progress: paths marked Done
  acked        \* history: paths of the BatchDones decoded

pullerVars == <<cpc, unscanned, toDownload, next, remaining, local, expected,
                received, done, acked>>

LocalEntry == [kind : {"absent", "file", "dir"}, data : Seq(Block)]

(* Pull's default for a concurrency of zero or less. *)
BatchSize == 2 * (IF Concurrency <= 0 THEN 4 ELSE Concurrency)

BatchEnd ==
  LET end == next + BatchSize - 1
  IN  IF end > Len(toDownload) THEN Len(toDownload) ELSE end

(* Mutant: the boundary between two batches is requested twice. *)
BatchOverlapping ==
  SubSeq(toDownload, IF next > 1 THEN next - 1 ELSE next, BatchEnd)

Batch == SubSeq(toDownload, next, BatchEnd)

(* Mutant: off by one. *)
BatchLenShort == BatchEnd - next

BatchLen == BatchEnd - next + 1

(* The deferred conn.Close of every return. *)
Return(result) == cpc' = result /\ link' = "down"

(* Encode and flush a request; on a connection that is down the bytes may   *)
(* be lost without an error.                                                *)
SendRequest(m) ==
  toServer' = IF link = "up" THEN Append(toServer, m) ELSE toServer

-----------------------------------------------------------------------------
RequestListing ==
  /\ cpc = "start"
  /\ \E root \in Dir \cup {NoDir} : SendRequest(ListRequest(root))
  /\ cpc' = "list"
  /\ UNCHANGED <<toClient, wbuf, werr, link, unscanned, toDownload, next,
                 remaining, local, expected, received, done, acked>>

RecvListing ==
  /\ cpc = "list" /\ toClient # <<>>
  /\ LET m == Head(toClient) IN
     \/ /\ m.type = "ListResponse"
        /\ unscanned' = m.files
        /\ cpc' = "scan"
        /\ UNCHANGED link
     \/ /\ m.type # "ListResponse"
        /\ Return("failed")
        /\ UNCHANGED unscanned
  /\ toClient' = Tail(toClient)
  /\ UNCHANGED <<toServer, wbuf, werr, toDownload, next, remaining, local,
                 expected, received, done, acked>>

(* Pull's diff loop.  MkdirAll does nothing where something exists.         *)
ScanDir(fi) ==
  /\ fi.isDir
  /\ local' = IF local[fi.path].kind = "absent"
              THEN [local EXCEPT ![fi.path] = [kind |-> "dir", data |-> <<>>]]
              ELSE local
  /\ UNCHANGED <<toDownload, expected>>

(* filesvc.Exists: the sizes agree, and the modification times may.         *)
SkipExisting(fi) ==
  /\ ~ fi.isDir
  /\ local[fi.path].kind = "file" /\ Len(local[fi.path].data) = fi.size
  /\ UNCHANGED <<toDownload, local, expected>>

WantFile(fi) ==
  /\ ~ fi.isDir
  /\ toDownload' = Append(toDownload, fi.path)
  /\ expected' = [expected EXCEPT ![fi.path] = fi.size]
  /\ UNCHANGED local

Scan ==
  /\ cpc = "scan"
  /\ \E fi \in unscanned :
       /\ ScanDir(fi) \/ SkipExisting(fi) \/ WantFile(fi)
       /\ unscanned' = unscanned \ {fi}
  /\ UNCHANGED <<wireVars, cpc, next, remaining, received, done, acked>>

ScanDone ==
  /\ cpc = "scan" /\ unscanned = {}
  /\ cpc' = "batch"
  /\ UNCHANGED <<wireVars, unscanned, toDownload, next, remaining, local,
                 expected, received, done, acked>>

-----------------------------------------------------------------------------
(* Pull's batch loop and Download's request. *)
RequestBatch ==
  /\ cpc = "batch" /\ next <= Len(toDownload)
  /\ SendRequest(DownloadReq(Batch))
  /\ remaining' = BatchLen
  /\ next' = BatchEnd + 1
  /\ cpc' = "recv"
  /\ UNCHANGED <<toClient, wbuf, werr, link, unscanned, toDownload, local,
                 expected, received, done, acked>>

FinishPull ==
  /\ cpc = "batch" /\ next > Len(toDownload)
  /\ Return("ok")
  /\ UNCHANGED <<toServer, toClient, wbuf, werr, unscanned, toDownload, next,
                 remaining, local, expected, received, done, acked>>

Receives(type) ==
  /\ cpc = "recv"
  /\ toClient # <<>>
  /\ Head(toClient).type = type
  /\ toClient' = Tail(toClient)

(* WriteFileChunk: a chunk at offset zero truncates; WriteAt keeps what lies *)
(* before and after the chunk, and fills a hole with zeros.                 *)
TruncatedAlways(old, off) == <<>>               \* Mutant: the test is dropped
NeverTruncated(old, off) == old                 \* Mutant: O_TRUNC is dropped

Truncated(old, off) == IF off = 0 THEN <<>> ELSE old

Overlay(old, off, data) ==
  LET end == off + Len(data) IN
  [i \in 1..(IF end > Len(old) THEN end ELSE Len(old)) |->
     IF off < i /\ i <= end THEN data[i - off]
     ELSE IF i <= Len(old) THEN old[i] ELSE Zero]

Written(c) ==
  [kind |-> "file",
   data |-> Overlay(Truncated(local[c.path].data, c.offset), c.offset, c.data)]

(* Mutant: Done leaves received as the chunk's Update set it. *)
ReceivedByOffset(c) == c.offset + Len(c.data)

(* Progress.Update, and Done after the last chunk. *)
ReceivedBytes(c) == IF c.isLast THEN expected[c.path] ELSE c.offset + Len(c.data)

RecvChunk ==
  /\ Receives("DataChunk")
  /\ LET c == Head(toClient) IN
     /\ local[c.path].kind # "dir"
     /\ local' = [local EXCEPT ![c.path] = Written(c)]
     /\ received' = [received EXCEPT ![c.path] = ReceivedBytes(c)]
     /\ done' = IF c.isLast THEN done \cup {c.path} ELSE done
  /\ UNCHANGED <<toServer, wbuf, werr, link, cpc, unscanned, toDownload, next,
                 remaining, expected, acked>>

(* The file cannot be opened (a directory is in the way, say) or, once       *)
(* opened and perhaps truncated, cannot be written.                         *)
WriteFails ==
  /\ Receives("DataChunk")
  /\ LET c == Head(toClient) IN
     \/ UNCHANGED local
     \/ /\ local[c.path].kind # "dir"
        /\ local' = [local EXCEPT ![c.path] =
             [kind |-> "file", data |-> Truncated(local[c.path].data, c.offset)]]
  /\ Return("failed")
  /\ UNCHANGED <<toServer, wbuf, werr, unscanned, toDownload, next, remaining,
                 expected, received, done, acked>>

RecvBatchDone ==
  /\ Receives("BatchDone")
  /\ remaining' = remaining - 1
  /\ acked' = acked \cup {Head(toClient).path}
  /\ cpc' = IF remaining' > 0 THEN "recv" ELSE "render"
  /\ UNCHANGED <<toServer, wbuf, werr, link, unscanned, toDownload, next,
                 local, expected, received, done>>

(* Mutant: an error from the server counts as a file that is finished. *)
RecvErrorGoesOn ==
  /\ Receives("Error")
  /\ remaining' = remaining - 1
  /\ cpc' = IF remaining' > 0 THEN "recv" ELSE "render"
  /\ UNCHANGED <<toServer, wbuf, werr, link, unscanned, toDownload, next,
                 local, expected, received, done, acked>>

RecvError ==
  /\ Receives("Error") \/ Receives("ListResponse")
  /\ Return("failed")
  /\ UNCHANGED <<toServer, wbuf, werr, unscanned, toDownload, next, remaining,
                 local, expected, received, done, acked>>

-----------------------------------------------------------------------------
(* Progress.Render, after each batch: a bar of BarWidth cells, as many of   *)
(* them filled as the share of the bytes that has arrived.                  *)
Columns  == IF TermWidth < 40 THEN 80 ELSE TermWidth

BarWidth == IF Columns - 45 < 10 THEN 10 ELSE Columns - 45

(* Progress's sum over its files, each of their bytes counted.              *)
BytesOf(bytes, p) == {p} \X (1..bytes[p])

Total(bytes) ==
  Cardinality(UNION { BytesOf(bytes, toDownload[i]) : i \in 1..Len(toDownload) })

Filled ==
  IF Total(expected) = 0 THEN 0
  ELSE (Total(received) * BarWidth) \div Total(expected)

BarOverflows == IsTerm /\ Filled > BarWidth

Render ==
  /\ cpc = "render" /\ ~ BarOverflows
  /\ cpc' = "batch"
  /\ UNCHANGED <<wireVars, unscanned, toDownload, next, remaining, local,
                 expected, received, done, acked>>

(* strings.Repeat panics on the negative count of empty cells. *)
RenderPanics ==
  /\ cpc = "render" /\ BarOverflows
  /\ Return("failed")
  /\ UNCHANGED <<toServer, toClient, wbuf, werr, unscanned, toDownload, next,
                 remaining, local, expected, received, done, acked>>

(* Encode or Decode reports that the connection is gone. *)
ConnLost ==
  /\ cpc \in {"start", "list", "batch", "recv"}
  /\ cpc = "batch" => next <= Len(toDownload)
  /\ link = "down"
  /\ Return("failed")
  /\ UNCHANGED <<toServer, toClient, wbuf, werr, unscanned, toDownload, next,
                 remaining, local, expected, received, done, acked>>

Download == RecvChunk \/ WriteFails \/ RecvBatchDone \/ RecvError

PullerNext ==
  \/ RequestListing \/ RecvListing
  \/ Scan \/ ScanDone
  \/ RequestBatch \/ Download \/ Render \/ RenderPanics \/ FinishPull
  \/ ConnLost

PullerTypeOK ==
  /\ cpc \in {"start", "list", "scan", "batch", "recv", "render", "ok", "failed"}
  /\ unscanned \in SUBSET FileInfo
  /\ toDownload \in Seq(Path)
  /\ next \in Nat \ {0} /\ next <= Len(toDownload) + 1
  /\ remaining \in Nat
  /\ local \in [Path -> LocalEntry]
  /\ expected \in [Path -> Nat]
  /\ received \in [Path -> Nat]
  /\ done \in SUBSET Path
  /\ acked \in SUBSET Path

PullerInit ==
  /\ cpc = "start"
  /\ unscanned = {}
  /\ toDownload = <<>>
  /\ next = 1
  /\ remaining = 0
  /\ expected = [p \in Path |-> 0]
  /\ received = [p \in Path |-> 0]
  /\ done = {}
  /\ acked = {}
=============================================================================
