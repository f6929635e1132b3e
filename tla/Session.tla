------------------------------ MODULE Session ------------------------------
(***************************************************************************)
(* The server's side of one connection: tcp.Session with the ChunkSender   *)
(* it drives, over a disk that others may change between any two system    *)
(* calls.  One action per path through handleList, per turn of             *)
(* handleDownload's loop, and per system call of SendFile.                 *)
(***************************************************************************)
EXTENDS Wire

CONSTANTS
  RootDirs,          \* the configured roots, in order
  ChunkSize,         \* the --chunk-size option, in blocks
  DefaultChunkSize,  \* length of the buffers in chunkBufPool, in blocks
  LinkSize,          \* size Lstat reports for a symbolic link
  NoJob

ASSUME SessionAssumption ==
  /\ RootDirs \in Seq(Dir)
  /\ ChunkSize \in Int
  /\ DefaultChunkSize \in Nat \ {0}
  /\ LinkSize \in Nat

VARIABLES
  disk,       \* directory -> path -> entry
  spc,        \* where the session's goroutine is
  listRoot,   \* Session.listRoot
  queue,      \* files of the DownloadReq not yet looked at
  cur,        \* the file being sent: handleDownload's and SendFile's locals
  sent,       \* history: per path, the file stat saw and the bytes framed
  skipped,    \* history: requested paths that stat said were directories
  unsteady    \* history: paths whose bytes may not be those stat saw: edited
              \* while being sent, or read from another root than stat's

sessionVars == <<spc, listRoot, queue, cur, sent, skipped, unsteady>>

(* "link" and "dirlink" are symbolic links to a file and to a directory,    *)
(* "deadlink" one that leads nowhere: the walk does not follow them         *)
(* (Lstat), Stat and Open do.                                               *)
Kind  == {"absent", "file", "link", "dir", "dirlink", "deadlink"}
Entry == [kind : Kind, data : Seq(Block)]
Job   == [path : Path, found : Dir, dir : Dir, size : Nat, offset : Nat]

(* Lstat finds a dangling link, Stat and Open do not. *)
LstatFinds(d, p) == disk[d][p].kind # "absent"
StatFinds(d, p)  == disk[d][p].kind \notin {"absent", "deadlink"}

-----------------------------------------------------------------------------
(* filesvc.Walk: one FileInfo per entry, from Lstat. *)
ListedSize(e) ==
  IF e.kind \in {"link", "dirlink", "deadlink"} THEN LinkSize ELSE Len(e.data)

Walk(d) ==
  { [path |-> p, isDir |-> disk[d][p].kind = "dir",
     size |-> ListedSize(disk[d][p])] : p \in {q \in Path : LstatFinds(d, q)} }

(* resolveFilePath: the list root first, then every configured root. *)
SearchOrderRootsFirst == RootDirs          \* Mutant: listRoot is not searched

SearchOrder == (IF listRoot = NoDir THEN <<>> ELSE <<listRoot>>) \o RootDirs

ResolvesTo(p, d) ==
  \E i \in 1..Len(SearchOrder) :
    /\ SearchOrder[i] = d
    /\ StatFinds(d, p)
    /\ \A j \in 1..(i - 1) : ~ StatFinds(SearchOrder[j], p)

(* The directory SendFile opens the path in.  The roots are not nested      *)
(* here, so findRootDir gives back the root the path was found under.       *)
SendRoot(found) == IF listRoot = NoDir THEN found ELSE listRoot

(* NewChunkSender's default and SendFile's "at least chunkSize". *)
BufLen ==
  LET want == IF ChunkSize <= 0 THEN DefaultChunkSize ELSE ChunkSize
  IN  IF DefaultChunkSize < want THEN want ELSE DefaultChunkSize

(* f.ReadAt(buf[:toRead], offset): fewer blocks than asked only at the end. *)
ReadAt(data, off, size) ==
  LET toRead == IF size - off < BufLen THEN size - off ELSE BufLen
      end    == IF off + toRead < Len(data) THEN off + toRead ELSE Len(data)
  IN  SubSeq(data, off + 1, end)

-----------------------------------------------------------------------------
(* handleList.  A reply that cannot be written ends the session. *)
Reply(m) ==
  \/ Encode(m) /\ UNCHANGED spc
  \/ EncodeFails /\ spc' = "ended"

Decodes(type) ==
  /\ spc = "decode"
  /\ toServer # <<>>
  /\ Head(toServer).type = type
  /\ toServer' = Tail(toServer)
  /\ UNCHANGED link

HandleList ==
  /\ Decodes("ListRequest")
  /\ LET root == Head(toServer).root IN
     \/ /\ root = NoDir
        /\ Reply(ErrorMessage(404))
        /\ UNCHANGED listRoot
     \/ /\ root # NoDir
        /\ listRoot' = root
        /\ \/ Reply(ListResponse(Walk(root)))
           \/ Reply(ErrorMessage(500))      \* the walk failed
  /\ UNCHANGED <<queue, cur, sent, skipped, unsteady>>

-----------------------------------------------------------------------------
(* handleDownload: its loop over the requested files. *)
HandleDownload ==
  /\ Decodes("DownloadReq")
  /\ queue' = Head(toServer).files
  /\ spc' = "next"
  /\ UNCHANGED <<toClient, wbuf, werr, listRoot, cur, sent, skipped, unsteady>>

BatchHandled ==
  /\ spc = "next" /\ queue = <<>>
  /\ spc' = "decode"
  /\ UNCHANGED <<wireVars, listRoot, queue, cur, sent, skipped, unsteady>>

ReportNothing(code) == UNCHANGED <<toClient, wbuf, werr>>     \* Mutant

(* The result of encoding an error is ignored; the loop goes on. *)
Report(code) == Encode(ErrorMessage(code)) \/ EncodeFails

FileMissing ==
  /\ spc = "next" /\ queue # <<>>
  /\ ~ \E d \in Dir : ResolvesTo(Head(queue), d)
  /\ Report(404)
  /\ queue' = Tail(queue)
  /\ UNCHANGED <<toServer, link, spc, listRoot, cur, sent, skipped, unsteady>>

ResolveFile ==
  /\ spc = "next" /\ queue # <<>>
  /\ \E d \in Dir :
       /\ ResolvesTo(Head(queue), d)
       /\ cur' = [path |-> Head(queue), found |-> d, dir |-> SendRoot(d),
                  size |-> 0, offset |-> 0]
  /\ queue' = Tail(queue)
  /\ spc' = "stat"
  /\ UNCHANGED <<wireVars, listRoot, sent, skipped, unsteady>>

Found == disk[cur.found][cur.path]

StatFails ==
  /\ spc = "stat"
  /\ ~ StatFinds(cur.found, cur.path)
  /\ Report(404)
  /\ spc' = "next"
  /\ cur' = NoJob
  /\ UNCHANGED <<toServer, link, listRoot, queue, sent, skipped, unsteady>>

SkipDirectory ==
  /\ spc = "stat"
  /\ Found.kind \in {"dir", "dirlink"}
  /\ skipped' = skipped \cup {cur.path}
  /\ spc' = "next"
  /\ cur' = NoJob
  /\ UNCHANGED <<wireVars, listRoot, queue, sent, unsteady>>

StatFile ==
  /\ spc = "stat"
  /\ Found.kind \in {"file", "link"}
  /\ cur' = [cur EXCEPT !.size = Len(Found.data)]
  /\ sent' = [sent EXCEPT ![cur.path] =
                [seen |-> Found.data, data |-> <<>>, chunks |-> 0]]
  /\ unsteady' = IF cur.found = cur.dir THEN unsteady \ {cur.path}
                                       ELSE unsteady \cup {cur.path}
  /\ spc' = "open"
  /\ UNCHANGED <<wireVars, listRoot, queue, skipped>>

-----------------------------------------------------------------------------
(* ChunkSender.SendFile, one action per system call. *)
Opened == disk[cur.dir][cur.path]

Framed(data) ==
  sent' = [sent EXCEPT ![cur.path].data = @ \o data, ![cur.path].chunks = @ + 1]

OpenFile ==
  /\ spc = "open" /\ cur.size > 0
  /\ StatFinds(cur.dir, cur.path)
  /\ spc' = "send"
  /\ UNCHANGED <<wireVars, listRoot, queue, cur, sent, skipped, unsteady>>

SendEmptyFile ==
  /\ spc = "open" /\ cur.size = 0
  /\ StatFinds(cur.dir, cur.path)
  /\ WriteChunk(DataChunk(cur.path, 0, <<>>, TRUE))
  /\ Framed(<<>>)
  /\ spc' = "close"
  /\ UNCHANGED <<toServer, link, listRoot, queue, cur, skipped, unsteady>>

IsLastOffByOne(end) == end > cur.size                         \* Mutant

IsLast(end) == end >= cur.size

SendChunk ==
  /\ spc = "send"
  /\ Opened.kind \in {"file", "link"}
  /\ LET data == ReadAt(Opened.data, cur.offset, cur.size)
         end  == cur.offset + Len(data)
     IN /\ data # <<>>
        /\ WriteChunk(DataChunk(cur.path, cur.offset, data, IsLast(end)))
        /\ Framed(data)
        /\ cur' = [cur EXCEPT !.offset = end]
        /\ spc' = IF end < cur.size THEN "send" ELSE "close"
  /\ UNCHANGED <<toServer, link, listRoot, queue, skipped, unsteady>>

(* ReadAt found nothing where stat had promised more: the loop breaks and   *)
(* SendFile returns nil.                                                    *)
SendStops ==
  /\ spc = "send"
  /\ Opened.kind \in {"file", "link"}
  /\ ReadAt(Opened.data, cur.offset, cur.size) = <<>>
  /\ spc' = "close"
  /\ UNCHANGED <<wireVars, listRoot, queue, cur, sent, skipped, unsteady>>

(* SendFile fails: open, read or close returned an error, which opening     *)
(* what Stat does not find and reading a directory always do, or the chunk  *)
(* could not be written, which also makes every later write fail.           *)
(* handleDownload reports it and goes on.                                   *)
SendFails ==
  /\ spc \in {"open", "send", "close"}
  /\ Report(500)
  /\ spc' = "next"
  /\ cur' = NoJob
  /\ UNCHANGED <<toServer, link, listRoot, queue, sent, skipped, unsteady>>

(* SendFile returned nil: BatchDone flushes the file's chunks.              *)
FinishFile ==
  /\ spc = "close"
  /\ \/ Encode(BatchDone(cur.path)) /\ spc' = "next"
     \/ EncodeFails /\ spc' = "ended"
  /\ cur' = NoJob
  /\ UNCHANGED <<toServer, link, listRoot, queue, sent, skipped, unsteady>>

(* Mutant: Handle goes on after an error of Decode. *)
SessionRetries ==
  /\ spc = "decode" /\ link = "down"
  /\ UNCHANGED <<wireVars, sessionVars>>

(* Decode fails on a closed connection; handleConn returns. *)
SessionEnds ==
  /\ spc = "decode" /\ link = "down"
  /\ spc' = "ended"
  /\ UNCHANGED <<wireVars, listRoot, queue, cur, sent, skipped, unsteady>>

SendFile == OpenFile \/ SendEmptyFile \/ SendChunk \/ SendStops \/ SendFails

SessionNext ==
  \/ HandleList
  \/ HandleDownload \/ BatchHandled
  \/ FileMissing \/ ResolveFile \/ StatFails \/ SkipDirectory \/ StatFile
  \/ SendFile \/ FinishFile
  \/ SessionEnds

SessionTypeOK ==
  /\ disk \in [Dir -> [Path -> Entry]]
  /\ spc \in {"decode", "next", "stat", "open", "send", "close", "ended"}
  /\ listRoot \in Dir \cup {NoDir}
  /\ queue \in Seq(Path)
  /\ IF spc \in {"stat", "open", "send", "close"} THEN cur \in Job ELSE cur = NoJob
  /\ sent \in [Path -> [seen : Seq(Block), data : Seq(Block), chunks : Nat]]
  /\ skipped \in SUBSET Path
  /\ unsteady \in SUBSET Path

SessionInit ==
  /\ spc = "decode"
  /\ listRoot = NoDir
  /\ queue = <<>>
  /\ cur = NoJob
  /\ sent = [p \in Path |-> [seen |-> <<>>, data |-> <<>>, chunks |-> 0]]
  /\ skipped = {}
  /\ unsteady = {}
=============================================================================
