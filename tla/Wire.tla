-------------------------------- MODULE Wire --------------------------------
(***************************************************************************)
(* One TCP connection between a goshare client and its session on the      *)
(* server, seen as two FIFO streams of whole frames (internal/proto).      *)
(*                                                                         *)
(* The client flushes every request it encodes, so its side has no buffer  *)
(* here.  The server's encoder writes through a bufio.Writer of 8 MB:      *)
(* Encode flushes it, WriteChunk does not.  A frame cut by the end of the  *)
(* buffer cannot be decoded before its tail arrives, so the buffer is      *)
(* counted in whole chunk frames (BufChunks); when one more does not fit,  *)
(* everything before it goes out and the new frame's tail stays behind.    *)
(***************************************************************************)
EXTENDS Integers, Sequences

CONSTANTS
  Path,       \* paths of files, relative to the directory that was listed
  Dir,        \* directories on the server: the roots and those below them
  NoDir,      \* resolveRoot's answer "" and the unset listRoot
  Block,      \* contents of one block of a file
  BufChunks   \* whole chunk frames that fit in the server's write buffer

ASSUME WireAssumption ==
  /\ NoDir \notin Dir
  /\ BufChunks \in Nat

VARIABLES
  toServer,   \* requests on their way to the session
  toClient,   \* frames flushed by the session, not yet decoded
  wbuf,       \* frames still in the session's bufio.Writer
  werr,       \* that writer's sticky error
  link        \* "up" until either side closes or the network breaks

wireVars == <<toServer, toClient, wbuf, werr, link>>

-----------------------------------------------------------------------------
(* The messages.  A listing is a set of entries: no operation below depends *)
(* on the order in which filesvc sorts them.                                *)

FileInfo == [path : Path, isDir : BOOLEAN, size : Nat]

ListRequest(d)         == [type |-> "ListRequest", root |-> d]
DownloadReq(fs)        == [type |-> "DownloadReq", files |-> fs]
ListResponse(fis)      == [type |-> "ListResponse", files |-> fis]
DataChunk(p, o, d, l)  == [type |-> "DataChunk", path |-> p, offset |-> o,
                           data |-> d, isLast |-> l]
BatchDone(p)           == [type |-> "BatchDone", path |-> p]
ErrorMessage(c)        == [type |-> "Error", code |-> c]

Request ==
  [type : {"ListRequest"}, root : Dir \cup {NoDir}]
    \cup [type : {"DownloadReq"}, files : Seq(Path)]

Frame ==
  [type : {"ListResponse"}, files : SUBSET FileInfo]
    \cup [type : {"DataChunk"}, path : Path, offset : Nat, data : Seq(Block),
          isLast : BOOLEAN]
    \cup [type : {"BatchDone"}, path : Path]
    \cup [type : {"Error"}, code : {404, 500}]

-----------------------------------------------------------------------------
(* What the session's writer does.  Writes to a connection that is down are *)
(* either swallowed by the kernel or reported; once reported, the error is  *)
(* returned by every later write.                                           *)

Emit(frames) ==
  toClient' = IF link = "up" THEN toClient \o frames ELSE toClient

(* Mutant: Encode without its closing Flush. *)
EncodeWithoutFlush(m) ==
  /\ ~werr
  /\ wbuf' = Append(wbuf, m)
  /\ UNCHANGED <<toClient, werr>>

(* A control frame: append, then flush all that was buffered before it. *)
Encode(m) ==
  /\ ~werr
  /\ Emit(Append(wbuf, m))
  /\ wbuf' = <<>>
  /\ UNCHANGED werr

EncodeFails ==
  /\ link = "down"
  /\ werr' = TRUE
  /\ UNCHANGED <<toClient, wbuf>>

(* A data chunk stays in the buffer, or displaces what was there; one that  *)
(* alone exceeds the buffer may also go out whole.                          *)
WriteChunk(f) ==
  /\ ~werr
  /\ \/ /\ Len(wbuf) < BufChunks
        /\ wbuf' = Append(wbuf, f)
        /\ UNCHANGED toClient
     \/ /\ Len(wbuf) >= BufChunks
        /\ Emit(wbuf)
        /\ wbuf' = <<f>>
     \/ /\ BufChunks = 0
        /\ Emit(Append(wbuf, f))
        /\ wbuf' = <<>>
  /\ UNCHANGED werr

WireTypeOK ==
  /\ toServer \in Seq(Request)
  /\ toClient \in Seq(Frame)
  /\ wbuf \in Seq(Frame)
  /\ werr \in BOOLEAN
  /\ link \in {"up", "down"}

WireInit ==
  /\ toServer = <<>>
  /\ toClient = <<>>
  /\ wbuf = <<>>
  /\ werr = FALSE
  /\ link = "up"
=============================================================================
