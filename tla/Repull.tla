------------------------------- MODULE Repull -------------------------------
(***************************************************************************)
(* Pulling one file again and again, as time passes and the file changes:  *)
(* client.Pull with the test of filesvc.Exists, by which it leaves a file  *)
(* alone whose size and modification time agree with the listing.  Pull    *)
(* never sets a modification time, so a copy bears the time at which the   *)
(* client last wrote to it, by the client's own clock.                     *)
(*                                                                         *)
(* Transfer has the protocol in full; here one file is read in blocks by   *)
(* the session and written, later, by the client.                          *)
(***************************************************************************)
EXTENDS Integers, Sequences

CONSTANTS
  Block,
  Contents,    \* what the file may hold: sequences of blocks
  Tolerance,   \* one second, in ticks of the clock
  Skews,       \* by how much the client's clock may be ahead
  NoCopy,      \* the client has no copy
  MaxTime,     \* bound: ticks of the clock
  MaxEdits,    \* bound: edits of the file
  MaxFails     \* bound: pulls that fail

Copy == [data : Seq(Block), mtime : Int]

ASSUME RepullAssumption ==
  /\ Contents \subseteq Seq(Block)
  /\ NoCopy \notin Copy
  /\ Tolerance \in Nat
  /\ Skews \subseteq Int
  /\ {MaxTime, MaxEdits, MaxFails} \subseteq Nat

VARIABLES
  clock,    \* the server's clock
  skew,     \* how far the client's is ahead of it
  remote,   \* the file on the server: data, mtime
  local,    \* the client's copy: data, mtime, or NoCopy
  rpc,      \* where Pull is: "idle", "listed", "wanted" or "receive"
  listed,   \* the file's FileInfo in the listing
  size,     \* the size the session's stat saw
  readTo,   \* up to where the session has read
  wire,     \* chunks read and not yet written by the client
  off,      \* up to where the client has written
  result,   \* how the last pull went: "none", "skipped", "fetched", "failed"
  calm,     \* history: no edit since the last pull asked for its listing
  edits, fails

vars == <<clock, skew, remote, local, rpc, listed, size, readTo, wire, off,
          result, calm, edits, fails>>

pull == <<rpc, listed, size, readTo, wire, off, result, fails>>

FileInfo == [size : Nat, mtime : Int]

Listing == [size |-> Len(remote.data), mtime |-> remote.mtime]

Init ==
  /\ clock = 0 /\ skew \in Skews
  /\ remote \in [data : Contents, mtime : {0}]
  /\ local = NoCopy
  /\ rpc = "idle" /\ listed = Listing
  /\ size = 0 /\ readTo = 0 /\ wire = <<>> /\ off = 0
  /\ result = "none" /\ calm = TRUE
  /\ edits = 0 /\ fails = 0

-----------------------------------------------------------------------------
Tick ==
  /\ clock < MaxTime
  /\ clock' = clock + 1
  /\ UNCHANGED <<skew, remote, local, pull, calm, edits>>

(* The file is rewritten, or replaced by one that keeps an older time.      *)
Edit ==
  /\ edits < MaxEdits
  /\ remote' \in [data : Contents, mtime : 0..clock]
  /\ remote'.data # remote.data
  /\ calm' = FALSE
  /\ edits' = edits + 1
  /\ UNCHANGED <<clock, skew, local, pull>>

-----------------------------------------------------------------------------
(* filesvc.Exists. *)
Near(t, u) == t - u < Tolerance /\ u - t < Tolerance

Exists(fi) ==
  /\ local # NoCopy
  /\ Len(local.data) = fi.size
  /\ Near(local.mtime, fi.mtime)

List ==
  /\ rpc = "idle"
  /\ listed' = Listing
  /\ rpc' = "listed"
  /\ calm' = TRUE
  /\ UNCHANGED <<clock, skew, remote, local, size, readTo, wire, off, result,
                 edits, fails>>

Skip ==
  /\ rpc = "listed" /\ Exists(listed)
  /\ rpc' = "idle" /\ result' = "skipped"
  /\ UNCHANGED <<clock, skew, remote, local, listed, size, readTo, wire, off,
                 calm, edits, fails>>

Want ==
  /\ rpc = "listed" /\ ~ Exists(listed)
  /\ rpc' = "wanted"
  /\ UNCHANGED <<clock, skew, remote, local, listed, size, readTo, wire, off,
                 result, calm, edits, fails>>

-----------------------------------------------------------------------------
(* The session: stat, then one read after the other.  The single chunk of   *)
(* an empty file goes out at once.                                          *)
StatFile ==
  /\ rpc = "wanted"
  /\ size' = Len(remote.data)
  /\ readTo' = 0 /\ off' = 0
  /\ wire' = IF remote.data = <<>> THEN << <<>> >> ELSE <<>>
  /\ rpc' = "receive"
  /\ UNCHANGED <<clock, skew, remote, local, listed, result, calm, edits, fails>>

MoreToRead == readTo < size /\ readTo < Len(remote.data)

ReadBlock ==
  /\ rpc = "receive" /\ MoreToRead
  /\ wire' = Append(wire, << remote.data[readTo + 1] >>)
  /\ readTo' = readTo + 1
  /\ UNCHANGED <<clock, skew, remote, local, rpc, listed, size, off, result,
                 calm, edits, fails>>

(* WriteFileChunk on the client, which truncates before the first chunk.    *)
Reserved ==     \* Mutant: the file is given its size before its data
  IF off = 0 THEN [ b \in 1..size |-> CHOOSE a \in Block : TRUE ] ELSE local.data

KeepOld == IF local = NoCopy THEN <<>> ELSE local.data      \* Mutant: no O_TRUNC

OldData == IF off = 0 \/ local = NoCopy THEN <<>> ELSE local.data

Overwritten(old, at, data) ==
  SubSeq(old, 1, at) \o data \o SubSeq(old, at + Len(data) + 1, Len(old))

Stamped(data) == [data |-> data, mtime |-> clock + skew]

WriteChunk ==
  /\ rpc = "receive" /\ wire # <<>>
  /\ local' = Stamped(Overwritten(OldData, off, Head(wire)))
  /\ off' = off + Len(Head(wire))
  /\ wire' = Tail(wire)
  /\ UNCHANGED <<clock, skew, remote, rpc, listed, size, readTo, result, calm,
                 edits, fails>>

Finish ==
  /\ rpc = "receive" /\ wire = <<>> /\ ~ MoreToRead
  /\ rpc' = "idle" /\ result' = "fetched"
  /\ UNCHANGED <<clock, skew, remote, local, listed, size, readTo, wire, off,
                 calm, edits, fails>>

(* The pull is killed, or the connection breaks: the copy stays as it is,   *)
(* or truncated if that had been done and the write had not.                *)
Fail ==
  /\ rpc # "idle" /\ fails < MaxFails
  /\ rpc' = "idle" /\ result' = "failed"
  /\ wire' = <<>>
  /\ \/ UNCHANGED local
     \/ /\ rpc = "receive" /\ wire # <<>> /\ off = 0
        /\ local' = Stamped(<<>>)
  /\ fails' = fails + 1
  /\ UNCHANGED <<clock, skew, remote, listed, size, readTo, off, calm, edits>>

PullStep ==
  List \/ Skip \/ Want \/ StatFile \/ ReadBlock \/ WriteChunk \/ Finish

Next == Tick \/ Edit \/ PullStep \/ Fail

Spec == Init /\ [][Next]_vars

(* A pull that was started runs on, and the user starts another; time need  *)
(* not pass nor the file change.                                            *)
FairSpec == Spec /\ WF_vars(PullStep)

-----------------------------------------------------------------------------
TypeOK ==
  /\ clock \in 0..MaxTime /\ skew \in Skews
  /\ remote \in [data : Contents, mtime : 0..clock]
  /\ local \in Copy \cup {NoCopy}
  /\ rpc \in {"idle", "listed", "wanted", "receive"}
  /\ listed \in FileInfo
  /\ size \in Nat /\ readTo \in 0..size /\ off \in 0..readTo
  /\ wire \in Seq(Seq(Block))
  /\ result \in {"none", "skipped", "fetched", "failed"}
  /\ calm \in BOOLEAN
  /\ edits \in 0..MaxEdits /\ fails \in 0..MaxFails

Ended(how) == rpc = "idle" /\ result = how

Same == local # NoCopy /\ local.data = remote.data

(* A pull that fetched the file while nobody edited it leaves an exact copy, *)
(* whatever an older pull, perhaps one that failed, had left there.         *)
QuietPullDelivers == Ended("fetched") /\ calm => Same

(* A pull that was killed, or broke, leaves nothing that a later one takes  *)
(* for the file: what a pull passes over is the file, unless that has been  *)
(* edited.  (Then it need not be.  A file rewritten in equal length within  *)
(* the tolerance of the client's last write is passed over, and so is the   *)
(* mixture that remains of a file rewritten while it was read.)             *)
SkippedIsSameUnlessEdited == Ended("skipped") /\ edits = 0 => Same

(* Pulled again and again, a copy settles: between pulls it is the file, or *)
(* its size and time hide for ever that it is not.  A copy whose time never *)
(* agrees is fetched, and so truncated and written, each time anew.         *)
Settles == <>[](rpc = "idle" => Same \/ Exists(Listing))

(* README: "existing and identical files are skipped automatically, by size *)
(* and modification time".  So what was pulled and not edited since is not  *)
(* downloaded again.                                                        *)
IdenticalIsSkipped == [][Want => ~ Same]_vars
=============================================================================
