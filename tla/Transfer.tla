------------------------------ MODULE Transfer ------------------------------
(***************************************************************************)
(* One pull: a client (Puller) and its session on the server (Session)     *)
(* over one connection, while others change the server's disk and the      *)
(* connection may break.                                                   *)
(***************************************************************************)
EXTENDS Session, Puller, FiniteSets

CONSTANTS
  InitDisks,    \* the trees the server may start with
  InitLocals,   \* the trees the client may start with
  EditEntries,  \* what an edit may leave at a path of the server's disk
  MaxEdits      \* bound: edits of the server's disk in one behaviour

ASSUME TransferAssumption ==
  /\ InitDisks \subseteq [Dir -> [Path -> Entry]]
  /\ InitLocals \subseteq [Path -> LocalEntry]
  /\ EditEntries \subseteq Entry
  /\ MaxEdits \in Nat
  /\ NoJob \notin Job

VARIABLE edits    \* how many edits there have been

vars == <<wireVars, sessionVars, pullerVars, disk, edits>>

Init ==
  /\ WireInit /\ SessionInit /\ PullerInit
  /\ disk \in InitDisks
  /\ local \in InitLocals
  /\ edits = 0

-----------------------------------------------------------------------------
(* Somebody changes a file on the server.  A file removed while the session *)
(* has it open is read on unhindered, so edits that change the kind of an   *)
(* entry wait for it to be closed; its contents may change at any time.     *)
IsOpen(d, p)  == spc \in {"send", "close"} /\ cur.dir = d /\ cur.path = p
BeingSent(p)  == spc \in {"open", "send"} /\ cur.path = p

Edit ==
  /\ edits < MaxEdits
  /\ \E d \in Dir, p \in Path, e \in EditEntries :
       /\ e # disk[d][p]
       /\ IsOpen(d, p) => e.kind = disk[d][p].kind
       /\ disk' = [disk EXCEPT ![d][p] = e]
       /\ unsteady' = IF BeingSent(p) THEN unsteady \cup {p} ELSE unsteady
  /\ edits' = edits + 1
  /\ UNCHANGED <<wireVars, spc, listRoot, queue, cur, sent, skipped, pullerVars>>

Break ==
  /\ link = "up"
  /\ link' = "down"
  /\ UNCHANGED <<toServer, toClient, wbuf, werr, sessionVars, pullerVars, disk,
                 edits>>

(* The pull has returned and the session has noticed. *)
Finished ==
  /\ cpc \in {"ok", "failed"} /\ spc = "ended"
  /\ UNCHANGED vars

SessionStep == SessionNext /\ UNCHANGED <<pullerVars, disk, edits>>
PullerStep  == PullerNext /\ UNCHANGED <<sessionVars, disk, edits>>

Next == SessionStep \/ PullerStep \/ Edit \/ Break \/ Finished

Spec == Init /\ [][Next]_vars

(* Each side is a goroutine the scheduler keeps running; nothing obliges    *)
(* anybody to edit files or the connection to break.                        *)
FairSpec == Spec /\ WF_vars(SessionStep) /\ WF_vars(PullerStep)

-----------------------------------------------------------------------------
TypeOK == WireTypeOK /\ SessionTypeOK /\ PullerTypeOK /\ edits \in 0..MaxEdits

Asked       == { toDownload[i] : i \in 1..(next - 1) }
Outstanding == IF cpc = "recv" THEN Asked \ acked ELSE {}

(* Both sides block in Decode with nothing left to decode. *)
MutualWait ==
  /\ link = "up"
  /\ spc = "decode" /\ toServer = <<>>
  /\ cpc \in {"list", "recv"} /\ toClient = <<>>

(* What WriteChunk left in the bufio.Writer is flushed before the session   *)
(* waits for the client again: neither a file that ended early nor one that *)
(* failed leaves chunks behind that nobody would ever push out.             *)
ServerFlushesBeforeWaiting ==
  spc \in {"decode", "next", "stat"} /\ ~werr => wbuf = <<>>

(* Download's loop and handleDownload's loop can only wait for each other   *)
(* for ever over a path that had become a directory when it was stat'd,     *)
(* which handleDownload passes over without an answer.                      *)
StuckOnlyOnDirectory ==
  MutualWait => cpc = "recv" /\ Outstanding \cap skipped # {}

(* Download's counter, which ignores the path of a BatchDone, counts exactly *)
(* the requested files that were not acknowledged.                          *)
CounterMatchesOutstanding ==
  cpc = "recv" => remaining = Cardinality(Outstanding)

(* A file that nobody edited between its stat and its last chunk arrives    *)
(* byte for byte, whatever was in its place before, however it was cut into *)
(* chunks, and whichever files were sent around it.                         *)
UnchangedFileArrivesWhole ==
  \A p \in acked \ unsteady :
    local[p] = [kind |-> "file", data |-> sent[p].seen]

(* Of a file that was edited while it was sent, the client still holds      *)
(* exactly the bytes the server framed, in order.                           *)
LocalHoldsWhatWasSent ==
  \A p \in acked :
    sent[p].chunks > 0 => local[p] = [kind |-> "file", data |-> sent[p].data]

(* Progress counts a file as done exactly when all the bytes its stat       *)
(* promised were sent: the summary's count tells a short file from a whole  *)
(* one, although Pull reports success for both.                             *)
DoneMeansWhole ==
  \A p \in acked :
    p \in done <=> sent[p].chunks > 0 /\ Len(sent[p].data) >= Len(sent[p].seen)

(* The progress bar drawn after a batch is never filled beyond its width,    *)
(* at which Render would panic in the middle of a pull, unless a file of the *)
(* batch was edited while it was sent: Update's bytes and AddFile's size     *)
(* come from different looks at the file, yet Done makes them agree.        *)
BarFitsUnlessEdited ==
  cpc = "render" /\ BarOverflows => acked \cap unsteady # {}

(* handleDownload looks at a file under one root and opens its path under   *)
(* another only after somebody changed the disk, or where it lists a        *)
(* dangling link, which the walk's Lstat sees and resolveFilePath's Stat    *)
(* does not: any other path of the listing is found where it was listed,    *)
(* whatever else the roots hold.                                            *)
StraysOnlyAfterEditOrByDeadLink ==
  cur # NoJob /\ cur.found # cur.dir =>
    edits > 0 \/ disk[cur.dir][cur.path].kind = "deadlink"

(* A pull writes a local file only while it waits for that very file, and   *)
(* otherwise only makes directories where nothing was.                      *)
WritesOnlyOutstanding ==
  [][\A p \in Path :
       local'[p] # local[p] =>
         \/ p \in Outstanding
         \/ local[p].kind = "absent" /\ local'[p].kind = "dir"]_vars

(* What Pull promises: see Delivery. *)
Outcome == IF cpc \in {"ok", "failed"} THEN cpc ELSE "running"

Promise == INSTANCE Delivery WITH
  wanted    <- { toDownload[i] : i \in 1..Len(toDownload) },
  asked     <- Asked,
  delivered <- acked,
  outcome   <- Outcome

KeepsPromise == Promise!Spec

(* A pull returns, whatever fails or changes on the way, unless a path it   *)
(* waits for was a directory when the session looked at it: handleDownload  *)
(* passes over that without an answer.                                      *)
ReturnsUnlessOnDirectory ==
  <>(cpc \in {"ok", "failed"} \/ Outstanding \cap skipped # {})

(* A session whose client is gone ends. *)
SessionFollows == link = "down" ~> spc = "ended"

-----------------------------------------------------------------------------
(* What comments in the code say of it.                                     *)

(* messages.go: "BatchDone signals that all requested files have been fully *)
(* sent."  So a client that waits for it is not left waiting.               *)
NoMutualWait == ~ MutualWait
=============================================================================
