---------------------------- MODULE HttpDownload ----------------------------
(***************************************************************************)
(* One GET /download: handleDownload streams a directory as a zip archive, *)
(* walking it while others change it, and serveFile streams a single file. *)
(*                                                                         *)
(* An archive is a sequence of entries; a reader sees it once the central  *)
(* directory is written and the response has ended properly.               *)
(***************************************************************************)
EXTENDS Integers, Sequences, FiniteSets

CONSTANTS
  Order,        \* the paths at and below the target, in the walk's order
  Top,          \* the target itself
  Parent,       \* path -> the directory it is in
  Block,        \* contents of one block of a file
  InitDisks,    \* the trees the server may start with
  EditEntries,  \* what an edit may leave at a path
  MaxEdits      \* bound: edits in one behaviour

Path == { Order[i] : i \in 1..Len(Order) }

(* A walk reports what Lstat says: a link is no directory to it, even one   *)
(* to a directory ("dirlink"), which can be opened but not read.            *)
Kind  == {"absent", "file", "link", "dir", "dirlink"}
Entry == [kind : Kind, data : Seq(Block)]

Position(p) == CHOOSE i \in 1..Len(Order) : Order[i] = p

(* A walk comes to a directory, then to all that is below it, then goes on: *)
(* the entries between a directory and one in it are below the directory.   *)
ASSUME OrderAssumption ==
  /\ Order \in Seq(Path)
  /\ \A i, j \in 1..Len(Order) : Order[i] = Order[j] => i = j
  /\ \A p \in Path \ {Top} : Position(Parent[p]) < Position(p)
  /\ \A p, q \in Path \ {Top} :
       Position(Parent[p]) < Position(q) /\ Position(q) < Position(p) =>
         Position(Parent[p]) <= Position(Parent[q])

ASSUME HttpAssumption ==
  /\ Top \in Path
  /\ Parent \in [Path -> Path]
  /\ InitDisks \subseteq [Path -> Entry]
  /\ EditEntries \subseteq Entry
  /\ MaxEdits \in Nat

VARIABLES
  atRoot,    \* the target is a root directory and no path below one
  disk,      \* path -> entry
  hpc,       \* where the handler is
  pending,   \* paths the walk has still to visit, next one first
  archive,   \* entries written so far: path, data
  failed,    \* the walk returned an error
  declared,  \* serveFile: Content-Length
  response,  \* "open", "complete" or "cut", as the client sees it
  link,      \* "up" or "down": the client may go away
  steady,    \* history: paths nobody has edited since the request
  edits      \* how many edits there have been

vars == <<atRoot, disk, hpc, pending, archive, failed, declared, response,
          link, steady, edits>>

Init ==
  /\ atRoot \in BOOLEAN
  /\ disk \in InitDisks
  /\ hpc = "lookup"
  /\ pending = <<>> /\ archive = <<>> /\ failed = FALSE
  /\ declared = 0
  /\ response = "open" /\ link = "up"
  /\ steady = Path /\ edits = 0

-----------------------------------------------------------------------------
Visiting == Head(pending)
Last     == Len(archive)

(* The names of a set in the order of the walk, which is that of sorted     *)
(* names in every directory.                                                *)
Before(p, names) == { q \in names : Position(q) < Position(p) }

Sorted(names) ==
  [ i \in 1..Cardinality(names) |->
      CHOOSE p \in names : Cardinality(Before(p, names)) = i - 1 ]

Names(d) == { p \in Path \ {Top} : Parent[p] = d /\ disk[p].kind # "absent" }

(* The names in a directory, read at once when it is visited. *)
Children(d) == Sorted(Names(d))

(* A path below a root is looked up with Stat, which follows links; a root  *)
(* is taken as it is, or as it is no more.                                  *)
LookupDirectory ==
  /\ hpc = "lookup"
  /\ atRoot \/ disk[Top].kind \in {"dir", "dirlink"}
  /\ pending' = <<Top>>
  /\ hpc' = "walk"
  /\ UNCHANGED <<atRoot, disk, archive, failed, declared, response, link, steady, edits>>

(* serveFile: a single entry, named for the file. *)
LookupFile ==
  /\ hpc = "lookup" /\ ~ atRoot
  /\ disk[Top].kind \in {"file", "link"}
  /\ archive' = <<[path |-> Top, data |-> <<>>]>>
  /\ declared' = Len(disk[Top].data)
  /\ hpc' = "serve"
  /\ UNCHANGED <<atRoot, disk, pending, failed, response, link, steady, edits>>

NotFound ==
  /\ hpc = "lookup" /\ ~ atRoot
  /\ disk[Top].kind \in {"absent", "file", "link"}   \* gone, or not to be opened
  /\ hpc' = "done"
  /\ UNCHANGED <<atRoot, disk, pending, archive, failed, declared, response,
                 link, steady, edits>>

-----------------------------------------------------------------------------
(* The walk, one action per turn of its callback or per system call in it.  *)
VisitDirectory ==
  /\ hpc = "walk" /\ pending # <<>>
  /\ disk[Visiting].kind = "dir"
  /\ pending' = Children(Visiting) \o Tail(pending)
  /\ UNCHANGED <<atRoot, disk, hpc, archive, failed, declared, response, link, steady,
                 edits>>

CreateHeader ==
  /\ hpc = "walk" /\ pending # <<>>
  /\ disk[Visiting].kind \in {"file", "link", "dirlink"}
  /\ archive' = Append(archive, [path |-> Visiting, data |-> <<>>])
  /\ hpc' = "open"
  /\ UNCHANGED <<atRoot, disk, pending, failed, declared, response, link, steady, edits>>

OpenFile ==
  /\ hpc = "open"
  /\ disk[Visiting].kind # "absent"
  /\ hpc' = "copy"
  /\ UNCHANGED <<atRoot, disk, pending, archive, failed, declared, response,
                 link, steady, edits>>

(* io.Copy, a block at a time. *)
Copied(p) ==
  /\ Len(archive[Last].data) < Len(disk[p].data)
  /\ archive' = [archive EXCEPT ![Last].data =
                   Append(@, disk[p].data[Len(@) + 1])]

CopyBlock ==
  /\ hpc = "copy"
  /\ disk[Visiting].kind \in {"file", "link"}
  /\ Copied(Visiting)
  /\ UNCHANGED <<atRoot, disk, hpc, pending, failed, declared, response, link, steady,
                 edits>>

CopyEndsEarly ==                           \* Mutant: the last block is lost
  /\ hpc = "copy"
  /\ disk[Visiting].kind \in {"file", "link"}
  /\ Len(archive[Last].data) + 1 >= Len(disk[Visiting].data)
  /\ pending' = Tail(pending)
  /\ hpc' = "walk"
  /\ UNCHANGED <<atRoot, disk, archive, failed, declared, response, link, steady, edits>>

CopyEnds ==
  /\ hpc = "copy"
  /\ disk[Visiting].kind \in {"file", "link"}
  /\ Len(archive[Last].data) >= Len(disk[Visiting].data)
  /\ pending' = Tail(pending)
  /\ hpc' = "walk"
  /\ UNCHANGED <<atRoot, disk, archive, failed, declared, response, link, steady, edits>>

(* Mutant: the callback skips what it has an error for. *)
WalkSkips ==
  /\ \/ hpc \in {"open", "copy"}
     \/ hpc = "walk" /\ pending # <<>>
  /\ pending' = Tail(pending)
  /\ hpc' = "walk"
  /\ UNCHANGED <<atRoot, disk, archive, failed, declared, response, link, steady, edits>>

(* Mutant: what fails is tried again. *)
WalkRetries ==
  /\ \/ hpc \in {"open", "copy"}
     \/ hpc = "walk" /\ pending # <<>>
  /\ UNCHANGED vars

(* A stat, a read, an open or a write failed, as opening or visiting what   *)
(* is gone and reading a directory always do.  The callback returns the     *)
(* error and that ends the walk; the error is logged.                       *)
WalkFails ==
  /\ \/ hpc \in {"open", "copy"}
     \/ hpc = "walk" /\ pending # <<>>
  /\ failed' = TRUE
  /\ pending' = <<>>
  /\ hpc' = "walk"
  /\ UNCHANGED <<atRoot, disk, archive, declared, response, link, steady, edits>>

(* The deferred zw.Close writes the central directory, and the handler's    *)
(* return ends the response, in either case.                                *)
CloseArchive ==
  /\ hpc = "walk" /\ pending = <<>>
  /\ response' = IF link = "up" THEN "complete" ELSE "cut"
  /\ hpc' = "done"
  /\ UNCHANGED <<atRoot, disk, pending, archive, failed, declared, link, steady, edits>>

-----------------------------------------------------------------------------
(* serveFile's copy.  The client reads Content-Length bytes and no more.    *)
ServeBlock ==
  /\ hpc = "serve" /\ link = "up"
  /\ Len(archive[Last].data) < declared
  /\ Copied(Top)
  /\ UNCHANGED <<atRoot, disk, hpc, pending, failed, declared, response, link, steady,
                 edits>>

ServeEndsWithoutLength ==                  \* Mutant: no Content-Length
  /\ hpc = "serve"
  /\ \/ Len(archive[Last].data) >= Len(disk[Top].data)
     \/ link = "down"
  /\ response' = IF link = "up" THEN "complete" ELSE "cut"
  /\ hpc' = "done"
  /\ UNCHANGED <<atRoot, disk, pending, archive, failed, declared, link, steady, edits>>

(* The end of the file, or a read or a write that failed: the result of     *)
(* io.Copy is ignored, and net/http cuts the connection if bytes are owed.  *)
ServeEnds ==
  /\ hpc = "serve"
  /\ response' = IF link = "up" /\ Len(archive[Last].data) = declared
                 THEN "complete" ELSE "cut"
  /\ hpc' = "done"
  /\ UNCHANGED <<atRoot, disk, pending, archive, failed, declared, link, steady, edits>>

-----------------------------------------------------------------------------
(* Somebody writes, makes, removes or replaces a file, a link or a          *)
(* directory, which takes what is below it along.  A file that is open is    *)
(* read on if it is removed, so edits that remove one wait.                  *)
IsOpen(p) ==
  \/ hpc = "copy" /\ p = Visiting
  \/ hpc = "serve" /\ p = Top

Gone == [kind |-> "absent", data |-> <<>>]

Below(d) ==
  LET isBelow[p \in Path] == p # Top /\ (Parent[p] = d \/ isBelow[Parent[p]])
  IN  { p \in Path : isBelow[p] }

Edit ==
  /\ edits < MaxEdits
  /\ \E p \in Path, e \in EditEntries :
       /\ p # Top => disk[Parent[p]].kind = "dir"
       /\ e # disk[p]
       /\ disk' = [q \in Path |-> IF q = p THEN e
                                 ELSE IF q \in Below(p) THEN Gone ELSE disk[q]]
  /\ \A q \in Path : IsOpen(q) => disk'[q].kind = disk[q].kind
  /\ steady' = { q \in steady : disk'[q] = disk[q] }
  /\ edits' = edits + 1
  /\ UNCHANGED <<atRoot, hpc, pending, archive, failed, declared, response, link>>

Leave ==
  /\ link = "up"
  /\ link' = "down"
  /\ UNCHANGED <<atRoot, disk, hpc, pending, archive, failed, declared, response,
                 steady, edits>>

Answered == hpc = "done" /\ UNCHANGED vars

Handler ==
  \/ LookupDirectory \/ LookupFile \/ NotFound
  \/ VisitDirectory \/ CreateHeader \/ OpenFile \/ CopyBlock \/ CopyEnds
  \/ WalkFails \/ CloseArchive
  \/ ServeBlock \/ ServeEnds

Next == Handler \/ Edit \/ Leave \/ Answered

Spec == Init /\ [][Next]_vars

(* The handler is a goroutine that keeps being scheduled. *)
FairSpec == Spec /\ WF_vars(Handler)

-----------------------------------------------------------------------------
TypeOK ==
  /\ atRoot \in BOOLEAN
  /\ disk \in [Path -> Entry]
  /\ hpc \in {"lookup", "walk", "open", "copy", "serve", "done"}
  /\ pending \in Seq(Path)
  /\ archive \in Seq([path : Path, data : Seq(Block)])
  /\ failed \in BOOLEAN
  /\ declared \in Nat
  /\ response \in {"open", "complete", "cut"}
  /\ link \in {"up", "down"}
  /\ steady \in SUBSET Path
  /\ edits \in 0..MaxEdits
  /\ hpc \in {"open", "copy"} => pending # <<>> /\ archive # <<>>

Held(p) == \E i \in 1..Last : archive[i].path = p
Whole(i) == archive[i].data = disk[archive[i].path].data
Readable(p) == disk[p].kind \in {"file", "link"}

(* The paths a walk comes to when nobody interferes: the least set with Top *)
(* and, with a directory, what is in it.                                    *)
IsIn(q, d) == q # Top /\ Parent[q] = d /\ {q, d} \subseteq steady /\ disk[d].kind = "dir"

Closed(S) == Top \in S /\ \A q, d \in Path : d \in S /\ IsIn(q, d) => q \in S

Reached(p) == \A S \in SUBSET Path : Closed(S) => p \in S

(* A walk that fails cuts the archive off after some entry: all the others  *)
(* that nobody touched are whole, and so is that one if the walk went well. *)
OnlyLastEntryCut ==
  response = "complete" =>
    \A i \in 1..Last :
      archive[i].path \in steady /\ (failed => i < Last) => Whole(i)

(* An archive whose walk went well holds every file that was there all the  *)
(* time, whatever came and went around it.                                  *)
NothingMissedUnlessFailed ==
  response = "complete" /\ ~failed =>
    \A p \in steady : Readable(p) /\ Reached(p) => Held(p)

(* A single file arrives with the length it had when the download began, and *)
(* whole if nobody touched it, or the client sees that it was cut: a file    *)
(* that shrinks is not taken for a whole one, as it is by a pull.            *)
FileWholeOrCut ==
  response = "complete" /\ declared > 0 =>
    Len(archive[1].data) = declared /\ (Top \in steady => Whole(1))

(* Every request is answered. *)
DownloadEnds == <>(hpc = "done")

(* README: "keeps the complete directory structure and the files in it", of *)
(* an archive the browser took for complete.                                *)
CompleteArchiveHoldsAll ==
  response = "complete" =>
    \A p \in steady : Readable(p) /\ Reached(p) => Held(p)
=============================================================================
