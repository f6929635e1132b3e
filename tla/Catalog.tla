------------------------------- MODULE Catalog -------------------------------
(***************************************************************************)
(* Names: how the two servers find what a request names below the shared   *)
(* roots, and list it while the tree changes.  A browser types a path or   *)
(* follows a link of the page it shows (handleBrowse and its template,     *)
(* handleDownload up to its target); a client asks for a listing of one    *)
(* level or of all (handleList with resolveRoot, WalkShallow and Walk).    *)
(*                                                                         *)
(* A node is a place in the tree: the number of a root, then names.  What  *)
(* a link to a directory leads to is taken to lie below the link.          *)
(***************************************************************************)
EXTENDS Integers, SequencesExt

CONSTANTS
  Name,
  Nodes,        \* the places in the tree, in the order of a walk
  Namings,      \* base names the roots may have, in order
  PathOrder,    \* paths below a directory, in the order of strings; <<>> is "."
  Asked,        \* name -> what a browser asks for that follows a link to it: what
                \* precedes the first # or ?, its valid %XX decoded
  Cut,          \* the names that hold a # or ?, where such a link ends
  NoName,       \* what is asked for if nothing precedes the # or ?
  InitDisks,    \* the trees the servers may start with
  EditPlaces,   \* bound: the places that are edited
  EditKinds,    \* what an edit may leave there
  MaxEdits,     \* bound: edits in one behaviour
  NoNode

Node    == { Nodes[i] : i \in 1..Len(Nodes) }
Kind    == {"absent", "file", "dir", "dirlink", "deadlink"}
ReqPath == { Tail(n) : n \in Node } \cup
             UNION { { << naming[n[1]] >> \o Tail(n) : n \in Node } : naming \in Namings }

(* Somewhere above every node is a root, and all between is a node too. *)
ASSUME NodeAssumption ==
  /\ Nodes \in Seq(Seq(Nat \cup Name))
  /\ \A n \in Node :
       /\ n # <<>> /\ Tail(n) \in Seq(Name)
       /\ \A i \in 1..Len(n) : SubSeq(n, 1, i) \in Node
  /\ NoNode \notin Node

ASSUME CatalogAssumption ==
  /\ \A naming \in Namings :
       /\ naming \in Seq(Name) /\ naming # <<>>
       /\ \A i \in 1..Len(naming) : << i >> \in Node
       /\ \A n \in Node : n[1] \in 1..Len(naming)
  /\ Asked \in [Name -> Name \cup {NoName}] /\ NoName \notin Name
  /\ Cut \subseteq Name /\ \A n \in Name \ Cut : Asked[n] # NoName
  /\ InitDisks \subseteq [Node -> Kind]
  /\ \A d \in InitDisks, n \in Node :
       Len(n) > 1 /\ d[n] # "absent" => d[Front(n)] \in {"dir", "dirlink"}
  /\ EditPlaces \subseteq Node /\ EditKinds \subseteq Kind
  /\ MaxEdits \in Nat

(* A path precedes what is below it.  The directory itself is ".", and that *)
(* may come after a name: of those that begin with a blank, !, #, $, (, -.  *)
ASSUME PathAssumption ==
  /\ PathOrder \in Seq(Seq(Name))
  /\ \A n \in Node : \A i \in 2..Len(n) + 1 :
       \E j \in 1..Len(PathOrder) : PathOrder[j] = SubSeq(n, i, Len(n))
  /\ \A i, j \in 1..Len(PathOrder) :
       PathOrder[i] # <<>> /\ IsStrictPrefix(PathOrder[i], PathOrder[j]) => i < j

VARIABLES
  rootNames,   \* filepath.Base of each root
  disk,        \* node -> kind
  pc,          \* where the handler is; "idle" when it has answered
  how,         \* the request: "browse", "download", "shallow" or "deep"
  path,        \* what it names
  shown,       \* the path its link was made from
  meant,       \* the node its link stood for, NoNode if the path was typed
  k,           \* resolveRoot's loop: the root it looks at next
  target,      \* the directory or file found
  pending,     \* entries still to be looked at
  dirs,        \* those that ReadDir said were directories
  listing,     \* entries seen: node, isDir
  answer,      \* "page", "listing", "file", "archive", "404" or "500"
  page,        \* the page the browser shows: path, target, entries
  steady,      \* history: nodes not edited since the request
  pageSteady,  \* history: nodes not edited since the page's request
  edits

vars == <<rootNames, disk, pc, how, path, shown, meant, k, target, pending, dirs,
          listing, answer, page, steady, pageSteady, edits>>

request == <<how, path, shown, meant>>

walk == <<k, target, pending, dirs, listing>>

NumRoots == Len(rootNames)

(* Lstat looks at a link itself, Stat at what it leads to. *)
IsDir(n)   == n \in Node /\ disk[n] = "dir"                 \* Lstat
StatDir(n) == n \in Node /\ disk[n] \in {"dir", "dirlink"}  \* Stat
Exists(n) == n \in Node /\ disk[n] # "absent"               \* Lstat
StatFinds(n) == n \in Node /\ disk[n] \in {"file", "dir", "dirlink"}

(* A finite set in the order of a relation. *)
Ranked(S, less) ==
  [ i \in 1..Cardinality(S) |->
      CHOOSE x \in S : Cardinality({ y \in S : << y, x >> \in less }) = i - 1 ]

Position(n) == CHOOSE i \in 1..Len(Nodes) : Nodes[i] = n

WalkOrder == { mn \in Node \X Node : Position(mn[1]) < Position(mn[2]) }

IsIn(n, d) == Len(n) = Len(d) + 1 /\ IsPrefix(d, n)

Children(d) == Ranked({ n \in Node : IsIn(n, d) /\ Exists(n) }, WalkOrder)

-----------------------------------------------------------------------------
(* The links of a page.  The template escapes a path in full as the query   *)
(* of a download; in the path of a browse link it leaves # and ? alone, and *)
(* a valid %XX as it is, which the browser's request and net/http then read *)
(* as an end and as a character.                                            *)
RootEntries ==
  [ i \in 1..NumRoots |-> [node |-> << i >>, isDir |-> TRUE] ]

RootPage == [path |-> <<>>, target |-> NoNode, entries |-> RootEntries]

BaseName(n) == IF Len(n) = 1 THEN rootNames[n[1]] ELSE Last(n)

Whole(p) == \A i \in 1..Len(p) : p[i] \notin Cut /\ Asked[p[i]] = p[i]

AsFollowed(p) ==
  LET cuts  == { i \in 1..Len(p) : p[i] \in Cut }
      end   == IF cuts = {} THEN Len(p) ELSE Min(cuts)
      asked == [ i \in 1..end |-> Asked[p[i]] ]
  IN  IF end > 0 /\ asked[end] = NoName THEN Front(asked) ELSE asked

-----------------------------------------------------------------------------
Init ==
  /\ rootNames \in Namings
  /\ disk \in InitDisks
  /\ pc = "idle"
  /\ how = "browse" /\ path = <<>> /\ shown = <<>> /\ meant = NoNode
  /\ k = 1 /\ target = NoNode /\ pending = <<>> /\ dirs = {} /\ listing = <<>>
  /\ answer = "page" /\ page = RootPage
  /\ steady = Node /\ pageSteady = Node
  /\ edits = 0

Ask(h, p, q, n) ==
  /\ pc = "idle"
  /\ how' = h /\ path' = p /\ shown' = q /\ meant' = n
  /\ pc' = "find"
  /\ k' = 1 /\ target' = NoNode /\ pending' = <<>> /\ dirs' = {}
  /\ listing' = <<>>
  /\ answer' = "none"
  /\ steady' = Node
  /\ UNCHANGED <<rootNames, disk, page, pageSteady, edits>>

Type ==
  \E h \in {"browse", "download", "shallow", "deep"}, p \in ReqPath \cup {<<>>} :
    Ask(h, p, p, NoNode)

Browse(p, n)   == Ask("browse", AsFollowed(p), p, n)
Download(p, n) == Ask("download", p, p, n)

(* The two links of an entry, of which a file has the second only; those of *)
(* the crumbs, the last of which is the parent's too; and "download this    *)
(* directory".                                                              *)
FollowEntry ==
  \E i \in 1..Len(page.entries) :
    LET e == page.entries[i]
        p == Append(page.path, BaseName(e.node))
    IN  (e.isDir /\ Browse(p, e.node)) \/ Download(p, e.node)

FollowCrumb ==
  \E i \in 1..Len(page.path) - 1 :
    Browse(SubSeq(page.path, 1, i), SubSeq(page.target, 1, i))

DownloadThis == page.path # <<>> /\ Download(page.path, page.target)

Follow == FollowEntry \/ FollowCrumb \/ DownloadThis

(* The handler returns. *)
Answer(a) ==
  /\ pc' = "idle" /\ answer' = a
  /\ UNCHANGED <<rootNames, disk, request, page, steady, pageSteady, edits>>

Show(p) ==
  /\ pc' = "idle" /\ answer' = "page" /\ page' = p
  /\ pageSteady' = steady
  /\ UNCHANGED <<rootNames, disk, request, steady, edits>>

GoOn(place) ==
  /\ pc' = place
  /\ UNCHANGED <<rootNames, disk, request, answer, page, steady, pageSteady, edits>>

OverHttp == how \in {"browse", "download"}

-----------------------------------------------------------------------------
(* handleBrowse, handleDownload: the first root with the name of the first  *)
(* segment, and below it the rest, by one Stat.                             *)
LastNamed(name) ==                           \* Mutant: the loop does not break
  CHOOSE i \in 1..NumRoots : rootNames[i] = name
    /\ \A j \in i + 1..NumRoots : rootNames[j] # name

FirstNamed(name) ==
  CHOOSE i \in 1..NumRoots : rootNames[i] = name
    /\ \A j \in 1..i - 1 : rootNames[j] # name

Named(name) == \E i \in 1..NumRoots : rootNames[i] = name

Candidate == << FirstNamed(path[1]) >> \o Tail(path)

BrowseRoots ==
  /\ pc = "find" /\ how = "browse" /\ path = <<>>
  /\ Show(RootPage)
  /\ UNCHANGED walk

KnownRoot == path # <<>> /\ Named(path[1])

NoSuchRoot ==
  /\ pc = "find" /\ OverHttp
  /\ ~ KnownRoot
  /\ path = <<>> => how = "download"
  /\ Answer("404")
  /\ UNCHANGED walk

NothingBelowRoot ==
  /\ pc = "find" /\ OverHttp
  /\ KnownRoot /\ Len(path) > 1
  /\ ~ StatDir(Candidate)
  /\ how = "download" => ~ StatFinds(Candidate)
  /\ Answer("404")
  /\ UNCHANGED walk

(* A root is taken without looking at it. *)
HttpFound ==
  /\ pc = "find" /\ OverHttp
  /\ KnownRoot
  /\ Len(path) > 1 => StatDir(Candidate)
  /\ target' = Candidate
  /\ IF how = "browse" THEN GoOn("read") ELSE Answer("archive")
  /\ UNCHANGED <<k, pending, listing, dirs>>

HttpFile ==
  /\ pc = "find" /\ how = "download"
  /\ KnownRoot /\ Len(path) > 1
  /\ StatFinds(Candidate) /\ ~ StatDir(Candidate)
  /\ target' = Candidate
  /\ Answer("file")
  /\ UNCHANGED <<k, pending, listing, dirs>>

-----------------------------------------------------------------------------
(* resolveRoot, one root in each turn. *)
ListsAll == how = "deep"

FirstStep == IF ListsAll THEN "lstat" ELSE "read"

Resolved(n) ==
  /\ target' = n
  /\ pending' = IF ListsAll THEN << n >> ELSE <<>>
  /\ GoOn(FirstStep)
  /\ UNCHANGED <<k, listing, dirs>>

ResolveDefault ==
  /\ pc = "find" /\ ~ OverHttp /\ path = <<>>
  /\ Resolved(<< 1 >>)

Backwards == NumRoots + 1 - k                \* Mutant: the last root first

Turn == k

Below(root) == << root >> \o path

ResolveBelow ==
  /\ pc = "find" /\ ~ OverHttp /\ path # <<>> /\ k <= NumRoots
  /\ StatDir(Below(Turn))
  /\ Resolved(Below(Turn))

ResolveRoot ==
  /\ pc = "find" /\ ~ OverHttp /\ k <= NumRoots
  /\ path = << rootNames[Turn] >>
  /\ ~ StatDir(Below(Turn))
  /\ Resolved(<< Turn >>)

NoMoreRoots ==                               \* Mutant: only one root is tried
  /\ pc = "find" /\ ~ OverHttp /\ path # <<>> /\ k <= NumRoots
  /\ ~ StatDir(Below(Turn)) /\ path # << rootNames[Turn] >>
  /\ k' = NumRoots + 1
  /\ GoOn("find")
  /\ UNCHANGED <<target, pending, listing, dirs>>

NotBelowRoot ==
  /\ pc = "find" /\ ~ OverHttp /\ path # <<>> /\ k <= NumRoots
  /\ ~ StatDir(Below(Turn)) /\ path # << rootNames[Turn] >>
  /\ k' = k + 1
  /\ GoOn("find")
  /\ UNCHANGED <<target, pending, listing, dirs>>

NotAccessible ==
  /\ pc = "find" /\ ~ OverHttp /\ k > NumRoots
  /\ Answer("404")
  /\ UNCHANGED walk

-----------------------------------------------------------------------------
(* One level: ReadDir gives names and types at once; Info looks at each     *)
(* name again, and a name that is gone by then is left out.                 *)
ReadDir ==
  /\ pc = "read" /\ StatDir(target)
  /\ pending' = Children(target)
  /\ dirs' = { n \in Node : IsDir(n) }
  /\ GoOn("info")
  /\ UNCHANGED <<k, target, listing>>

ReadDirFails ==
  /\ pc = "read" /\ ~ StatDir(target)
  /\ Answer("500")
  /\ UNCHANGED walk

Looked ==
  IF Exists(Head(pending))
  THEN Append(listing, [node |-> Head(pending), isDir |-> Head(pending) \in dirs])
  ELSE listing

InfoStops ==                                 \* Mutant: break, not continue
  /\ pc = "info" /\ pending # <<>>
  /\ listing' = Looked
  /\ pending' = IF Exists(Head(pending)) THEN Tail(pending) ELSE <<>>
  /\ GoOn("info")
  /\ UNCHANGED <<k, target, dirs>>

Info ==
  /\ pc = "info" /\ pending # <<>>
  /\ listing' = Looked
  /\ pending' = Tail(pending)
  /\ GoOn("info")
  /\ UNCHANGED <<k, target, dirs>>

ShowPage ==
  /\ pc = "info" /\ pending = <<>> /\ how = "browse"
  /\ Show([path |-> path, target |-> target, entries |-> listing])
  /\ UNCHANGED walk

FilesFirst(l) ==                             \* Mutant
  SelectSeq(l, LAMBDA e : ~ e.isDir) \o SelectSeq(l, LAMBDA e : e.isDir)

(* Directories first; either part in the order of the paths, which are told *)
(* from the directory that is listed.                                       *)
Rank(p) == CHOOSE i \in 1..Len(PathOrder) : PathOrder[i] = p

RelPath(e) == SubSeq(e.node, Len(target) + 1, Len(e.node))

DirsFirst(l) ==
  { ij \in (1..Len(l)) \X (1..Len(l)) :
      LET e == l[ij[1]]
          f == l[ij[2]]
      IN  IF e.isDir # f.isDir THEN e.isDir
          ELSE \/ Rank(RelPath(e)) < Rank(RelPath(f))
               \/ e.node = f.node /\ ij[1] < ij[2] }

Sorted(l) ==
  LET order == Ranked(1..Len(l), DirsFirst(l)) IN [ i \in 1..Len(l) |-> l[order[i]] ]

SendListing ==
  /\ pc \in {"info", "lstat"} /\ pending = <<>> /\ ~ OverHttp
  /\ listing' = Sorted(listing)
  /\ Answer("listing")
  /\ UNCHANGED <<k, target, pending, dirs>>

-----------------------------------------------------------------------------
(* All levels: Lstat of each entry, and of a directory then its names.  An  *)
(* entry that is gone ends the walk.                                        *)
Lstat ==
  /\ pc = "lstat" /\ pending # <<>> /\ Exists(Head(pending))
  /\ listing' = Append(listing, [node |-> Head(pending), isDir |-> IsDir(Head(pending))])
  /\ IF IsDir(Head(pending)) THEN UNCHANGED pending /\ GoOn("names")
                             ELSE pending' = Tail(pending) /\ GoOn("lstat")
  /\ UNCHANGED <<k, target, dirs>>

ReadNames ==
  /\ pc = "names" /\ StatDir(Head(pending))
  /\ pending' = Children(Head(pending)) \o Tail(pending)
  /\ GoOn("lstat")
  /\ UNCHANGED <<k, target, listing, dirs>>

WalkFails ==
  /\ \/ pc = "lstat" /\ pending # <<>> /\ ~ Exists(Head(pending))
     \/ pc = "names" /\ ~ StatDir(Head(pending))
  /\ Answer("500")
  /\ UNCHANGED walk

-----------------------------------------------------------------------------
(* Somebody puts something else at a place in a directory; what was below   *)
(* goes with it.                                                            *)
At(n, kind) ==
  [ m \in Node |-> IF m = n THEN kind
                   ELSE IF IsPrefix(n, m) THEN "absent" ELSE disk[m] ]

Edit ==
  /\ edits < MaxEdits
  /\ \E n \in EditPlaces, kind \in EditKinds :
       /\ Len(n) > 1 => StatDir(Front(n))
       /\ kind # disk[n]
       /\ disk' = At(n, kind)
       /\ steady' = { m \in steady : ~ IsPrefix(n, m) }
       /\ pageSteady' = { m \in pageSteady : ~ IsPrefix(n, m) }
  /\ edits' = edits + 1
  /\ UNCHANGED <<rootNames, pc, request, walk, answer, page>>

Handler ==
  \/ BrowseRoots \/ NoSuchRoot \/ NothingBelowRoot \/ HttpFound \/ HttpFile
  \/ ResolveDefault \/ ResolveBelow \/ ResolveRoot \/ NotBelowRoot \/ NotAccessible
  \/ ReadDir \/ ReadDirFails \/ Info \/ ShowPage \/ SendListing
  \/ Lstat \/ ReadNames \/ WalkFails

Next == Type \/ Follow \/ Handler \/ Edit

Spec == Init /\ [][Next]_vars

-----------------------------------------------------------------------------
Listed == [node : Node, isDir : BOOLEAN]

TypeOK ==
  /\ rootNames \in Namings
  /\ disk \in [Node -> Kind]
  /\ pc \in {"idle", "find", "read", "info", "lstat", "names"}
  /\ how \in {"browse", "download", "shallow", "deep"}
  /\ path \in Seq(Name) /\ shown \in Seq(Name)
  /\ meant \in Node \cup {NoNode}
  /\ k \in 1..NumRoots + 1
  /\ target \in Node \cup {NoNode}
  /\ pending \in Seq(Node) /\ dirs \subseteq Node
  /\ listing \in Seq(Listed)
  /\ answer \in {"none", "page", "listing", "file", "archive", "404", "500"}
  /\ page \in [path : Seq(Name), target : Node \cup {NoNode}, entries : Seq(Listed)]
  /\ pageSteady \subseteq Node /\ steady \subseteq Node
  /\ edits \in 0..MaxEdits

(* Nobody touched the node, nor what is above it.                           *)
Stood(n, untouched) == \A i \in 1..Len(n) : SubSeq(n, 1, i) \in untouched

(* A link leads to what it stands for, as long as that is still there: an   *)
(* entry's two links, the crumbs, the parent and the page's own download.   *)
(* Three things break a link: an earlier root with the same base name; a #, *)
(* a ? or a valid %XX in a name, which make a browse link one to something  *)
(* else although the download beside it works; and a link of the tree that  *)
(* leads nowhere, which a page lists and a download does not find.          *)
LinksLead ==
  /\ pc = "idle" /\ meant # NoNode
  /\ Stood(meant, pageSteady \cap steady)
  /\ Len(meant) = 1 => StatDir(meant)
  => \/ target = meant
          /\ answer \in IF how = "browse" THEN {"page"} ELSE {"file", "archive"}
     \/ FirstNamed(shown[1]) < meant[1]
     \/ how = "browse" /\ ~ Whole(shown)
     \/ how = "download" /\ ~ StatFinds(meant)

(* A listing by name is of the root that the browser shows under that name, *)
(* or of a directory of that name right below it or below an earlier root;  *)
(* and no earlier root had it all the time.                                 *)
ServersAgree ==
  pc = "idle" /\ answer = "listing" /\ path # <<>> =>
    /\ Len(path) = 1 /\ Named(path[1]) =>
         \/ target = << FirstNamed(path[1]) >>
         \/ Len(target) = 2 /\ target[1] <= FirstNamed(path[1])
    /\ \A i \in 1..target[1] - 1 :
         ~ (Stood(Below(i), steady) /\ StatDir(Below(i)))

(* What a browser's request may have.                                       *)
Servable(n) == IF how = "browse" THEN StatDir(n) ELSE StatFinds(n)

(* What was there all the time is found, a directory to browse or list and  *)
(* anything to download, whatever changes around it, and read without an    *)
(* error.                                                                   *)
FoundIfThere ==
  pc = "idle" =>
    /\ answer = "404" /\ OverHttp /\ path # <<>> =>
         ~ (Named(path[1]) /\ Stood(Candidate, steady) /\ Servable(Candidate))
    /\ answer = "404" /\ ~ OverHttp =>
         \A i \in 1..NumRoots :
           /\ path # << rootNames[i] >>
           /\ ~ (Stood(Below(i), steady) /\ StatDir(Below(i)))
    /\ answer = "500" =>
         \/ ~ StatDir(<< target[1] >>)
         \/ \E n \in Node \ steady : IsPrefix(n, target) \/ IsPrefix(target, n)

Lists(n) == \E i \in 1..Len(listing) : listing[i].node = n

InScope(n) ==
  IF ListsAll THEN IsPrefix(target, n) /\ \A i \in Len(target)..Len(n) - 1 :
                                             disk[SubSeq(n, 1, i)] = "dir"
  ELSE Len(n) = Len(target) + 1 /\ IsPrefix(target, n)

(* A page or listing holds what was in the directory from the request to    *)
(* the answer, under its kind, and nothing that was not: whatever came and  *)
(* went, and whatever entry was gone before it was looked at.               *)
ListingHoldsWhatStood ==
  pc = "idle" /\ answer \in {"page", "listing"} /\ target # NoNode =>
    \A n \in Node :
      Stood(n, steady) /\ InScope(n) =>
        /\ Exists(n) <=> Lists(n)
        /\ \A i \in 1..Len(listing) :
             listing[i].node = n => listing[i].isDir = IsDir(n)

(* Of every entry the listing holds the directory it is in, although the    *)
(* walk saw them at different times, and before it: "Directory entries come *)
(* before their children for correct client-side mkdir ordering".  The one  *)
(* exception is the directory that is listed, which as "." comes after      *)
(* those right below it whose names sort before that.                       *)
ParentsFirst ==
  pc = "idle" /\ answer = "listing" /\ ListsAll =>
    \A i \in 1..Len(listing) :
      LET e == listing[i]
      IN  \/ e.node = target
          \/ \E j \in 1..Len(listing) :
               /\ listing[j] = [node |-> Front(e.node), isDir |-> TRUE]
               /\ \/ j < i
                  \/ /\ Front(e.node) = target /\ e.isDir
                     /\ Rank(RelPath(e)) < Rank(<<>>)
=============================================================================
