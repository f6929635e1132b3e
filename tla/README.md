# goshare in TLA+

goshare shares directories on a local network. `goshare serve` answers a binary
TCP protocol, for its own client, and HTTP, for browsers; `goshare pull` mirrors a
remote directory and `goshare list` prints one. These modules model what that
program does when files change under it, connections break, buffers fill and
goroutines interleave.

## The system

| Part | State | Operations | Talks to | What makes it correct |
|---|---|---|---|---|
| Encoder, Decoder (`internal/proto`) | the 8 MB `bufio.Writer`, the reader, gob's type tables | `Encode` (flushes), `WriteChunk` (does not), `Decode` | both ends of a TCP connection | the reader gets the frames that were written, in order; nothing is left behind in the buffer while somebody waits for it |
| TCP server (`internal/tcp/server.go`) | listener, one goroutine per connection | `ListenAndServe`, `handleConn` | sessions, the process's context | it stops when told to |
| Session (`internal/tcp/session.go`) | `listRoot`, left over from the last listing | `handleList`, `handleDownload` | Decoder, Encoder, ChunkSender, the disk | each requested path is answered once, with the file that was looked at |
| ChunkSender, WriteFileChunk (`internal/transfer/chunk.go`) | a pooled buffer; the local file | `SendFile` (open, `ReadAt` ..., close), `WriteFileChunk` | Encoder; the client's disk | the chunks written over any old copy make the file |
| Engine (`internal/transfer/engine.go`) | semaphore, `WaitGroup`, results | `WalkDir`, `SendFiles` | walker, ChunkSender | bounded, and finished when it returns |
| Client (`pkg/client/conn.go`, `pull.go`) | the diff, the batch, the count of answers owed | `List`, `Download`, `Pull` | Session; local tree; Progress | it returns, success means delivered, it writes what it asked for |
| Progress (`pkg/client/progress.go`) | size, received, done per file | `AddFile`, `Update`, `Done`, `Render` | Pull | it tells a whole file from a short one and can be drawn |
| Walker, metadata (`internal/filesvc`) | none | `Walk`, `WalkShallow`, `WalkConcurrent`, `Exists` | Session, Pull | a listing holds what was there all the time, parents first (but for the listed directory itself); a file that is passed over is the file |
| HTTP server (`internal/http`) | `http.Server` | `ListenAndServe`, `handleBrowse`, `handleDownload`, `serveFile` | the browser, the disk | a link leads to what it stands for; a download is whole or seen to be cut |
| Command line (`cmd/goshare/main.go`) | the flag variables | `reorderArgs`, `FlagSet.Parse`, the switch of `main` | everything else | a command line is run as it reads |
| `runServe` (`cmd/goshare/main.go`) | context, `errCh` | start both servers, wait, cancel | both servers | a failure or a signal ends the process |

What is hard here: the disk is shared with everybody else and every step of a
transfer reads it anew (walk, stat, open, each `ReadAt`); the protocol has no
request numbers, so client and session agree only by counting answers;
`WriteChunk` never flushes; errors in a batch are answered by one side and
terminal to the other; the workers of `SendFiles` share an unlocked writer; the
servers share a context and a process that does not wait for them; the two servers
find what a name means by different loops; and nobody sets the modification times
by which a later pull decides what to fetch. There are no tests in the repository.

`PROJECT.json` lists these hazards with their lines and the properties aimed at
each.

## The modules

```
Wire ---- Session --\
     \--- Puller ----+-- Transfer -- MCTransfer (runs)
Delivery ------------/       \------ TransferProofs
Codec -- MCCodec, CodecProofs
WorkerPool -- WorkerPoolProofs
TcpServer -- Lifecycle -- LifecycleProofs
Repull -- MCRepull, RepullProofs
HttpDownload -- MCHttpDownload, HttpDownloadProofs
Catalog -- MCCatalog, CatalogProofs
Args -- MCArgs, ArgsProofs
```

**Wire** is one connection in units of frames: the two streams, the session's
write buffer and its sticky error. `Encode` appends and flushes; `WriteChunk`
keeps a frame back or displaces what was there. The buffer is counted in whole
chunk frames (`BufChunks`), since a frame of which only the head went out is of
no use to the reader. With the default sizes one 4 MB chunk with its headers
fits; a second one overflows by the headers (the comment at `codec.go:35` counts
two). Writes to a connection that is down are lost or reported.

**Session** is the server's goroutine. `spc` is its place: waiting in `Decode`,
between two files, between stat and open, between two `ReadAt`s, before the
`BatchDone`. There is one action per path through the code: `FileMissing`,
`StatFails`, `SkipDirectory` (the silent `continue`), `StatFile`, `OpenFile`,
`SendEmptyFile`, `SendChunk`, `SendStops` (`n == 0`), `SendFails`, `FinishFile`.
`ResolvesTo` is the search order of `resolveFilePath` and `SendRoot` the choice of
root that follows it, which is not the same one. The walk lists what `Lstat` finds
(`LstatFinds`), the search goes by `os.Stat` (`StatFinds`); a dangling link, kind
`deadlink`, is there for the first and not for the second. So one dangling link below
the list root is enough for a pull of it to be answered 404 and to give up, unless
another root has something of that path. `ReadAt` sees what the file holds
then, up to the size stat saw. Blocks stand for the units that `ChunkSize` is
counted in. Three variables are history: `sent` (per file, what stat saw and what
was framed), `skipped`, and `unsteady` (files edited between stat and last read,
or read from elsewhere).

**Puller** is `Pull` over `Conn`: listing, diff (`Scan`, an entry at a time, in any
order), batches of twice the concurrency, and `Download`'s loop that counts
`BatchDone`s without looking at their path. `Written` is `WriteFileChunk`: truncate at
offset zero, then overlay. `SkipExisting` keeps of `filesvc.Exists` that equal sizes
are necessary: whether modification times agree is left open here (see Repull).
`Render` and `RenderPanics` are the bar drawn after a batch, in cells of the terminal;
a bar filled beyond its width makes `strings.Repeat` panic.

**Transfer** composes them with `Edit`, a change to the server's disk, and `Break`.
An edit may rewrite any file at any time; edits that remove a file or change its
kind wait while it is open, because an open file is read on.

**Delivery** is what a caller of `Pull` may rely on: paths are collected, asked for in
groups, a group only after the last one was delivered in full, and success only
when all were. `Transfer` implements it under the mapping at `Promise`.

**Codec** is the protocol below frames: pieces written to a `bufio.Writer` of a few
cells, frames cut wherever it overflows, length fields that wrap, and a decoder
that takes the stream apart again.

**WorkerPool** is `SendFiles`: spawn, acquire, write, record, release, done, with a
write to the shared `bufio.Writer` in two steps (copy, then advance). `slots` is the
configured concurrency, one of `Concurrencies`.

**TcpServer** is the accept loop, the goroutine that closes the listener, and each
session's loop around the context. `Listen` does not look at the context, and an
`Accept` that fails before the cancellation is retried for ever: it never counts as
a failure of the server. **Lifecycle** adds the HTTP server, `errCh`, the
signal and the end of the process.

**HttpDownload** is a GET of `/download`: the walk, a directory or an entry at a time,
each file's header, open and copy, the archive that is closed in either case; and
`serveFile` with its Content-Length. A target below a root is looked up by a stat;
one that is a root (`atRoot`) is taken as it is, so that a root that is gone gives an empty
archive. An edit makes, removes or replaces a file, a link or a directory, with all
that is below it. `Order` lists the places of the tree as a walk
that finds them all would visit them; `OrderAssumption` says that a directory comes
before what is below it and that this comes before all else. `Reached` is what is
linked to the target by directories that are there now.

**Catalog** is how names are found and listed, by both servers, over a tree that is
edited between any two looks at it. A node is a place in the tree: the number of a
root and names below it, and whatever is above a node is one too (`NodeAssumption`). What
is in a tree at first stands in a directory. `IsDir` and `Exists` are what `Lstat` says,
`StatDir` and `StatFinds` what `Stat` says: they differ on links to directories and on
dangling ones. `Children` and `Sorted` are sets in an order, that of the walk and
that of `sort.Slice`: directories first, then the path strings, whose order is the
constant `PathOrder`. There the listed directory itself is `.`, the empty path of
`RelPath`, and may come behind a name. `Type` is a path that a user typed, `Follow` a
link of the page the browser still shows: an entry's two links, a crumb, the parent,
the page's own download. `FirstNamed` is the loop over roots of both HTTP handlers;
`ResolveBelow`, `ResolveRoot` and `NotBelowRoot` are a turn of `resolveRoot`, a stat each.
`ReadDir` and `Info` are the two looks of `WalkShallow` and of `handleBrowse`; `Lstat` and
`ReadNames` those of `filepath.Walk`. `AsFollowed` is what becomes of a browse link: the
template escapes a path in full after `?path=`, but in the path of a link it leaves
`#` and `?` alone, where a browser cuts (`Cut`), and a valid `%XX`, which is decoded on
the way back (`Asked`: what is asked for by a link to a name, `NoName` if nothing
precedes the cut). Each name is decoded to one name: `%2F`, which splits one, and `%2e`
segments are left out.
`steady` and `pageSteady` are history: nodes nobody touched since the request, or
since that of the page.

**Repull** is a user who pulls one file again and again while it is edited and time
passes. The session reads it block by block, the client writes the blocks
later, `Stamped` with its own clock; `Exists` compares size and time as
`metadata.go` does. A pull may be killed, or its connection break, at any point. `calm`
is history: no edit since this pull's listing.

**Args** is a command line from `os.Args[2:]` to what the command runs with:
`reorderArgs`, one turn of its loop after the other; `FlagSet.Parse`; the switch
of `main` with the checks of `runServe`. What a command runs with is every variable of its flags,
addresses, numbers and switches included; `Sets` says which flag of which command
sets which. An argument is of one of eleven kinds (`-` and `--` are two of them), with one
or two members each in the run.

## The runs

Catalog takes about a minute, Batches, Stream and Pool up to half of one, the others less.

| Run | Instance | Question |
|---|---|---|
| Batches | three paths, of two, zero and one blocks, the last a file or a link to a directory, batches of two, buffer of one chunk, one edit, one break, both sides fair | Does the client's count stay in step with what is owed, does it write only what it waits for, does the pull keep `Delivery`'s promise, does it return unless it waits for a directory, does the session end? |
| Stream | one path in two directories, each absent, a file of one or three blocks, a directory, a link to one or a dangling link; old local copies that are longer, equal, a directory or none; two edits; buffer of no chunk | Do the bytes that arrive equal those framed, and those on disk if nobody edited; does Progress tell short from whole, and can it be drawn; can anything but a directory leave both sides waiting; when is a file opened that is not the one looked at? |
| Repull | a file of up to two blocks, of two values; clocks alike or the client's ahead by twice the tolerance; two edits, two ticks, one pull that fails; fair pulls | Does a quiet pull deliver, is what is passed over the file, does the copy settle? |
| Catalog | two roots, of different or equal base names, with `b`, `b#` and `%62`, which is decoded to `b` and sorts before `.`, in the first, and below them more; two trees with files, directories, links to directories and dangling links; two edits, of `b` or of the second root | Do links lead to what they stand for, do both servers mean the same by a name, is what was there all the time found and listed, under its kind and after the directory it is in? |
| Args | every command line of up to five arguments, for each command | Does reordering keep the arguments, does a plain command line mean what it says for every variable it sets, when is a `--root` not honoured? |
| Pool | three files, one or two tokens, chunks of two pieces, fair | Is the pool bounded, is it over when it returns, does it return, does one token keep chunks whole? |
| Life | two connections, both servers, fair | Do a failure and a signal end the process, can nobody block on `errCh`, does a session take up at most one message after the cancellation? |
| Codec | two frames of every size up to longer than the length field, and replies longer than the buffer, each followed by a control frame | Does the reader get what was written, does a flush complete the frames before it? |
| Http | a tree of two levels, a link to a directory, a single file or nothing, as a root or below one; two edits, of files or directories; a client that may leave | What does an archive that ends properly hold? Is a single file whole or seen to be cut? |

The bounds. Two batches are needed for a surplus answer of the first to disturb the
second; three files are the fewest that give a full batch and a short one. The third path
of Batches may be a directory in disguise from the start and any of them may become one,
so that pulls that never return are among its behaviours. Three blocks in chunks of one
give a first, a middle and a last chunk; four blocks of old copy show a tail that should
be gone. Two edits allow a file to be removed and to come back, or to grow and shrink
again, within one transfer. A buffer of one chunk holds a file's last chunk back while the
next file is looked at; a buffer of none spills at every chunk. Longer batches, more edits
and larger buffers repeat these cases. In Stream a deadlock is not an error, since the
system may really stop there (see Hang), and `StuckOnlyOnDirectory` says when.

In Repull two edits give a file that is changed and changed back, and one that is
rewritten in equal length while it is read; two ticks put a copy's time on either
side of the tolerance. Clocks, edits and failures are bounded, pulls are not. In
Catalog an edit at the directory `b` takes away or replaces a whole subtree,
one at the second root a root; two of them let it vanish between two looks and come
back. An instance with one edit at any of the places holds too. Two roots and a
name that both a root and a directory below the other can bear are what the two
ways of resolving a name can differ on. In Args five arguments are a flag, its
value, two words and one more of any kind; all of them are ways through a loop
that looks one argument ahead. In Pool two tokens are the fewest with which
chunks mix, which TLC shows when `slots = 1` is dropped from `OneSlotKeepsChunksWhole`.

Fairness. `FairSpec` assumes weak fairness of each side's steps as a whole: both are
goroutines blocked only on each other. Nobody has to edit a file or break a
connection. In Lifecycle each goroutine of the process is fair for as long as the
process lives; clients are not, and a failing `Accept` may be retried for ever.
In WorkerPool weak fairness is enough for the semaphore, which each worker passes
once. In Repull the user keeps pulling, while time and edits need not go on.

### Where the code disagrees with what is said of it

Three violation runs check a sentence of the repository and find it broken:

* **Hang** (`NoMutualWait`): `handleDownload` skips a requested path that turns out to be a
  directory, `session.go:120`, and sends nothing; the client, which was told that
  "BatchDone signals that all requested files have been fully sent"
  (`messages.go:52`), waits for ever. A symbolic link to a directory is enough: the
  walk does not follow it and lists a file, stat does.
* **Again** (`IdenticalIsSkipped`): `README.md:17` and `:205` promise that files which exist and
  agree in size and modification time are skipped, but nobody gives a copy the
  file's time: a file older than its copy by a second or more is fetched by every pull.
* **HttpCut** (`CompleteArchiveHoldsAll`): an archive whose walk failed is closed and answered
  like a whole one; `README.md:14` promises the complete structure.

Other limits of the code are written into properties that hold, as the exceptions
they name:

* `DoneMeansWhole`: a file that shrinks while it is sent is acknowledged like a whole
  one. Progress does notice, Pull does not. After such an edit the bar may overflow and
  panic (`BarFitsUnlessEdited`).
* `StraysOnlyAfterEditOrByDeadLink`: the fallback of `session.go:194` finds a file under another
  root, but `session.go:124` opens it under the list root, where it is missing or a different
  file. In a pull that takes an edit after the listing, or a dangling link in the list
  root: it is listed, not found there by `os.Stat`, found below another root and then
  opened where it dangles.
* `OneSlotKeepsChunksWhole`: with two tokens the workers of `SendFiles` mix their chunks in
  the shared Encoder, which has no lock; only `--concurrency 1` is safe. Nothing calls
  `SendFiles` today.
* `AtMostOneLateMessage`: a session waiting in `Decode` does not see the cancellation, contrary
  to `session.go:35`; it sees it after one more message. The process's exit hides it.
* `SkippedIsSameUnlessEdited`, `Settles`: a file rewritten in equal length within a second of the
  client's last write is passed over, and so is a mixture of old and new blocks.
* `LinksLead`: of two roots with the same base name the browser reaches only the first;
  an entry whose path holds `#`, `?` or a valid `%XX`, as in `a%20b`, can be downloaded but
  not browsed, or another is browsed for it; a dangling link is listed, and its download
  answered 404.
* `ParentsFirst`: "Directory entries come before their children" (`walker.go:14`) is not so
  for the listed directory. Its own path is `.`, and the sort compares strings, so that
  directories right below it named `$RECYCLE.BIN`, `(x)`, `#x` or `-x` come before it. The
  client does not mind: it makes each directory with all above it.
* `ServersAgree`: `goshare list host /b` is of a directory `b` below a root, if there is one,
  before it is of a root named `b`, which is what the browser shows under `/browse/b`.
* `RootsHonoured`, `PlainMeansWhatItSays`: a word after a flag that takes none, as in
  `serve --no-compress x --root D`, is taken for its value by `reorderArgs` and for the end of
  the flags by `Parse`: the named root is ignored and the working directory is
  shared. In `pull --port=1 host path -c 4` the host is taken for a value in the same
  way, and what follows is mistaken for words. The argument `-`, as in `serve - --root D`, is
  moved among the flags and ends them; and in `serve --http --root D` the address is
  `--root` and `D` a word. With either the working directory is shared too.

Besides these, the length fields of a chunk wrap without a check (`codec.go:86-88`): Codec's
properties hold up to the first frame that is too long, which takes a path of
64 KB or `--chunk-size 4096`. And `README.md:15` speaks of parallel downloads, but
a pull is served by one session, a file at a time; `--concurrency` only sets the
size of its batches.

## The proofs

Every safety invariant and every action property that a run checks, and the refinement of
Delivery, is a theorem: it holds for all values of the constants that satisfy
the named assumptions, not only for the run's.

**TransferProofs** is about the pull, for any number of files, any size of chunk and
buffer (the set of paths need not be finite). Its first section proves:

* `TypesCorrect`: `Spec => []TypeOK`. One lemma per action of Session and Puller; the
  chunk-writing actions rest on lemmas about `ReadAt`, `Overlay` and `WriteChunk`.
* `FlushedBeforeWaiting`: `Spec => []ServerFlushesBeforeWaiting`. The property is inductive
  by itself because its three places, `decode`, `next` and `stat`, are entered from the
  chunk-writing ones only through an `Encode` or with the writer's error set,
  after which nothing is written any more.

Its second section proves the accounting of a pull. The protocol has no request numbers,
so a count that agrees with what is owed rests on every owed path being in one place only.

* `PullInvariant`: the inductive invariant. A path that was asked for and not
  acknowledged is in the request, in the session's queue, in its hands, or in an
  acknowledgement on the wire, and in no two of them (`RequestInv`, `SessionInv`,
  `ClientStreamInv`); otherwise it is `Lost`. What the writer holds back are chunks of
  the file at hand (`BufferInv`). An error on the wire means a lost path, so that the
  count cannot fall to zero before the client reads the error (`ErrorInv`); while the
  connection is up and no error is on its way, only skipped directories are lost
  (`LinkInv`). The listing names a path once, so the diff wants it once (`ListingInv`).
* `CountIsRight`, `WaitsOnlyForDirectories`, `WritesWhatItAwaits` (an action property) follow.
* `ImplementsDelivery`: `Spec => Promise!Spec`. A step of the client is a request, a
  delivery or the outcome of `Delivery`, or a stutter of it; a step of the session, an
  edit or a break is a stutter. `Delivery` asks for a group only when the last was
  delivered: that is the count at zero, hence the accounting.

Its third section proves what the files hold, on top of that. What is on the wire to
the client and what the writer holds back form one queue (`Pipe`): frames enter at
its end, the client takes them at its head, a break cuts off its end.

* `ContentInvariant`: a chunk on the pipe is a piece of what was framed of its file, and
  either the first or the continuation of the frame before it; in front of the pipe
  the local copy takes the place of that frame (`HoldsAfter`, `ChunkOK`). An acknowledgement
  follows the last piece (`AckOK`), and nothing is framed of the file after it. If
  nobody touched the file, what was framed is a beginning of what stat saw, and all of
  it once the file is closed (`SteadyInv`, `Whole`).
* `HoldsWhatWasSent`, `ArrivesWhole` and `DoneIsWhole` are this invariant for acknowledged files.
* `SendsWhatWasListed`: a request for a listing is answered before any path of it can be on
  its way, and until the first edit each path on its way is there below `listRoot` for
  `Lstat` (`OriginInv`). That is where the search begins, so `Stat` finds it there too
  unless it is a dangling link.

Its last section is about the bar.

* `BarFits`: what Progress has received of a file is its size once it is done, and zero
  before it is asked for (`BarInv`). When the bar is drawn all that was asked for is
  acknowledged, and an acknowledged file that nobody edited is done, by the section
  before. So no file has more bytes received than expected, and neither has the batch: its
  sum is the number of its bytes, each counted with its file (`Total` in Puller), and
  the ones are a subset of the others.

**CodecProofs** proves for frames of any number and size, any buffer and any width of the
length fields:

* `CodecInvariant`: what is on the wire, in the buffer and still to be written is one sequence
  of cells, `Stream`; a write, an overflow and a flush only move the borders within it.
  The frames that are encoded and not decoded lie on it one behind the other (`LiesAt`, at
  the places `at`), up to the first that does not fit its length field, and nothing
  else does if all fit. The decoder looks at the length fields of the
  first of them and so takes exactly that frame.
* `DecodedIsEncoded` and `FlushedIsWhole`: without the borders there is nothing left of how
  the buffer cut the stream; and when the buffer is empty the wire is the whole
  stream, hence begins with a whole frame.

**WorkerPoolProofs** proves for every finite set of files, every concurrency and every
number of pieces to a chunk:

* `PoolTypesCorrect`: every variable keeps its type.
* `PoolIsBounded`: no more workers than tokens are in `SendFile`. The strengthening says
  that the channel's length is the number of workers between acquire and
  release; each step moves at most one worker in or out of that set.
* `PoolReturnsAfterAll`: when `SendFiles` has returned nobody is left and every result is
  set. The strengthening says that the `WaitGroup`'s counter is the number of spawned and
  unfinished workers, that whoever was not spawned is still in the loop's list, and that a
  worker past its `Record` has a result.
* `OneSlotIsEnough`: with one token every chunk that was sent is whole. The worker with the
  token is then the only one past the semaphore (`OneHolder`), and what it has written of
  its chunk is the end of the buffer (`OwnTail`); once it has its result, its chunk lies
  below the place of every write in progress (`Settled`), so that nobody writes over it.
  That a write finds room rests on the buffer's count being the number of pieces
  written.

**LifecycleProofs** proves for any set of connections:

* `LifeTypesCorrect`, and from it `ErrChHasRoom`: no goroutine blocks on `errCh`. The
  strengthening says that the channel holds no more results than were sent; one that is
  still to be sent then finds one of the two places free.
* `OneLateMessage`: a session takes up at most one message after the cancellation. The
  strengthening says where such a session is: handling it, before the next look
  at the context, or ended, and not in `Decode` again.

**RepullProofs** proves, for files of any size and blocks of any kind, any clocks,
tolerance and number of edits and failures (`Contents \subseteq Seq(Block)`, and the absent
copy is none of the copies):

* `RepullTypesCorrect`, `QuietDelivery` and `SkipsOnlyTheFile`. None of the latter two is
  inductive. The invariant says that the client has written all that was read but for what
  is on the wire (`InStep`); that its copy is then as long as what it wrote, the first
  chunk having truncated it (`CopyInStep`); that between listing and end, unless somebody
  edits, what is written and what is on the wire are the file's first blocks
  (`QuietlyReceived`); and that of a file never edited the client holds a beginning
  (`NeverEdited`). A beginning of the listed size is the file, which is why a pull that
  was killed leaves nothing that the next one would pass over.

**HttpDownloadProofs** proves, for any tree, any order that satisfies `OrderAssumption` and any
number of edits of files and directories:

* `WalkInv`: what the walk has still to visit is in the walk's order, and each
  of it is in a directory that comes before the first of it (`Ahead`); so the
  names of a directory, put in front, keep the order. The other parts rest on it.
* `CutAtTheEnd`, `ServedWholeOrCut`: the entry at hand holds a beginning of its file, the
  others are whole, or were edited (`EntryInv`).
* `NothingMissed`: of a reachable directory that the walk has passed, all that is there
  has been passed or is waiting (`BelowInv`); hence nothing reachable lies between the
  path that is visited and the next one, `NoneBetween`, which uses that `Reached` is the
  least set of its kind instead of following the chain of directories.
* `DownloadInvariant` is the conjunction of these.

**CatalogProofs** proves every property of Catalog's run, for any finite tree, any roots
with any base names, equal ones included, any names that cut links or are decoded to
others, and any number of edits at any of its nodes. `NodeAssumption`, `CatalogAssumption`
and `PathAssumption`, which says that a path comes before what is below it wherever `.`
stands, are all it takes from the constants.

* `CatalogInvariant` is the inductive invariant: whatever is there stands in a directory,
  after an edit too (`TreeInv`); the page's path leads to the page's directory and its
  entries were there when it was made, so that a link's path is that of its node
  (`PageInv`, `LinkInv`); a root that `resolveRoot` passed by has not held the
  path all the time (`SearchInv`); a directory that is read was one (`TargetInv`); and
  entries are as they were seen, unless edited (`SeenInv`).
* `WhatStoodIsListed`: of one level, a name in the directory is listed or waits for its `Info`
  (`InfoInv`). Of all levels, whatever stood is listed, or waits, or something
  above it does (`WalkInv`): a directory is replaced by its names, and what stood below it
  is below one of them.
* `DirectoriesFirst`: what waits in the walk is in a directory that was listed before, so each
  entry's directory is listed. Sorting loses none (`SortedProps`) and puts that directory
  first, since a directory comes before any file and its path before an extension of
  it (`ParentRank`); only `.` is no beginning of the paths right below it.
* `LinksLeadThere`, `WhatStoodIsFound` and `ListsWhatIsBrowsed` follow from what page and
  search know.

The sorting is reasoned about without induction: a finite set is in order if its i-th
member is the one with i - 1 members before it, and `RankedOrder` shows by
counting that such members exist for every strict order.

**ArgsProofs** proves, for any flags and words, any split of them into kinds and command
lines of any length (`ArgsAssumption`: a word is no flag, a flag that takes a value is
not complete, and none is a negative number, `-` or `--`):

* `NothingIsLost`: a turn of the loop takes one or two arguments, or all, from the front of what
  remains and puts them behind the flags or behind the other arguments; how often an argument
  occurs in two joined lines is the sum of how often it occurs in each.
* `RootsAreHonoured`: before a root with nothing ahead of it that leads `Parse` astray (`Clear`),
  every word among the moved flags is the value of the flag before it, and a string
  flag that is no root's has one (`Sound`), so `Parse` goes from flag to flag until it
  meets a root (`AtFlag`); or it exits.
* `PlainLinesMeanWhatTheySay`: of a plain line, what the moved flags would set is, at every
  turn, what the flags of the prefix set where they stand, and the other
  arguments are the words of that prefix (`MeaningMoved`); `Parse` has then set what the
  first `d` of the flags set and comes to a flag or to the words (`ParsedTo`). A list of
  places in order grows at its end when a place behind all others is added
  (`InOrderGrows`), which is all that is needed of order, and no induction.

The type invariants of WorkerPool, Lifecycle, Repull, Codec and Args are proved and not among the
properties of the runs.

Only model-checked: the liveness properties (`ReturnsUnlessOnDirectory`, `SessionFollows`,
`SendFilesReturns`, `FailureStopsBoth`, `SignalStops`, `ControlArrives`, `DownloadEnds`,
`Settles`), since they rest on fairness, which is about ENABLED, and the installed provers
do not reason about that.

## Not modelled

* Compression and `sendfile.go`: no transfer calls them.
* `SendBatch`, `WalkConcurrent`, `Checksum`: uncalled. `WalkConcurrent` has WorkerPool's
  shape. `ListRemote`, `FileCount`, `TotalSize`, `Summary`: counting and printing.
* In Session a list request resolves to some directory or to none, and in HttpDownload an
  HTTP path to some target; Catalog has the search itself. Roots are taken not to be
  nested, so that `findRootDir` gives the root a file was found under.
* Names `.` and `..` in a path, the base name of `--root .`, case-insensitive file
  systems, permissions, and Windows' `ReadDir`, which answers `Info` from what it read.
* Links to directories that lead above themselves, in Catalog; what a link to a
  directory leads to is taken to lie below it.
* `-h` and `--help`; Args tells an argument from another by its kind alone, and an
  attached value of the wrong type from an undefined flag not at all.
* Rates, times and wording of the terminal output; the layout of the browser pages.
* Socket options, keep-alives and timeouts of the dial: a connection breaks or does not.
* Build and packaging files.

## Plan

1. (done) Wire, Session, Puller, Transfer, Delivery: the pull. TypeOK and the flush
   property proved. Codec, WorkerPool, TcpServer, Lifecycle, HttpDownload.
2. (done) Repeated pulls (Repull), names and listings of both servers (Catalog), the
   command line (Args), the progress bar.
3. (done) Proofs of Repull, Lifecycle, WorkerPool, HttpDownload and Catalog.
4. (done) The accounting of a pull as one inductive invariant, the refinement of
   Delivery, and what the files hold.
5. (done) Proofs of the progress bar, Codec and Args.
