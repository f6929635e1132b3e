--------------------------- MODULE MCHttpDownload ---------------------------
(* Small instances of HttpDownload: a directory with a file, a directory    *)
(* and a file in that, or a single file in place of it all.                 *)
EXTENDS HttpDownload

CONSTANTS top, file, dir, below, x, y

WalkOrder == <<top, dir, below, file>>

ParentOf == [p \in Path |-> IF p = below THEN dir ELSE top]

Nothing == [kind |-> "absent", data |-> <<>>]
File(s) == [kind |-> "file", data |-> s]
ADir    == [kind |-> "dir", data |-> <<>>]
DirLink == [kind |-> "dirlink", data |-> <<>>]

Tree(t, d, b, f) ==
  [p \in Path |-> IF p = top THEN t ELSE IF p = dir THEN d
                  ELSE IF p = below THEN b ELSE f]

Trees ==
  { Tree(ADir, ADir, b, f) : b, f \in {Nothing, File(<<>>), File(<<x, y>>)} }
    \cup { Tree(ADir, DirLink, Nothing, File(<<x, y>>)),
           Tree(DirLink, Nothing, Nothing, Nothing),
           Tree(File(<<x, y>>), Nothing, Nothing, Nothing),
           Tree(Nothing, Nothing, Nothing, Nothing) }

Edits == { Nothing, File(<<y>>), File(<<y, x, x>>), ADir, DirLink }
=============================================================================
