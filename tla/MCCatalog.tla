----------------------------- MODULE MCCatalog -----------------------------
(* Small instance of Catalog for TLC: two roots of different or equal base  *)
(* names, the first with a directory that may bear the second's name, and   *)
(* beside it "b#", whose links are cut, and "%62", whose links are read as  *)
(* "b" and which sorts before ".".                                          *)
EXTENDS Catalog

CONSTANTS a, b, bHash, pct

Tree ==
  << <<1>>, <<1, pct>>, <<1, pct, a>>, <<1, b>>, <<1, b, a>>, <<1, bHash>>,
     <<2>>, <<2, a>> >>

Paths ==
  << <<pct>>, <<pct, a>>, <<>>, <<a>>, <<b>>, <<bHash>>, <<b, a>> >>

TwoNamings == { <<a, b>>, <<b, b>> }

AskedFor == [ n \in {a, b, bHash, pct} |-> IF n = a THEN a ELSE b ]

Disk(kinds) == [ n \in Node |-> kinds[CHOOSE i \in 1..Len(Tree) : Tree[i] = n] ]

Disks ==
  { Disk(<<"dir", "dir", "file", "dir", "file", "dir", "dir", "dir">>),
    Disk(<<"dirlink", "dir", "deadlink", "dir", "dir", "deadlink", "dir", "file">>) }

Edited == { <<1, b>>, <<2>> }

Edits == { "absent", "file", "dir" }
=============================================================================
