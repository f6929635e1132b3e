----------------------------- MODULE MCTransfer -----------------------------
(* Small instances of Transfer for TLC. *)
EXTENDS Transfer

CONSTANTS p1, p2, p3, r1, r2, x, y, zero

Nothing     == [kind |-> "absent", data |-> <<>>]
File(s)     == [kind |-> "file", data |-> s]
SomeDir     == [kind |-> "dir", data |-> <<>>]
DirLink     == [kind |-> "dirlink", data |-> <<>>]
DeadLink    == [kind |-> "deadlink", data |-> <<>>]
NothingHere == [p \in Path |-> Nothing]
NoLocal     == { NothingHere }

OneRoot == <<r1>>

(* Three paths, for two batches of at most two: one empty file, one of two  *)
(* chunks, and one of a single chunk or a link to a directory, which is     *)
(* listed as a file and never answered.                                     *)
ThreePaths ==
  { [d \in Dir |-> [p \in Path |-> IF p = p1 THEN File(<<x, y>>)
                                   ELSE IF p = p2 THEN File(<<>>) ELSE e]] :
      e \in {File(<<y>>), DirLink} }

(* One path, which both directories may hold, and old copies of it.  The    *)
(* file of three blocks is for several chunks.                              *)
OnePath ==
  [Dir -> [Path -> {Nothing, File(<<x>>), File(<<x, y, x>>), SomeDir, DeadLink}]]
    \cup { [d \in Dir |-> [p \in Path |-> DirLink]] }

OldCopies ==
  { NothingHere, [p \in Path |-> File(<<y, y, y, y>>)],
    [p \in Path |-> File(<<y, y, y>>)], [p \in Path |-> SomeDir] }

(* A link to a directory beside a file. *)
WithDirLink ==
  { [d \in Dir |-> [p \in Path |-> IF p = p1 THEN File(<<x>>) ELSE DirLink]] }

FileEdits  == { File(<<>>), File(<<y>>), File(<<y, x, y>>), SomeDir, DeadLink,
                Nothing }
SmallEdits == { File(<<y>>), Nothing, SomeDir }
=============================================================================
