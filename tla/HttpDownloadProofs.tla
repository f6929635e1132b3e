------------------------- MODULE HttpDownloadProofs -------------------------
(***************************************************************************)
(* What an archive or a single file holds when its response is complete,   *)
(* proved of HttpDownload for every tree, every walk's order and every     *)
(* number of edits.                                                        *)
(***************************************************************************)
EXTENDS HttpDownload, FunctionTheorems, FiniteSetTheorems, SequenceTheorems, TLAPS


(* Every path has a position of its own, and the target the first. *)
LEMMA Positions ==
  /\ \A p \in Path : Position(p) \in 1..Len(Order) /\ Order[Position(p)] = p
  /\ \A p, q \in Path : Position(p) = Position(q) => p = q
  /\ Len(Order) \in Nat /\ IsFiniteSet(Path)
  /\ Position(Top) = 1
<1>1. Len(Order) \in Nat
  BY OrderAssumption, LenProperties
<1>2. \A p \in Path : Position(p) \in 1..Len(Order) /\ Order[Position(p)] = p
  BY DEF Path, Position
<1>3. IsFiniteSet(Path)
  <2>1. Order \in [1..Len(Order) -> Path]
    BY OrderAssumption, LenProperties
  <2>2. \A p \in Path : \E i \in 1..Len(Order) : Order[i] = p
    BY DEF Path
  <2>3. Order \in Surjection(1..Len(Order), Path)
    BY <2>1, <2>2, Fun_IsSurj
  <2>4. IsFiniteSet(1..Len(Order))
    BY <1>1, FS_Interval
  <2> QED
    BY <2>3, <2>4, FS_Surjection
<1>4. Position(Top) = 1
  <2>1. Top \in Path /\ Position(Top) \in 1..Len(Order)
    BY <1>2, HttpAssumption
  <2>2. PICK p \in Path : p = Order[1]
    BY <1>1, <2>1 DEF Path
  <2>3. Position(p) = 1
    BY <1>1, <1>2, <2>1, <2>2, OrderAssumption
  <2>4. ASSUME p # Top PROVE FALSE
    <3>1. Parent[p] \in Path /\ Position(Parent[p]) < Position(p)
      BY <2>4, OrderAssumption, HttpAssumption
    <3> QED
      BY <1>1, <1>2, <2>3, <3>1
  <2> QED
    BY <2>3, <2>4
<1> QED
  BY <1>1, <1>2, <1>3, <1>4

(* Sorting a set of names. *)
LEMMA SortedNames ==
  ASSUME NEW names \in SUBSET Path
  PROVE  LET s == Sorted(names) IN
           /\ s \in Seq(names) /\ Len(s) \in Nat
           /\ \A i, j \in 1..Len(s) : i < j => Position(s[i]) < Position(s[j])
           /\ \A p \in names : \E i \in 1..Len(s) : s[i] = p
<1> DEFINE n == Cardinality(names)
           s == Sorted(names)
           rank(p) == Cardinality(Before(p, names))
           place == [p \in names |-> rank(p) + 1]
<1>1. IsFiniteSet(names) /\ n \in Nat
  BY Positions, FS_Subset, FS_CardinalityType
<1>2. \A p \in names : IsFiniteSet(Before(p, names)) /\ rank(p) \in Nat
  <2>1. \A p : Before(p, names) \in SUBSET names
    BY DEF Before
  <2> QED
    BY <1>1, <2>1, FS_Subset, FS_CardinalityType
<1>3. \A p \in names : rank(p) + 1 \in 1..n
  <2>1. SUFFICES ASSUME NEW p \in names PROVE rank(p) + 1 \in 1..n
    OBVIOUS
  <2>2. Before(p, names) \in SUBSET names /\ p \notin Before(p, names)
    BY Positions DEF Before
  <2>3. rank(p) <= n /\ rank(p) # n
    BY <1>1, <2>2, FS_Subset
  <2> QED
    BY <1>1, <1>2, <2>3
<1>4. \A p, q \in names : Position(p) <= Position(q) => rank(p) <= rank(q)
  <2>1. SUFFICES ASSUME NEW p \in names, NEW q \in names, Position(p) <= Position(q)
                 PROVE  rank(p) <= rank(q)
    OBVIOUS
  <2>2. Before(p, names) \in SUBSET Before(q, names)
    BY <2>1, Positions DEF Before
  <2> QED
    BY <1>2, <2>2, FS_Subset
<1>5. \A p, q \in names : Position(p) < Position(q) => rank(p) < rank(q)
  <2>1. SUFFICES ASSUME NEW p \in names, NEW q \in names, Position(p) < Position(q)
                 PROVE  rank(p) < rank(q)
    OBVIOUS
  <2>2. /\ Before(p, names) \in SUBSET Before(q, names)
        /\ p \in Before(q, names) /\ p \notin Before(p, names)
    BY <2>1, Positions DEF Before
  <2>3. rank(p) <= rank(q) /\ rank(p) # rank(q)
    BY <1>2, <2>2, FS_Subset
  <2> QED
    BY <1>2, <2>3
<1>6. place \in Surjection(names, 1..n)
  <2>1. place \in [names -> 1..n]
    BY <1>3
  <2>2. \A p, q \in names : place[p] = place[q] => p = q
    <3>1. SUFFICES ASSUME NEW p \in names, NEW q \in names, rank(p) + 1 = rank(q) + 1
                   PROVE  p = q
      OBVIOUS
    <3>2. rank(p) = rank(q)
      BY <1>2, <3>1
    <3>3. ~ (Position(p) < Position(q)) /\ ~ (Position(q) < Position(p))
      BY <1>2, <1>5, <3>2
    <3> QED
      BY <3>3, Positions
  <2>3. place \in Injection(names, 1..n)
    BY <2>1, <2>2, Fun_IsInj
  <2>4. IsFiniteSet(1..n) /\ Cardinality(1..n) = n
    BY <1>1, FS_Interval
  <2> QED
    BY <2>3, <2>4, FS_Injection
<1>7. \A i \in 1..n : \E p \in names : rank(p) = i - 1
  <2>1. SUFFICES ASSUME NEW i \in 1..n PROVE \E p \in names : rank(p) = i - 1
    OBVIOUS
  <2>2. PICK p \in names : place[p] = i
    BY <1>6 DEF Surjection
  <2> QED
    BY <1>2, <2>2
<1>8. \A i \in 1..n : s[i] \in names /\ rank(s[i]) = i - 1
  BY <1>7 DEF Sorted
<1>9. s \in Seq(names) /\ Len(s) = n
  <2>1. s = [i \in 1..n |-> s[i]]
    BY DEF Sorted
  <2> QED
    BY <1>1, <1>8, <2>1, IsASeq
<1>10. ASSUME NEW i \in 1..n, NEW j \in 1..n, i < j
       PROVE  Position(s[i]) < Position(s[j])
  <2>1. ~ (rank(s[j]) <= rank(s[i]))
    BY <1>1, <1>8, <1>10
  <2> QED
    BY <1>4, <1>8, <2>1, Positions
<1>11. ASSUME NEW p \in names PROVE \E i \in 1..n : s[i] = p
  <2>1. rank(p) + 1 \in 1..n /\ rank(s[rank(p) + 1]) = rank(p)
    BY <1>2, <1>3, <1>8
  <2>2. s[rank(p) + 1] \in names
    BY <1>8, <2>1
  <2>3. ~ (Position(p) < Position(s[rank(p) + 1])) /\ ~ (Position(s[rank(p) + 1]) < Position(p))
    BY <1>2, <1>5, <2>1, <2>2
  <2> QED
    BY <2>1, <2>2, <2>3, Positions
<1> QED
  BY <1>1, <1>9, <1>10, <1>11

-----------------------------------------------------------------------------
(* Types. *)
ArchiveEntry == [path : Path, data : Seq(Block)]

TypeInv == TypeOK /\ (hpc = "serve" => archive # <<>>)

LEMMA FirstElement ==
  ASSUME NEW S, NEW s \in Seq(S), s # <<>>
  PROVE  /\ Head(s) = s[1] /\ Head(s) \in S /\ Len(s) \in Nat \ {0}
         /\ Tail(s) \in Seq(S) /\ Len(Tail(s)) = Len(s) - 1
         /\ \A i \in 1..Len(Tail(s)) : Tail(s)[i] = s[i + 1]
<1>1. Len(s) \in Nat \ {0}
  BY EmptySeq
<1>2. Head(s) = s[1] /\ s[1] \in S
  <2>1. 1 \in 1..Len(s)
    BY <1>1
  <2> QED
    BY <2>1, HeadTailProperties, ElementOfSeq
<1> QED
  BY <1>1, <1>2, HeadTailProperties

LEMMA Target ==
  ASSUME TypeInv
  PROVE  /\ pending # <<>> => Visiting = pending[1] /\ Visiting \in Path
         /\ archive # <<>> => Last \in Nat \ {0} /\ Last \in 1..Len(archive)
         /\ archive \in Seq(ArchiveEntry) /\ Len(archive) \in Nat
         /\ \A i \in 1..Last : archive[i] \in ArchiveEntry
<1>1. pending \in Seq(Path) /\ archive \in Seq(ArchiveEntry)
  BY DEF TypeInv, TypeOK, ArchiveEntry
<1>2. pending # <<>> => Visiting = pending[1] /\ Visiting \in Path
  BY <1>1, FirstElement DEF Visiting
<1>3. archive # <<>> => Last \in Nat \ {0}
  BY <1>1, EmptySeq DEF Last
<1> QED
  BY <1>1, <1>2, <1>3, LenProperties, ElementOfSeq DEF Last

(* A copied block is the next one of the file. *)
LEMMA CopiedBlock ==
  ASSUME TypeInv, archive # <<>>, NEW p \in Path, Copied(p)
  PROVE  LET d == archive[Last].data
             e == disk[p].data[Len(d) + 1] IN
           /\ archive' \in Seq(ArchiveEntry) /\ Len(archive') = Len(archive)
           /\ archive'[Last] = [archive[Last] EXCEPT !.data = Append(d, e)]
           /\ archive'[Last].path = archive[Last].path
           /\ archive'[Last].data = Append(d, e)
           /\ \A i \in 1..Last : i # Last => archive'[i] = archive[i]
           /\ d \in Seq(Block) /\ disk[p].data \in Seq(Block)
           /\ Len(d) < Len(disk[p].data) /\ e \in Block
<1> DEFINE d == archive[Last].data
           e == disk[p].data[Len(d) + 1]
<1>1. /\ Last \in 1..Len(archive) /\ archive[Last] \in ArchiveEntry
      /\ archive \in Seq(ArchiveEntry) /\ Last = Len(archive)
  BY Target DEF Last
<1>2. d \in Seq(Block) /\ disk[p].data \in Seq(Block)
  BY <1>1 DEF ArchiveEntry, TypeInv, TypeOK, Entry
<1>3. Len(d) < Len(disk[p].data)
  BY DEF Copied
<1>4. Len(d) + 1 \in 1..Len(disk[p].data)
  BY <1>2, <1>3, LenProperties
<1>5. e \in Block
  BY <1>2, <1>4, ElementOfSeq
<1>6. Append(d, e) \in Seq(Block)
  BY <1>2, <1>5, AppendProperties
<1> DEFINE m == [archive[Last] EXCEPT !.data = Append(d, e)]
<1>7. m \in ArchiveEntry /\ m.path = archive[Last].path /\ m.data = Append(d, e)
  BY <1>1, <1>6 DEF ArchiveEntry
<1>8. archive' = [archive EXCEPT ![Last] = m]
  BY DEF Copied
<1> HIDE DEF m, e
<1>9. /\ archive' \in Seq(ArchiveEntry) /\ Len(archive') = Len(archive)
      /\ \A j \in 1..Len(archive) : archive'[j] = IF j = Last THEN m ELSE archive[j]
  BY <1>1, <1>7, <1>8, ExceptSeq
<1> QED
  BY <1>1, <1>2, <1>3, <1>5, <1>7, <1>9 DEF m, e

LEMMA ChildrenType ==
  ASSUME NEW d
  PROVE  Children(d) \in Seq(Path) /\ Len(Children(d)) \in Nat
<1>1. Names(d) \in SUBSET Path
  BY DEF Names
<1>2. Children(d) \in Seq(Names(d)) /\ Len(Children(d)) \in Nat
  BY <1>1, SortedNames DEF Children
<1> QED
  BY <1>1, <1>2, SeqMonotonic

(* An edit leaves the paths alone that stay steady. *)
LEMMA Edited ==
  ASSUME TypeInv, Edit
  PROVE  /\ disk' \in [Path -> Entry] /\ steady' \subseteq steady
         /\ \A q \in steady' : disk'[q] = disk[q]
         /\ UNCHANGED <<hpc, pending, archive, failed, declared, response>>
<1>1. PICK p \in Path, e \in EditEntries :
        disk' = [q \in Path |-> IF q = p THEN e ELSE IF q \in Below(p) THEN Gone ELSE disk[q]]
  BY DEF Edit
<1>2. Gone \in Entry /\ e \in Entry /\ disk \in [Path -> Entry]
  BY EmptySeq, HttpAssumption DEF Gone, Entry, Kind, TypeInv, TypeOK
<1> QED
  BY <1>1, <1>2 DEF Edit

LEMMA TypeInit == Init => TypeInv
<1> SUFFICES ASSUME Init PROVE TypeInv
  OBVIOUS
<1>1. disk \in [Path -> Entry] /\ 0 \in 0..MaxEdits
  BY HttpAssumption DEF Init
<1>2. <<>> \in Seq(Path) /\ <<>> \in Seq([path : Path, data : Seq(Block)])
  BY EmptySeq
<1> QED
  BY <1>1, <1>2 DEF Init, TypeInv, TypeOK

LEMMA TypeStep == TypeInv /\ [Next]_vars => TypeInv'
<1> SUFFICES ASSUME TypeInv, [Next]_vars PROVE TypeInv'
  OBVIOUS
<1>a. Top \in Path /\ pending \in Seq(Path) /\ archive \in Seq(ArchiveEntry)
  BY HttpAssumption, Target DEF TypeInv, TypeOK
<1>1. CASE LookupDirectory
  <2>1. <<Top>> \in Seq(Path)
    BY <1>a
  <2> QED
    BY <1>1, <2>1 DEF LookupDirectory, TypeInv, TypeOK
<1>2. CASE LookupFile
  <2>1. [path |-> Top, data |-> <<>>] \in ArchiveEntry
    BY <1>a, EmptySeq DEF ArchiveEntry
  <2>2. archive' \in Seq(ArchiveEntry) /\ archive' # <<>>
    BY <1>2, <2>1 DEF LookupFile
  <2>3. declared' \in Nat
    <3>1. disk[Top].data \in Seq(Block)
      BY <1>a DEF TypeInv, TypeOK, Entry
    <3> QED
      BY <1>2, <3>1, LenProperties DEF LookupFile
  <2> QED
    BY <1>2, <2>2, <2>3 DEF LookupFile, TypeInv, TypeOK, ArchiveEntry
<1>3. CASE NotFound \/ OpenFile \/ CloseArchive \/ ServeEnds \/ Leave
  BY <1>3 DEF NotFound, OpenFile, CloseArchive, ServeEnds, Leave, TypeInv, TypeOK
<1>4. CASE VisitDirectory
  <2>1. pending' \in Seq(Path)
    <3>1. Tail(pending) \in Seq(Path)
      BY <1>4, <1>a, FirstElement DEF VisitDirectory
    <3> QED
      BY <1>4, <3>1, ChildrenType, ConcatProperties DEF VisitDirectory
  <2> QED
    BY <1>4, <2>1 DEF VisitDirectory, TypeInv, TypeOK
<1>5. CASE CreateHeader
  <2>1. [path |-> Visiting, data |-> <<>>] \in ArchiveEntry
    BY <1>5, Target, EmptySeq DEF CreateHeader, ArchiveEntry
  <2>2. archive' \in Seq(ArchiveEntry) /\ archive' # <<>>
    <3>1. /\ archive' \in Seq(ArchiveEntry) /\ Len(archive') = Len(archive) + 1
          /\ Len(archive) \in Nat
      BY <1>5, <1>a, <2>1, AppendProperties, LenProperties DEF CreateHeader
    <3>2. Len(archive') # 0
      BY <3>1
    <3> QED
      BY <3>1, <3>2, EmptySeq
  <2> QED
    BY <1>5, <2>2 DEF CreateHeader, TypeInv, TypeOK, ArchiveEntry
<1>6. CASE CopyBlock \/ ServeBlock
  <2>1. PICK p \in Path : Copied(p)
    BY <1>6, <1>a, Target DEF CopyBlock, ServeBlock, TypeInv, TypeOK
  <2>2. archive # <<>>
    BY <1>6 DEF CopyBlock, ServeBlock, TypeInv, TypeOK
  <2>3. archive' \in Seq(ArchiveEntry) /\ Len(archive') = Len(archive)
    BY <2>1, <2>2, CopiedBlock
  <2>4. archive' # <<>>
    <3>1. Len(archive) # 0
      BY <2>2, <1>a, EmptySeq
    <3> QED
      BY <2>3, <3>1, EmptySeq
  <2> QED
    BY <1>6, <2>3, <2>4 DEF CopyBlock, ServeBlock, TypeInv, TypeOK, ArchiveEntry
<1>7. CASE CopyEnds \/ WalkFails
  <2>1. pending' \in Seq(Path)
    <3>1. CASE CopyEnds
      <4>1. pending # <<>> /\ pending' = Tail(pending)
        BY <3>1 DEF CopyEnds, TypeInv, TypeOK
      <4> QED
        BY <1>a, <4>1, FirstElement
    <3>2. CASE WalkFails
      BY <3>2, EmptySeq DEF WalkFails
    <3> QED
      BY <1>7, <3>1, <3>2
  <2> QED
    BY <1>7, <2>1 DEF CopyEnds, WalkFails, TypeInv, TypeOK
<1>8. CASE Edit
  <2>1. disk' \in [Path -> Entry] /\ steady' \in SUBSET Path
    BY <1>8, Edited DEF TypeInv, TypeOK
  <2>2. edits' \in 0..MaxEdits
    BY <1>8, HttpAssumption DEF Edit, TypeInv, TypeOK
  <2> QED
    BY <1>8, <2>1, <2>2 DEF Edit, TypeInv, TypeOK
<1>9. CASE UNCHANGED vars
  BY <1>9 DEF vars, TypeInv, TypeOK
<1> QED
  BY <1>1, <1>2, <1>3, <1>4, <1>5, <1>6, <1>7, <1>8, <1>9 DEF Next, Handler, Answered

-----------------------------------------------------------------------------
(* The order of the walk.  What is still to be visited is in order, and     *)
(* none of it is below what comes before it; all that the archive holds     *)
(* comes before.                                                            *)
HeadPosition == IF pending = <<>> THEN Len(Order) + 1 ELSE Position(pending[1])

Ahead(s) ==
  \A i, j \in 1..Len(s) : i < j =>
    /\ Position(s[i]) < Position(s[j])
    /\ s[j] # Top /\ Position(Parent[s[j]]) < Position(s[i])

Filling == hpc \in {"open", "copy"}

WalkInv ==
  /\ Ahead(pending)
  /\ Filling => archive[Last].path = Visiting
  /\ hpc \in {"walk", "open", "copy"} =>
       \A i \in 1..Last : i < Last \/ ~ Filling => Position(archive[i].path) < HeadPosition
  /\ hpc = "lookup" => archive = <<>> /\ pending = <<>>

(* Names of a directory that is visited come before what else is pending.   *)
LEMMA AheadVisit ==
  ASSUME TypeInv, Ahead(pending), pending # <<>>,
         NEW c, c \in {<<>>, Children(Visiting)}
  PROVE  LET s == c \o Tail(pending) IN
           /\ Ahead(s) /\ s \in Seq(Path)
           /\ \A i \in 1..Len(s) : Position(Visiting) < Position(s[i])
           /\ \A i \in 1..Len(c) : \E j \in 1..Len(s) : s[j] = c[i]
           /\ \A i \in 1..Len(pending) : i # 1 => \E j \in 1..Len(s) : s[j] = pending[i]
<1> DEFINE h == Visiting
           t == Tail(pending)
           s == c \o t
<1>1. /\ h = pending[1] /\ h \in Path /\ Len(pending) \in Nat \ {0}
      /\ t \in Seq(Path) /\ Len(t) = Len(pending) - 1 /\ Len(t) \in Nat
      /\ \A i \in 1..Len(t) : t[i] = pending[i + 1] /\ t[i] \in Path
  <2>1. pending \in Seq(Path)
    BY DEF TypeInv, TypeOK
  <2> QED
    BY <2>1, FirstElement, LenProperties, ElementOfSeq DEF Visiting
<1>2. /\ c \in Seq(Path) /\ Len(c) \in Nat
      /\ \A i \in 1..Len(c) : c[i] \in Path /\ c[i] # Top /\ Parent[c[i]] = h
      /\ \A i, j \in 1..Len(c) : i < j => Position(c[i]) < Position(c[j])
  <2>1. CASE c = <<>>
    BY <2>1, EmptySeq
  <2>2. CASE c = Children(h)
    <3>1. Names(h) \in SUBSET Path
      BY DEF Names
    <3>2. /\ c \in Seq(Names(h)) /\ Len(c) \in Nat
          /\ \A i, j \in 1..Len(c) : i < j => Position(c[i]) < Position(c[j])
      BY <2>2, <3>1, SortedNames DEF Children
    <3>3. \A i \in 1..Len(c) : c[i] \in Names(h)
      BY <3>2, ElementOfSeq
    <3> QED
      BY <3>1, <3>2, <3>3, SeqMonotonic DEF Names
  <2> QED
    BY <2>1, <2>2
<1>3. \A i \in 1..Len(t) :
        Position(h) < Position(t[i]) /\ t[i] # Top /\ Position(Parent[t[i]]) < Position(h)
  <2>1. SUFFICES ASSUME NEW i \in 1..Len(t)
                 PROVE  /\ Position(h) < Position(t[i])
                        /\ t[i] # Top /\ Position(Parent[t[i]]) < Position(h)
    OBVIOUS
  <2>2. 1 \in 1..Len(pending) /\ i + 1 \in 1..Len(pending) /\ 1 < i + 1
    BY <1>1
  <2> QED
    BY <1>1, <2>2 DEF Ahead
<1>4. \A i, j \in 1..Len(t) : i < j =>
        Position(t[i]) < Position(t[j]) /\ Position(Parent[t[j]]) < Position(t[i])
  <2>1. SUFFICES ASSUME NEW i \in 1..Len(t), NEW j \in 1..Len(t), i < j
                 PROVE  /\ Position(t[i]) < Position(t[j])
                        /\ Position(Parent[t[j]]) < Position(t[i])
    OBVIOUS
  <2>2. i + 1 \in 1..Len(pending) /\ j + 1 \in 1..Len(pending) /\ i + 1 < j + 1
    BY <1>1, <2>1
  <2> QED
    BY <1>1, <2>2 DEF Ahead
<1>5. \A i \in 1..Len(c) : Position(h) < Position(c[i])
  BY <1>2, OrderAssumption
<1>6. ASSUME NEW i \in 1..Len(c), NEW j \in 1..Len(t)
      PROVE  Position(c[i]) < Position(t[j]) /\ Position(Parent[t[j]]) < Position(c[i])
  <2>1. /\ c[i] \in Path \ {Top} /\ t[j] \in Path \ {Top} /\ Parent[c[i]] = h
        /\ Parent[t[j]] \in Path
    BY <1>1, <1>2, <1>3, HttpAssumption
  <2>2. PICK pc, pt, ph, pp \in Nat :
          /\ pc = Position(c[i]) /\ pt = Position(t[j]) /\ ph = Position(h)
          /\ pp = Position(Parent[t[j]])
    <3>1. \A p \in Path : Position(p) \in Nat
      BY Positions
    <3>2. /\ Position(c[i]) \in Nat /\ Position(t[j]) \in Nat /\ Position(h) \in Nat
          /\ Position(Parent[t[j]]) \in Nat
      BY <1>1, <2>1, <3>1
    <3> QED
      BY <3>2
  <2>3. ph < pc /\ ph < pt /\ pp < ph
    BY <1>3, <1>5, <2>2
  <2>4. ph < pt /\ pt < pc => ph <= pp
    BY <2>1, <2>2, OrderAssumption
  <2>5. pt # pc
    <3>1. c[i] # t[j]
      BY <1>3, <2>1, <2>2, <2>3
    <3> QED
      BY <2>1, <2>2, <3>1, Positions
  <2>6. pc < pt /\ pp < pc
    BY <2>3, <2>4, <2>5
  <2> QED
    BY <2>2, <2>6
<1> DEFINE m == Len(c)
<1>7. /\ s \in Seq(Path) /\ Len(s) = m + Len(t)
      /\ \A i \in 1..m : s[i] = c[i] /\ i \in 1..Len(s)
      /\ \A i \in 1..Len(t) : s[i + m] = t[i] /\ i + m \in 1..Len(s)
      /\ \A i \in 1..Len(s) : i \in 1..m \/ (i - m \in 1..Len(t) /\ s[i] = t[i - m])
  <2>1. /\ s \in Seq(Path) /\ Len(s) = m + Len(t)
        /\ \A i \in 1..m + Len(t) : s[i] = IF i <= m THEN c[i] ELSE t[i - m]
    BY <1>1, <1>2, ConcatProperties
  <2> QED
    BY <1>1, <1>2, <2>1
<1>8. Ahead(s)
  <2>1. SUFFICES ASSUME NEW i \in 1..Len(s), NEW j \in 1..Len(s), i < j
                 PROVE  /\ Position(s[i]) < Position(s[j])
                        /\ s[j] # Top /\ Position(Parent[s[j]]) < Position(s[i])
    BY DEF Ahead
  <2>2. CASE i \in 1..m /\ j \in 1..m
    BY <1>2, <1>5, <1>7, <2>1, <2>2
  <2>3. CASE i \in 1..m /\ j - m \in 1..Len(t) /\ s[j] = t[j - m]
    BY <1>3, <1>6, <1>7, <2>3
  <2>4. CASE i - m \in 1..Len(t) /\ s[i] = t[i - m] /\ j - m \in 1..Len(t) /\ s[j] = t[j - m]
    <3>1. i - m < j - m
      BY <1>1, <1>2, <1>7, <2>1
    <3> QED
      BY <1>3, <1>4, <2>4, <3>1
  <2>5. ~ (j \in 1..m /\ i - m \in 1..Len(t))
    BY <1>1, <1>2, <2>1
  <2> QED
    BY <1>7, <2>2, <2>3, <2>4, <2>5
<1>9. \A i \in 1..Len(s) : Position(h) < Position(s[i])
  BY <1>3, <1>5, <1>7
<1>10. \A i \in 1..m : \E j \in 1..Len(s) : s[j] = c[i]
  BY <1>7
<1>11. ASSUME NEW i \in 1..Len(pending), i # 1
       PROVE  \E j \in 1..Len(s) : s[j] = pending[i]
  <2>1. i - 1 \in 1..Len(t) /\ (i - 1) + 1 = i
    BY <1>1, <1>11
  <2>2. t[i - 1] = pending[i]
    BY <1>1, <2>1
  <2> QED
    BY <1>7, <2>1, <2>2
<1> QED
  BY <1>7, <1>8, <1>9, <1>10, <1>11

(* The head of what is pending comes before all of it, and nothing comes     *)
(* before it that was behind.                                               *)
LEMMA HeadFirst ==
  ASSUME NEW s \in Seq(Path), Ahead(s)
  PROVE  LET hp == IF s = <<>> THEN Len(Order) + 1 ELSE Position(s[1]) IN
           /\ hp \in 1..Len(Order) + 1
           /\ \A i \in 1..Len(s) : hp <= Position(s[i])
           /\ \A n \in Nat :
                n <= Len(Order) /\ (\A i \in 1..Len(s) : n < Position(s[i])) => n < hp
<1>1. CASE s = <<>>
  <2>1. Len(s) = 0 /\ Len(Order) \in Nat
    BY <1>1, EmptySeq, Positions
  <2> QED
    BY <1>1, <2>1
<1>2. CASE s # <<>>
  <2>1. s[1] \in Path /\ Len(s) \in Nat \ {0} /\ 1 \in 1..Len(s)
    BY <1>2, FirstElement
  <2>2. \A i \in 1..Len(s) : s[i] \in Path
    BY ElementOfSeq
  <2>3. Position(s[1]) \in 1..Len(Order) + 1
    BY <2>1, Positions
  <2>4. ASSUME NEW i \in 1..Len(s) PROVE Position(s[1]) <= Position(s[i])
    <3>1. CASE i = 1
      BY <2>3, <3>1
    <3>2. CASE i # 1
      <4>1. 1 < i
        BY <2>1, <3>2
      <4>2. Position(s[1]) < Position(s[i])
        BY <2>1, <4>1 DEF Ahead
      <4>3. Position(s[1]) \in Nat /\ Position(s[i]) \in Nat
        BY <2>1, <2>2, Positions
      <4> QED
        BY <4>2, <4>3
    <3> QED
      BY <3>1, <3>2
  <2> QED
    BY <1>2, <2>1, <2>3, <2>4
<1> QED
  BY <1>1, <1>2

(* The walk moves on: what it visited comes before all that is pending.      *)
LEMMA MovesOn ==
  ASSUME TypeInv, Ahead(pending), pending # <<>>,
         NEW c, c \in {<<>>, Children(Visiting)}, pending' = c \o Tail(pending)
  PROVE  /\ Ahead(pending)' /\ HeadPosition = Position(Visiting)
         /\ HeadPosition \in Nat /\ HeadPosition' \in Nat /\ HeadPosition < HeadPosition'
<1>1. /\ pending \in Seq(Path) /\ Visiting = pending[1] /\ Visiting \in Path
      /\ \A p \in Path : Position(p) \in 1..Len(Order)
      /\ Len(Order) \in Nat
  BY Target, Positions DEF TypeInv, TypeOK
<1>2. /\ Ahead(pending') /\ pending' \in Seq(Path)
      /\ \A i \in 1..Len(pending') : Position(Visiting) < Position(pending'[i])
  BY AheadVisit
<1>3. HeadPosition = Position(Visiting) /\ HeadPosition \in Nat
  BY <1>1 DEF HeadPosition
<1>4. HeadPosition' \in Nat
  <2>1. HeadPosition' \in 1..Len(Order) + 1
    BY <1>2, HeadFirst DEF HeadPosition
  <2> QED
    BY <1>1, <2>1
<1>5. Position(Visiting) < HeadPosition'
  <2>1. PICK n \in Nat : n = Position(Visiting) /\ n <= Len(Order)
    BY <1>1
  <2>2. \A i \in 1..Len(pending') : n < Position(pending'[i])
    BY <1>2, <2>1
  <2> QED
    BY <1>2, <2>1, <2>2, HeadFirst DEF HeadPosition
<1>6. Ahead(pending)'
  BY <1>2 DEF Ahead
<1> QED
  BY <1>3, <1>4, <1>5, <1>6

LEMMA WalkInit == Init => WalkInv
<1> SUFFICES ASSUME Init PROVE WalkInv
  OBVIOUS
<1>1. pending = <<>> /\ archive = <<>> /\ hpc = "lookup" /\ Len(<<>>) = 0
  BY EmptySeq DEF Init
<1> QED
  BY <1>1 DEF WalkInv, Ahead, Filling, Last

LEMMA WalkStep ==
  ASSUME TypeInv, TypeInv', WalkInv, [Next]_vars
  PROVE  WalkInv'
<1>t. /\ pending \in Seq(Path) /\ Top \in Path /\ Len(Order) \in Nat /\ Len(<<>>) = 0
      /\ \A p \in Path : Position(p) \in 1..Len(Order)
  BY Positions, HttpAssumption, EmptySeq DEF TypeInv, TypeOK
<1>1. CASE LookupDirectory
  <2>1. pending' = <<Top>> /\ archive' = <<>> /\ hpc' = "walk"
    BY <1>1 DEF LookupDirectory, WalkInv
  <2>2. Len(<<Top>>) = 1
    BY <1>t
  <2> QED
    BY <1>t, <2>1, <2>2 DEF WalkInv, Ahead, Filling, Last
<1>2. CASE LookupFile
  <2>1. pending' = <<>> /\ hpc' = "serve" /\ Len(archive') = 1
    BY <1>2 DEF LookupFile, WalkInv
  <2> QED
    BY <1>t, <2>1 DEF WalkInv, Ahead, Filling, Last
<1>3. CASE UNCHANGED <<pending, archive>> /\ (hpc' = hpc \/ hpc' = "done")
  <2>1. /\ HeadPosition' = HeadPosition /\ Visiting' = Visiting /\ Last' = Last
        /\ Ahead(pending)'
    BY <1>3 DEF WalkInv, Ahead, Last, HeadPosition, Visiting
  <2>2. CASE hpc' = "done"
    BY <2>1, <2>2 DEF WalkInv, Filling
  <2>3. CASE hpc' = hpc
    BY <1>3, <2>1, <2>3 DEF WalkInv, Filling
  <2> QED
    BY <1>3, <2>2, <2>3
<1>4. CASE OpenFile
  <2>1. UNCHANGED <<pending, archive>> /\ hpc = "open" /\ hpc' = "copy"
    BY <1>4 DEF OpenFile
  <2> QED
    BY <2>1 DEF WalkInv, Ahead, Filling, Last, HeadPosition, Visiting
<1>5. CASE CopyBlock \/ ServeBlock
  <2>1. PICK p \in Path : Copied(p)
    BY <1>5, <1>t, Target DEF CopyBlock, ServeBlock, TypeInv, TypeOK
  <2>2. archive # <<>> /\ UNCHANGED <<hpc, pending>>
    BY <1>5 DEF CopyBlock, ServeBlock, TypeInv, TypeOK
  <2>3. Len(archive') = Len(archive) /\ archive'[Last].path = archive[Last].path
    BY <2>1, <2>2, CopiedBlock
  <2>4. \A i \in 1..Last : i # Last => archive'[i] = archive[i]
    BY <2>1, <2>2, CopiedBlock
  <2>5. Last' = Last /\ \A i \in 1..Last : archive'[i].path = archive[i].path
    BY <2>3, <2>4 DEF Last
  <2>6. hpc # "lookup"
    BY <1>5 DEF CopyBlock, ServeBlock
  <2> QED
    BY <2>2, <2>5, <2>6 DEF WalkInv, Ahead, Filling, HeadPosition, Visiting,
                            Last
<1>6. CASE VisitDirectory \/ CopyEnds
  <2>1. /\ pending # <<>> /\ hpc \in {"walk", "copy"} /\ hpc' = "walk" /\ archive' = archive
        /\ \E c \in {<<>>, Children(Visiting)} : pending' = c \o Tail(pending)
    <3>1. CASE VisitDirectory
      BY <3>1 DEF VisitDirectory
    <3>2. CASE CopyEnds
      <4>1. pending # <<>>
        BY <3>2 DEF CopyEnds, TypeInv, TypeOK
      <4>2. Tail(pending) = <<>> \o Tail(pending)
        BY <1>t, <4>1, FirstElement, ConcatEmptySeq
      <4> QED
        BY <3>2, <4>1, <4>2 DEF CopyEnds
    <3> QED
      BY <1>6, <3>1, <3>2
  <2>2. PICK c \in {<<>>, Children(Visiting)} : pending' = c \o Tail(pending)
    BY <2>1
  <2>3. /\ Ahead(pending)' /\ HeadPosition = Position(Visiting)
        /\ HeadPosition \in Nat /\ HeadPosition' \in Nat /\ HeadPosition < HeadPosition'
    BY <2>1, <2>2, MovesOn DEF WalkInv
  <2>4. ASSUME NEW i \in 1..Last PROVE Position(archive[i].path) < HeadPosition'
    <3>1. PICK n \in Nat : n = Position(archive[i].path)
      <4>1. archive[i].path \in Path
        BY Target DEF ArchiveEntry
      <4> QED
        BY <1>t, <4>1
    <3>2. Len(archive) \in Nat /\ Last = Len(archive)
      BY Target DEF Last
    <3>3. CASE i < Last \/ ~ Filling
      <4>1. n < HeadPosition
        BY <2>1, <3>1, <3>3 DEF WalkInv
      <4> QED
        BY <2>3, <3>1, <4>1
    <3>4. CASE i = Last /\ Filling
      BY <2>3, <3>4 DEF WalkInv
    <3> QED
      BY <3>2, <3>3, <3>4
  <2> QED
    BY <2>1, <2>3, <2>4 DEF WalkInv, Filling, Last
<1>7. CASE CreateHeader
  <2>1. /\ hpc = "walk" /\ hpc' = "open" /\ pending # <<>> /\ pending' = pending
        /\ archive' = Append(archive, [path |-> Visiting, data |-> <<>>])
    BY <1>7 DEF CreateHeader
  <2>2. Visiting = pending[1] /\ Visiting \in Path /\ archive \in Seq(ArchiveEntry)
    BY <2>1, Target
  <2>3. [path |-> Visiting, data |-> <<>>] \in ArchiveEntry
    BY <2>2, EmptySeq DEF ArchiveEntry
  <2>4. /\ Len(archive) \in Nat /\ Last' = Last + 1 /\ Last = Len(archive)
        /\ \A i \in 1..Last : archive'[i] = archive[i]
        /\ archive'[Last + 1].path = Visiting
    <3>1. /\ Len(archive) \in Nat /\ Len(archive') = Len(archive) + 1
          /\ \A i \in 1..Len(archive) : archive'[i] = archive[i]
          /\ archive'[Len(archive) + 1] = [path |-> Visiting, data |-> <<>>]
      BY <2>1, <2>2, <2>3, AppendProperties, LenProperties
    <3> QED
      BY <3>1 DEF Last
  <2>5. HeadPosition = Position(Visiting) /\ HeadPosition' = HeadPosition
    BY <2>1, <2>2 DEF HeadPosition
  <2>6. \A i \in 1..Last : Position(archive[i].path) < Position(Visiting)
    BY <2>1, <2>5 DEF WalkInv, Filling
  <2>9. \A i \in 1..Last' : i < Last' => Position(archive'[i].path) < HeadPosition'
    BY <2>4, <2>5, <2>6
  <2>10. Ahead(pending)' /\ Filling' /\ Visiting' = Visiting
    BY <2>1 DEF WalkInv, Ahead, Filling, Visiting
  <2> QED
    BY <2>1, <2>4, <2>9, <2>10 DEF WalkInv
<1>8. CASE WalkFails
  <2>1. hpc \in {"walk", "open", "copy"} /\ hpc' = "walk" /\ pending' = <<>> /\ archive' = archive
    BY <1>8 DEF WalkFails
  <2>2. HeadPosition' = Len(Order) + 1
    BY <2>1 DEF HeadPosition
  <2>3. \A i \in 1..Last : Position(archive[i].path) < HeadPosition'
    <3>1. \A i \in 1..Last : archive[i].path \in Path
      BY Target DEF ArchiveEntry
    <3> QED
      BY <1>t, <2>2, <3>1
  <2> QED
    BY <1>t, <2>1, <2>3 DEF WalkInv, Ahead, Filling, Last
<1> QED
  BY <1>1, <1>2, <1>3, <1>4, <1>5, <1>6, <1>7, <1>8
  DEF Next, Handler, Answered, NotFound, CloseArchive, ServeEnds, Edit, Leave, vars

-----------------------------------------------------------------------------
(* What the entries hold.  The entry at hand holds the beginning of its     *)
(* file, and all others are whole, as far as nobody edited the file.        *)
Begins(d, e) == Len(d) <= Len(e) /\ \A i \in 1..Len(d) : d[i] = e[i]

Settled(i) == i < Last \/ (hpc \in {"walk", "done"} /\ ~failed /\ response # "cut")

EntryInv ==
  /\ hpc # "done" => response = "open"
  /\ hpc \in {"lookup", "serve"} => ~failed
  /\ hpc \in {"lookup", "walk", "open", "copy"} => declared = 0
  /\ failed => pending = <<>> /\ declared = 0
  /\ hpc = "open" => archive[Last].data = <<>>
  /\ hpc = "copy" /\ Visiting \in steady => Begins(archive[Last].data, disk[Visiting].data)
  /\ \A i \in 1..Last : archive[i].path \in steady /\ Settled(i) => Whole(i)
  /\ hpc = "serve" =>
       /\ Last = 1 /\ archive[1].path = Top /\ Len(archive[1].data) <= declared
       /\ Top \in steady =>
            declared = Len(disk[Top].data) /\ Begins(archive[1].data, disk[Top].data)
  /\ hpc = "done" /\ response = "complete" /\ declared > 0 =>
       Last = 1 /\ archive[1].path = Top /\ Len(archive[1].data) = declared

LEMMA BeginsOn ==
  ASSUME NEW d \in Seq(Block), NEW e \in Seq(Block), Len(d) < Len(e), Begins(d, e)
  PROVE  LET f == Append(d, e[Len(d) + 1]) IN
           Begins(f, e) /\ Len(f) = Len(d) + 1 /\ Len(d) \in Nat /\ Len(e) \in Nat
<1> DEFINE x == e[Len(d) + 1]
           f == Append(d, x)
<1>1. Len(d) \in Nat /\ Len(e) \in Nat
  BY LenProperties
<1>2. x \in Block
  <2>1. Len(d) + 1 \in 1..Len(e)
    BY <1>1
  <2> QED
    BY <2>1, ElementOfSeq
<1>3. /\ Len(f) = Len(d) + 1 /\ f[Len(d) + 1] = x
      /\ \A i \in 1..Len(d) : f[i] = d[i]
  BY <1>2, AppendProperties
<1>4. \A i \in 1..Len(d) + 1 : i \in 1..Len(d) \/ i = Len(d) + 1
  BY <1>1
<1>5. \A i \in 1..Len(f) : f[i] = e[i]
  BY <1>3, <1>4 DEF Begins
<1>6. Len(f) <= Len(e)
  BY <1>1, <1>3
<1> QED
  BY <1>1, <1>3, <1>5, <1>6 DEF Begins

LEMMA BeginsAll ==
  ASSUME NEW d \in Seq(Block), NEW e \in Seq(Block), Len(d) >= Len(e), Begins(d, e)
  PROVE  d = e
<1>1. Len(d) = Len(e)
  BY LenProperties DEF Begins
<1> QED
  BY <1>1, SeqEqual DEF Begins

LEMMA EntryInit == Init => EntryInv
<1> SUFFICES ASSUME Init PROVE EntryInv
  OBVIOUS
<1>1. archive = <<>> /\ Len(<<>>) = 0
  BY EmptySeq DEF Init
<1> QED
  BY <1>1 DEF Init, EntryInv, Last

LEMMA EntryStep ==
  ASSUME TypeInv, TypeInv', WalkInv, EntryInv, [Next]_vars
  PROVE  EntryInv'
<1>t. /\ Top \in Path /\ Len(<<>>) = 0 /\ <<>> \in Seq(Block)
      /\ \A p \in Path : disk[p].data \in Seq(Block)
      /\ \A i \in 1..Last : archive[i].path \in Path /\ archive[i].data \in Seq(Block)
      /\ Last \in Nat /\ Last = Len(archive)
  BY HttpAssumption, EmptySeq, Target DEF TypeInv, TypeOK, Entry, ArchiveEntry, Last
<1>1. CASE LookupDirectory
  <2>1. /\ hpc = "lookup" /\ hpc' = "walk" /\ UNCHANGED <<archive, failed, declared, response>>
    BY <1>1 DEF LookupDirectory
  <2>2. Last' = 0
    BY <1>t, <2>1 DEF WalkInv, Last
  <2> QED
    BY <2>1, <2>2 DEF EntryInv
<1>2. CASE LookupFile
  <2>1. /\ hpc = "lookup" /\ hpc' = "serve" /\ UNCHANGED <<failed, response, disk, steady>>
        /\ archive' = <<[path |-> Top, data |-> <<>>]>> /\ declared' = Len(disk[Top].data)
    BY <1>2 DEF LookupFile
  <2>2. Last' = 1 /\ archive'[1].path = Top /\ archive'[1].data = <<>>
    BY <2>1 DEF Last
  <2>3. declared' \in Nat
    BY DEF TypeInv, TypeOK
  <2>4. Begins(<<>>, disk[Top].data)
    BY <1>t, <2>1, <2>3 DEF Begins
  <2>5. \A i \in 1..Last' : ~ Settled(i)'
    BY <2>1, <2>2 DEF Settled
  <2> QED
    BY <1>t, <2>1, <2>2, <2>3, <2>4, <2>5 DEF EntryInv
<1>3. CASE NotFound
  <2>1. /\ hpc = "lookup" /\ hpc' = "done" /\ UNCHANGED <<archive, failed, declared, response>>
    BY <1>3 DEF NotFound
  <2>2. Last' = 0
    BY <1>t, <2>1 DEF WalkInv, Last
  <2> QED
    BY <2>1, <2>2 DEF EntryInv
<1>4. CASE VisitDirectory
  <2>1. /\ hpc = "walk" /\ pending # <<>>
        /\ UNCHANGED <<hpc, archive, failed, declared, response, disk, steady>>
    BY <1>4 DEF VisitDirectory
  <2>2. Last' = Last /\ \A i : Settled(i)' <=> Settled(i)
    BY <2>1 DEF Last, Settled
  <2>3. \A i : Whole(i)' <=> Whole(i)
    BY <2>1 DEF Whole
  <2> QED
    BY <2>1, <2>2, <2>3 DEF EntryInv
<1>5. CASE CreateHeader
  <2>1. /\ hpc = "walk" /\ hpc' = "open" /\ pending # <<>> /\ pending' = pending
        /\ archive' = Append(archive, [path |-> Visiting, data |-> <<>>])
        /\ UNCHANGED <<failed, declared, response, disk, steady>>
    BY <1>5 DEF CreateHeader
  <2>2. ~ failed /\ response = "open"
    BY <2>1 DEF EntryInv
  <2>3. [path |-> Visiting, data |-> <<>>] \in ArchiveEntry /\ archive \in Seq(ArchiveEntry)
    BY <1>t, <2>1, Target DEF ArchiveEntry
  <2>4. /\ Last' = Last + 1 /\ archive'[Last + 1] = [path |-> Visiting, data |-> <<>>]
        /\ \A i \in 1..Last : archive'[i] = archive[i]
    BY <1>t, <2>1, <2>3, AppendProperties DEF Last
  <2>5. ASSUME NEW i \in 1..Last', archive'[i].path \in steady', Settled(i)' PROVE Whole(i)'
    <3>1. i < Last'
      BY <2>1, <2>5 DEF Settled
    <3>2. i \in 1..Last
      BY <1>t, <2>4, <3>1
    <3>3. Settled(i)
      BY <2>1, <2>2 DEF Settled
    <3>4. Whole(i)
      BY <2>1, <2>4, <2>5, <3>2, <3>3 DEF EntryInv
    <3> QED
      BY <2>1, <2>4, <3>2, <3>4 DEF Whole
  <2>6. archive'[Last'].data = <<>>
    BY <2>4
  <2> QED
    BY <2>1, <2>2, <2>5, <2>6 DEF EntryInv
<1>6. CASE OpenFile
  <2>1. /\ hpc = "open" /\ hpc' = "copy"
        /\ UNCHANGED <<pending, archive, failed, declared, response, disk, steady>>
    BY <1>6 DEF OpenFile
  <2>2. pending # <<>> /\ Visiting \in Path
    BY <2>1, Target DEF TypeInv, TypeOK
  <2>3. Begins(archive[Last].data, disk[Visiting].data)
    <3>1. archive[Last].data = <<>>
      BY <2>1 DEF EntryInv
    <3>2. Len(disk[Visiting].data) \in Nat
      BY <1>t, <2>2, LenProperties
    <3> QED
      BY <1>t, <3>1, <3>2 DEF Begins
  <2>4. Last' = Last /\ Visiting' = Visiting /\ \A i : Settled(i)' => Settled(i)
    BY <2>1 DEF Last, Visiting, Settled
  <2>5. \A i : Whole(i)' <=> Whole(i)
    BY <2>1 DEF Whole
  <2> QED
    BY <2>1, <2>3, <2>4, <2>5 DEF EntryInv
<1>7. CASE CopyBlock \/ ServeBlock
  <2>1. PICK p \in Path : /\ Copied(p)
                          /\ hpc = "copy" => p = Visiting
                          /\ hpc = "serve" => p = Top /\ Len(archive[Last].data) < declared
    BY <1>7, <1>t, Target DEF CopyBlock, ServeBlock, TypeInv, TypeOK
  <2>2. /\ archive # <<>> /\ hpc \in {"copy", "serve"}
        /\ UNCHANGED <<hpc, pending, failed, declared, response, disk, steady>>
    BY <1>7 DEF CopyBlock, ServeBlock, TypeInv, TypeOK
  <2> DEFINE d == archive[Last].data
             e == disk[p].data
             f == Append(d, e[Len(d) + 1])
  <2>3. /\ Len(archive') = Len(archive)
        /\ archive'[Last].path = archive[Last].path /\ archive'[Last].data = f
        /\ \A i \in 1..Last : i # Last => archive'[i] = archive[i]
        /\ d \in Seq(Block) /\ e \in Seq(Block) /\ Len(d) < Len(e)
    BY <2>1, <2>2, CopiedBlock
  <2>4. Last' = Last /\ Visiting' = Visiting
    BY <2>2, <2>3 DEF Last, Visiting
  <2>5. Begins(d, e) => Begins(f, e) /\ Len(f) = Len(d) + 1 /\ Len(d) \in Nat /\ Len(e) \in Nat
    BY <2>3, BeginsOn
  <2> HIDE DEF d, e, f
  <2>6. ASSUME NEW i \in 1..Last', archive'[i].path \in steady', Settled(i)' PROVE Whole(i)'
    <3>1. i < Last
      BY <2>2, <2>4, <2>6 DEF Settled
    <3>2. archive'[i] = archive[i] /\ Settled(i)
      BY <1>t, <2>3, <2>4, <3>1 DEF Settled
    <3>3. Whole(i)
      BY <2>2, <2>4, <2>6, <3>2 DEF EntryInv
    <3> QED
      BY <2>2, <3>2, <3>3 DEF Whole
  <2>7. CASE hpc = "copy"
    <3>1. Visiting \in steady => Begins(archive'[Last].data, disk[Visiting].data)
      BY <2>1, <2>3, <2>5, <2>7 DEF EntryInv, d, e
    <3> QED
      BY <2>2, <2>4, <2>6, <2>7, <3>1 DEF EntryInv
  <2>8. CASE hpc = "serve"
    <3>1. Last = 1 /\ archive[1].path = Top /\ p = Top
      BY <2>1, <2>8 DEF EntryInv
    <3>2. Top \in steady =>
            declared = Len(disk[Top].data) /\ Begins(archive'[1].data, disk[Top].data)
      BY <2>3, <2>5, <2>8, <3>1 DEF EntryInv, d, e
    <3>3. Len(archive'[1].data) <= declared
      <4>1. Len(d) < declared /\ Len(d) \in Nat /\ declared \in Nat
        BY <2>1, <2>3, <2>8, LenProperties DEF d, TypeInv, TypeOK
      <4>2. Len(f) = Len(d) + 1
        <5>1. e[Len(d) + 1] \in Block
          <6>1. Len(d) + 1 \in 1..Len(e)
            BY <2>3, LenProperties
          <6> QED
            BY <2>3, <6>1, ElementOfSeq
        <5> QED
          BY <2>3, <5>1, AppendProperties DEF f
      <4> QED
        BY <2>3, <3>1, <4>1, <4>2
    <3> QED
      BY <2>2, <2>3, <2>4, <2>6, <2>8, <3>1, <3>2, <3>3 DEF EntryInv
  <2> QED
    BY <2>2, <2>7, <2>8
<1>8. CASE CopyEnds
  <2>1. /\ hpc = "copy" /\ hpc' = "walk" /\ pending # <<>>
        /\ Len(archive[Last].data) >= Len(disk[Visiting].data)
        /\ UNCHANGED <<archive, failed, declared, response, disk, steady>>
    BY <1>8 DEF CopyEnds, TypeInv, TypeOK
  <2>2. Last' = Last /\ ~ failed
    BY <2>1 DEF Last, EntryInv
  <2>3. ASSUME NEW i \in 1..Last, archive[i].path \in steady PROVE Whole(i)
    <3>1. CASE i < Last
      BY <2>3, <3>1 DEF EntryInv, Settled
    <3>2. CASE i = Last
      <4>1. archive[i].path = Visiting
        BY <2>1, <3>2 DEF WalkInv, Filling
      <4>2. Begins(archive[Last].data, disk[Visiting].data)
        BY <2>1, <2>3, <3>2, <4>1 DEF EntryInv
      <4>3. archive[Last].data \in Seq(Block) /\ disk[Visiting].data \in Seq(Block)
        BY <1>t, <2>3, <3>2, <4>1
      <4>4. archive[Last].data = disk[Visiting].data
        BY <2>1, <4>2, <4>3, BeginsAll
      <4> QED
        BY <3>2, <4>1, <4>4 DEF Whole
    <3> QED
      BY <1>t, <3>1, <3>2
  <2>4. \A i : Whole(i)' <=> Whole(i)
    BY <2>1 DEF Whole
  <2> QED
    BY <2>1, <2>2, <2>3, <2>4 DEF EntryInv
<1>9. CASE WalkFails
  <2>1. /\ hpc \in {"walk", "open", "copy"} /\ hpc' = "walk" /\ failed' = TRUE /\ pending' = <<>>
        /\ UNCHANGED <<archive, declared, response, disk, steady>>
    BY <1>9 DEF WalkFails
  <2>2. Last' = Last /\ \A i : Settled(i)' => Settled(i)
    BY <2>1 DEF Last, Settled
  <2>3. \A i : Whole(i)' <=> Whole(i)
    BY <2>1 DEF Whole
  <2> QED
    BY <2>1, <2>2, <2>3 DEF EntryInv
<1>10. CASE CloseArchive
  <2>1. /\ hpc = "walk" /\ hpc' = "done"
        /\ UNCHANGED <<pending, archive, failed, declared, disk, steady>>
    BY <1>10 DEF CloseArchive
  <2>2. response = "open"
    BY <2>1 DEF EntryInv
  <2>3. Last' = Last /\ \A i : Settled(i)' => Settled(i)
    BY <2>1, <2>2 DEF Last, Settled
  <2>4. \A i : Whole(i)' <=> Whole(i)
    BY <2>1 DEF Whole
  <2> QED
    BY <2>1, <2>2, <2>3, <2>4 DEF EntryInv
<1>11. CASE ServeEnds
  <2>1. /\ hpc = "serve" /\ hpc' = "done"
        /\ response' = IF link = "up" /\ Len(archive[Last].data) = declared
                       THEN "complete" ELSE "cut"
        /\ UNCHANGED <<pending, archive, failed, declared, disk, steady>>
    BY <1>11 DEF ServeEnds
  <2>2. Last' = Last /\ Last = 1 /\ archive[1].path = Top
    BY <2>1 DEF Last, EntryInv
  <2>3. ASSUME response' # "cut", Top \in steady PROVE archive[1].data = disk[Top].data
    <3>1. Len(archive[1].data) = declared
      BY <2>1, <2>2, <2>3
    <3>2. declared = Len(disk[Top].data) /\ Begins(archive[1].data, disk[Top].data)
      BY <2>1, <2>3 DEF EntryInv
    <3>3. archive[1].data \in Seq(Block) /\ disk[Top].data \in Seq(Block) /\ declared \in Nat
      BY <1>t, <2>2 DEF TypeInv, TypeOK
    <3> QED
      BY <3>1, <3>2, <3>3, BeginsAll
  <2>4. \A i \in 1..Last' : archive'[i].path \in steady' /\ Settled(i)' => Whole(i)'
    BY <2>1, <2>2, <2>3 DEF Settled, Whole
  <2>5. response' = "complete" => Len(archive[1].data) = declared
    BY <2>1, <2>2
  <2> QED
    BY <2>1, <2>2, <2>4, <2>5 DEF EntryInv
<1>12. CASE Edit
  <2>2. UNCHANGED <<hpc, pending, archive, failed, declared, response>>
    BY <1>12, Edited
  <2>3. steady' \subseteq steady /\ \A q \in steady' : disk'[q] = disk[q]
    BY <1>12, Edited
  <2>4. Last' = Last /\ Visiting' = Visiting /\ \A i : Settled(i)' <=> Settled(i)
    BY <2>2 DEF Last, Visiting, Settled
  <2>5. \A i \in 1..Last : archive'[i].path \in steady' /\ Whole(i) => Whole(i)'
    BY <2>2, <2>3 DEF Whole
  <2>6. hpc' = "copy" /\ Visiting' \in steady' =>
          Begins(archive'[Last'].data, disk'[Visiting'].data)
    BY <2>2, <2>3, <2>4 DEF EntryInv
  <2>7. hpc' = "serve" =>
          /\ Last' = 1 /\ archive'[1].path = Top /\ Len(archive'[1].data) <= declared'
          /\ (Top \in steady' =>
                declared' = Len(disk'[Top].data) /\ Begins(archive'[1].data, disk'[Top].data))
    BY <2>2, <2>3, <2>4 DEF EntryInv
  <2>8. \A i \in 1..Last' : archive'[i].path \in steady' /\ Settled(i)' => Whole(i)'
    BY <2>2, <2>3, <2>4, <2>5 DEF EntryInv
  <2> QED
    BY <2>2, <2>4, <2>6, <2>7, <2>8 DEF EntryInv
<1>13. CASE UNCHANGED <<hpc, pending, archive, failed, declared, response, disk, steady>>
  <2>1. Last' = Last /\ Visiting' = Visiting /\ \A i : Settled(i)' <=> Settled(i)
    BY <1>13 DEF Last, Visiting, Settled
  <2>2. \A i : Whole(i)' <=> Whole(i)
    BY <1>13 DEF Whole
  <2> QED
    BY <1>13, <2>1, <2>2 DEF EntryInv
<1> QED
  BY <1>1, <1>2, <1>3, <1>4, <1>5, <1>6, <1>7, <1>8, <1>9, <1>10, <1>11, <1>12, <1>13
  DEF Next, Handler, Answered, Leave, vars

-----------------------------------------------------------------------------
(* What the archive holds.  Of the paths that a walk comes to, those before *)
(* the head of what is pending are in the archive if they are files, and    *)
(* what is in one of them, a directory, is before the head too or pending.  *)
Waiting(p) == \E i \in 1..Len(pending) : pending[i] = p

HeldInv ==
  \A p \in steady \cap Path :
    Readable(p) /\ Reached(p) /\ Position(p) < HeadPosition => Held(p)

BelowInv ==
  \A p, d \in Path :
    IsIn(p, d) /\ Reached(d) /\ disk[p].kind # "absent" /\ Position(d) < HeadPosition =>
      Position(p) < HeadPosition \/ Waiting(p)

AllHeld == \A p \in steady : Readable(p) /\ Reached(p) => Held(p)

ReachInv ==
  /\ hpc \in {"walk", "open", "copy"} /\ ~failed => HeldInv /\ BelowInv
  /\ Filling /\ Visiting \in steady => disk[Visiting].kind # "dir"
  /\ hpc = "serve" /\ Top \in steady => disk[Top].kind # "dir"
  /\ hpc = "done" /\ response = "complete" /\ ~failed => AllHeld

LEMMA ReachedOn ==
  /\ Reached(Top)
  /\ \A p, d \in Path : Reached(d) /\ IsIn(p, d) => Reached(p)
BY DEF Reached, Closed

(* An edit never makes a path reached. *)
LEMMA ReachedBefore ==
  ASSUME \A q, d \in Path : IsIn(q, d)' => IsIn(q, d), NEW p \in Path, Reached(p)'
  PROVE  Reached(p)
<1>1. SUFFICES ASSUME NEW S \in SUBSET Path, Closed(S) PROVE p \in S
  BY DEF Reached
<1>2. Closed(S)'
  BY <1>1 DEF Closed
<1> QED
  BY <1>2 DEF Reached

(* A walk that moves on from a path comes next to something pending: there  *)
(* is nothing in between that it should have come to.                       *)
LEMMA NoneBetween ==
  ASSUME TypeInv, WalkInv, BelowInv, pending # <<>>,
         NEW c, c \in {<<>>, Children(Visiting)}, pending' = c \o Tail(pending),
         Visiting \in steady /\ disk[Visiting].kind = "dir" => c = Children(Visiting)
  PROVE  /\ \A q \in Path : Reached(q) /\ disk[q].kind # "absent" =>
              Position(q) <= Position(Visiting) \/ HeadPosition' <= Position(q)
         /\ \A p, d \in Path :
              /\ IsIn(p, d) /\ Reached(d) /\ disk[p].kind # "absent"
              /\ Position(d) <= Position(Visiting)
              => Position(p) <= Position(Visiting) \/ Waiting(p)'
<1> DEFINE h == Visiting
           n == HeadPosition'
<1>1. /\ Ahead(pending) /\ pending' \in Seq(Path) /\ Ahead(pending')
      /\ h = pending[1] /\ h \in Path /\ HeadPosition = Position(h)
      /\ \A i \in 1..Len(pending) : i # 1 =>
           \E j \in 1..Len(pending') : pending'[j] = pending[i]
      /\ \A i \in 1..Len(c) : \E j \in 1..Len(pending') : pending'[j] = c[i]
  <2>1. Ahead(pending)
    BY DEF WalkInv
  <2>2. /\ Ahead(pending') /\ pending' \in Seq(Path)
        /\ \A i \in 1..Len(c) : \E j \in 1..Len(pending') : pending'[j] = c[i]
        /\ \A i \in 1..Len(pending) : i # 1 =>
             \E j \in 1..Len(pending') : pending'[j] = pending[i]
    BY <2>1, AheadVisit
  <2>3. h = pending[1] /\ h \in Path
    BY Target
  <2>4. HeadPosition = Position(h)
    BY <2>1, MovesOn
  <2> QED
    BY <2>1, <2>2, <2>3, <2>4
<1>2. \A p \in Path : Position(p) \in Nat
  BY Positions
<1>3. n \in Nat /\ Position(h) < n
  BY <1>1, MovesOn
<1>4. \A p \in Path : Waiting(p)' => n <= Position(p)
  <2>1. n = IF pending' = <<>> THEN Len(Order) + 1 ELSE Position(pending'[1])
    BY DEF HeadPosition
  <2>2. \A i \in 1..Len(pending') : n <= Position(pending'[i])
    BY <1>1, <2>1, HeadFirst
  <2> QED
    BY <2>2 DEF Waiting
<1>5. \A p, d \in Path : \A q \in Path : Position(q) = Position(d) => q = d
  BY Positions
<1>6. ASSUME NEW p \in Path, NEW d \in Path, IsIn(p, d), Reached(d),
             disk[p].kind # "absent", Position(d) <= Position(h)
      PROVE  Position(p) <= Position(h) \/ Waiting(p)'
  <2>1. CASE Position(d) < Position(h)
    <3>1. Position(p) < Position(h) \/ Waiting(p)
      BY <1>1, <1>6, <2>1 DEF BelowInv
    <3>2. CASE Position(p) < Position(h)
      BY <1>2, <3>2, <1>1
    <3>3. CASE Waiting(p)
      <4>1. PICK i \in 1..Len(pending) : pending[i] = p
        BY <3>3 DEF Waiting
      <4>2. CASE i = 1
        BY <1>1, <1>2, <4>1, <4>2
      <4>3. CASE i # 1
        BY <1>1, <4>1, <4>3 DEF Waiting
      <4> QED
        BY <4>2, <4>3
    <3> QED
      BY <3>1, <3>2, <3>3
  <2>2. CASE d = h
    <3>1. c = Children(h)
      BY <1>6, <2>2 DEF IsIn
    <3>2. p \in Names(h)
      BY <1>6, <2>2 DEF IsIn, Names
    <3>3. \E i \in 1..Len(c) : c[i] = p
      <4>1. Names(h) \in SUBSET Path
        BY DEF Names
      <4> QED
        BY <3>1, <3>2, <4>1, SortedNames DEF Children
    <3> QED
      BY <1>1, <3>3 DEF Waiting
  <2>3. Position(d) < Position(h) \/ d = h
    <3>1. Position(d) \in Nat /\ Position(h) \in Nat
      BY <1>1, <1>2
    <3>2. Position(d) < Position(h) \/ Position(d) = Position(h)
      BY <1>6, <3>1
    <3> QED
      BY <1>1, <1>5, <3>2
  <2> QED
    BY <2>1, <2>2, <2>3
<1> DEFINE S == { q \in Path : Reached(q) /\
                    (disk[q].kind # "absent" =>
                       Position(q) <= Position(h) \/ n <= Position(q)) }
<1>7. Closed(S)
  <2>1. Top \in S
    <3>1. Position(Top) <= Position(h)
      BY <1>1, Positions
    <3> QED
      BY <3>1, ReachedOn, HttpAssumption
  <2>2. ASSUME NEW q \in Path, NEW d \in Path, d \in S, IsIn(q, d) PROVE q \in S
    <3>1. Reached(d) /\ disk[d].kind # "absent" /\ Reached(q)
      BY <2>2, ReachedOn DEF IsIn
    <3>2. SUFFICES ASSUME disk[q].kind # "absent"
                   PROVE  Position(q) <= Position(h) \/ n <= Position(q)
      BY <3>1
    <3>3. CASE Position(d) <= Position(h)
      BY <1>4, <1>6, <2>2, <3>1, <3>2, <3>3
    <3>4. CASE n <= Position(d)
      <4>1. Position(d) < Position(q)
        BY <2>2, OrderAssumption DEF IsIn
      <4>2. Position(d) \in Nat /\ Position(q) \in Nat
        BY <1>2
      <4> QED
        BY <1>3, <3>4, <4>1, <4>2
    <3> QED
      BY <2>2, <3>1, <3>3, <3>4
  <2> QED
    BY <2>1, <2>2 DEF Closed
<1>8. \A q \in Path : Reached(q) => q \in S
  <2>1. S \in SUBSET Path
    OBVIOUS
  <2> HIDE DEF S
  <2> QED
    BY <1>7, <2>1 DEF Reached
<1> QED
  BY <1>6, <1>8

LEMMA ReachInit == Init => ReachInv
BY DEF Init, ReachInv, Filling

LEMMA ReachStep ==
  ASSUME TypeInv, TypeInv', WalkInv, EntryInv, ReachInv, [Next]_vars
  PROVE  ReachInv'
<1>t. /\ Top \in Path /\ Last \in Nat
      /\ \A p \in Path : Position(p) \in Nat /\ 1 <= Position(p) /\ Position(p) < Len(Order) + 1
  <2>1. \A p \in Path : Position(p) \in 1..Len(Order) /\ Len(Order) \in Nat
    BY Positions
  <2> QED
    BY <2>1, HttpAssumption, Target DEF Last
<1>1. CASE LookupDirectory
  <2>1. hpc' = "walk" /\ pending' = <<Top>>
    BY <1>1 DEF LookupDirectory
  <2>2. HeadPosition' = 1
    BY <2>1, Positions DEF HeadPosition
  <2>3. \A p \in Path : ~ (Position(p) < HeadPosition')
    BY <1>t, <2>2
  <2>4. HeldInv' /\ BelowInv'
    BY <2>3 DEF HeldInv, BelowInv
  <2> QED
    BY <2>1, <2>4 DEF ReachInv, Filling
<1>2. CASE LookupFile
  BY <1>2 DEF LookupFile, ReachInv, Filling
<1>3. CASE NotFound
  <2>1. hpc' = "done" /\ response' = "open"
    BY <1>3 DEF NotFound, EntryInv
  <2> QED
    BY <2>1 DEF ReachInv, Filling
<1>4. CASE CreateHeader
  <2>1. /\ hpc = "walk" /\ hpc' = "open" /\ pending # <<>>
        /\ disk[Visiting].kind \in {"file", "link", "dirlink"}
        /\ archive' = Append(archive, [path |-> Visiting, data |-> <<>>])
        /\ UNCHANGED <<pending, failed, disk, steady>>
    BY <1>4 DEF CreateHeader
  <2>2. \A p \in Path : Held(p) => Held(p)'
    <3>1. [path |-> Visiting, data |-> <<>>] \in ArchiveEntry /\ archive \in Seq(ArchiveEntry)
      BY <2>1, Target, EmptySeq DEF ArchiveEntry
    <3>2. /\ Last' = Last + 1 /\ \A i \in 1..Last : archive'[i] = archive[i]
      BY <2>1, <3>1, AppendProperties DEF Last
    <3>3. \A i \in 1..Last : i \in 1..Last'
      BY <1>t, <3>2
    <3> QED
      BY <3>2, <3>3 DEF Held
  <2>3. HeadPosition' = HeadPosition /\ Visiting' = Visiting
    BY <2>1 DEF HeadPosition, Visiting
  <2>4. \A p \in Path : (Readable(p)' <=> Readable(p)) /\ (Reached(p)' <=> Reached(p))
    BY <2>1 DEF Readable, Reached, Closed, IsIn
  <2>5. \A p, d \in Path : (IsIn(p, d)' <=> IsIn(p, d)) /\ (Waiting(p)' <=> Waiting(p))
    BY <2>1 DEF IsIn, Waiting
  <2>6. ~ failed => HeldInv' /\ BelowInv'
    BY <2>1, <2>2, <2>3, <2>4, <2>5 DEF ReachInv, HeldInv, BelowInv
  <2> QED
    BY <2>1, <2>3, <2>6 DEF ReachInv, Filling
<1>5. CASE CopyBlock \/ ServeBlock
  <2>1. PICK p \in Path : Copied(p)
    BY <1>5, <1>t, Target DEF CopyBlock, ServeBlock, TypeInv, TypeOK
  <2>2. /\ archive # <<>> /\ hpc \in {"copy", "serve"}
        /\ UNCHANGED <<hpc, pending, failed, disk, steady>>
    BY <1>5 DEF CopyBlock, ServeBlock, TypeInv, TypeOK
  <2>3. /\ Len(archive') = Len(archive) /\ archive'[Last].path = archive[Last].path
        /\ \A i \in 1..Last : i # Last => archive'[i] = archive[i]
    BY <2>1, <2>2, CopiedBlock
  <2>4. \A q \in Path : Held(q) => Held(q)'
    BY <2>3 DEF Held, Last
  <2>5. HeadPosition' = HeadPosition /\ Visiting' = Visiting
    BY <2>2 DEF HeadPosition, Visiting
  <2>6. \A q \in Path : (Readable(q)' <=> Readable(q)) /\ (Reached(q)' <=> Reached(q))
    BY <2>2 DEF Readable, Reached, Closed, IsIn
  <2>7. \A q, d \in Path : (IsIn(q, d)' <=> IsIn(q, d)) /\ (Waiting(q)' <=> Waiting(q))
    BY <2>2 DEF IsIn, Waiting
  <2>8. HeldInv /\ BelowInv => HeldInv' /\ BelowInv'
    BY <2>2, <2>4, <2>5, <2>6, <2>7 DEF HeldInv, BelowInv
  <2> QED
    BY <2>2, <2>5, <2>8 DEF ReachInv, Filling
<1>6. CASE VisitDirectory \/ CopyEnds
  <2>1. /\ pending # <<>> /\ hpc \in {"walk", "copy"} /\ hpc' = "walk"
        /\ UNCHANGED <<archive, failed, disk, steady>>
    BY <1>6 DEF VisitDirectory, CopyEnds, TypeInv, TypeOK
  <2>2. SUFFICES ASSUME ~ failed PROVE HeldInv' /\ BelowInv'
    BY <2>1 DEF ReachInv, Filling
  <2>3. HeldInv /\ BelowInv
    BY <2>1, <2>2 DEF ReachInv
  <2>4. PICK c \in {<<>>, Children(Visiting)} :
          /\ pending' = c \o Tail(pending)
          /\ Visiting \in steady /\ disk[Visiting].kind = "dir" => c = Children(Visiting)
    <3>1. CASE VisitDirectory
      BY <3>1 DEF VisitDirectory
    <3>2. CASE CopyEnds
      <4>1. pending \in Seq(Path) /\ hpc = "copy" /\ pending' = Tail(pending)
        BY <3>2 DEF CopyEnds, TypeInv, TypeOK
      <4>2. pending' = <<>> \o Tail(pending)
        BY <2>1, <4>1, FirstElement, ConcatEmptySeq
      <4>3. ~ (Visiting \in steady /\ disk[Visiting].kind = "dir")
        BY <4>1 DEF ReachInv, Filling
      <4> QED
        BY <4>2, <4>3
    <3> QED
      BY <1>6, <3>1, <3>2
  <2>5. /\ \A q \in Path : Reached(q) /\ disk[q].kind # "absent" =>
             Position(q) <= Position(Visiting) \/ HeadPosition' <= Position(q)
        /\ \A p, d \in Path :
             /\ IsIn(p, d) /\ Reached(d) /\ disk[p].kind # "absent"
             /\ Position(d) <= Position(Visiting)
             => Position(p) <= Position(Visiting) \/ Waiting(p)'
    BY <2>1, <2>3, <2>4, NoneBetween
  <2>6. /\ HeadPosition = Position(Visiting) /\ HeadPosition \in Nat
        /\ HeadPosition' \in Nat /\ HeadPosition < HeadPosition'
    BY <2>1, <2>4, MovesOn DEF WalkInv
  <2>7. \A q \in Path : (Readable(q)' <=> Readable(q)) /\ (Reached(q)' <=> Reached(q))
                        /\ (Held(q)' <=> Held(q))
    BY <2>1 DEF Readable, Reached, Closed, IsIn, Held, Last
  <2>8. \A q, d \in Path : IsIn(q, d)' <=> IsIn(q, d)
    BY <2>1 DEF IsIn
  <2>9. ASSUME NEW q \in Path, Reached(q), disk[q].kind # "absent",
               Position(q) < HeadPosition'
        PROVE  Position(q) <= Position(Visiting)
    BY <1>t, <2>5, <2>6, <2>9
  <2>10. ASSUME NEW q \in steady \cap Path, Readable(q), Reached(q),
                Position(q) < HeadPosition'
         PROVE  Held(q)
    <3>1. Position(q) <= Position(Visiting)
      BY <2>9, <2>10 DEF Readable
    <3>2. CASE Position(q) < HeadPosition
      BY <2>3, <2>10, <3>2 DEF HeldInv
    <3>3. CASE q = Visiting
      <4>1. hpc = "copy"
        BY <1>6, <2>10, <3>3 DEF VisitDirectory, CopyEnds, Readable
      <4>2. archive[Last].path = q /\ archive # <<>>
        BY <3>3, <4>1 DEF WalkInv, Filling, TypeInv, TypeOK
      <4> QED
        BY <4>2, Target DEF Held, Last
    <3>4. Position(q) < HeadPosition \/ q = Visiting
      <4>1. Visiting \in Path /\ Position(q) \in Nat
        BY <1>t, <2>1, Target
      <4>2. Position(q) < HeadPosition \/ Position(q) = Position(Visiting)
        BY <2>6, <3>1, <4>1
      <4> QED
        BY <4>1, <4>2, Positions
    <3> QED
      BY <3>2, <3>3, <3>4
  <2>11. HeldInv'
    BY <2>1, <2>7, <2>10 DEF HeldInv
  <2>12. ASSUME NEW p \in Path, NEW d \in Path, IsIn(p, d), Reached(d),
                disk[p].kind # "absent", Position(d) < HeadPosition'
         PROVE  Position(p) < HeadPosition' \/ Waiting(p)'
    <3>1. Position(d) <= Position(Visiting)
      BY <2>9, <2>12 DEF IsIn
    <3>2. Position(p) <= Position(Visiting) \/ Waiting(p)'
      BY <2>5, <2>12, <3>1
    <3>3. Position(p) <= Position(Visiting) => Position(p) < HeadPosition'
      BY <1>t, <2>6
    <3> QED
      BY <3>2, <3>3
  <2>13. BelowInv'
    <3>1. SUFFICES ASSUME NEW p \in Path, NEW d \in Path, IsIn(p, d)', Reached(d)',
                          disk'[p].kind # "absent", Position(d) < HeadPosition'
                   PROVE  Position(p) < HeadPosition' \/ Waiting(p)'
      BY DEF BelowInv
    <3>2. IsIn(p, d) /\ Reached(d) /\ disk[p].kind # "absent"
      BY <2>1, <2>7, <2>8, <3>1
    <3> QED
      BY <2>12, <3>1, <3>2
  <2> QED
    BY <2>11, <2>13
<1>7. CASE WalkFails
  BY <1>7 DEF WalkFails, ReachInv, Filling
<1>8. CASE CloseArchive
  <2>1. /\ hpc = "walk" /\ hpc' = "done" /\ pending = <<>>
        /\ UNCHANGED <<archive, failed, disk, steady>>
    BY <1>8 DEF CloseArchive
  <2>2. ASSUME ~ failed PROVE AllHeld
    <3>1. HeldInv /\ HeadPosition = Len(Order) + 1
      BY <2>1, <2>2 DEF ReachInv, HeadPosition
    <3>2. steady \subseteq Path
      BY DEF TypeInv, TypeOK
    <3> QED
      BY <1>t, <3>1, <3>2 DEF HeldInv, AllHeld
  <2>3. AllHeld => AllHeld'
    BY <2>1 DEF AllHeld, Readable, Reached, Closed, IsIn, Held, Last
  <2> QED
    BY <2>1, <2>2, <2>3 DEF ReachInv, Filling
<1>9. CASE ServeEnds
  <2>1. /\ hpc = "serve" /\ hpc' = "done" /\ UNCHANGED <<archive, failed, disk, steady>>
    BY <1>9 DEF ServeEnds
  <2>2. ASSUME NEW p \in steady, Reached(p) PROVE Held(p)
    <3>1. Top \in steady => disk[Top].kind # "dir"
      BY <2>1 DEF ReachInv
    <3>2. Closed({Top})
      BY <3>1 DEF Closed, IsIn
    <3>3. p = Top
      BY <1>t, <2>2, <3>2 DEF Reached
    <3> QED
      BY <2>1, <3>3 DEF EntryInv, Held
  <2>3. AllHeld'
    BY <2>1, <2>2 DEF AllHeld, Readable, Reached, Closed, IsIn, Held, Last
  <2> QED
    BY <2>1, <2>3 DEF ReachInv, Filling
<1>10. CASE Edit
  <2>2. UNCHANGED <<hpc, pending, archive, failed, response>>
    BY <1>10, Edited
  <2>3. steady' \subseteq steady /\ \A q \in steady' : disk'[q] = disk[q]
    BY <1>10, Edited
  <2>4. \A q, d \in Path : IsIn(q, d)' => IsIn(q, d)
    BY <2>3 DEF IsIn
  <2>5. \A q \in Path : Reached(q)' => Reached(q)
    BY <2>4, ReachedBefore
  <2>6. HeadPosition' = HeadPosition /\ Visiting' = Visiting
    BY <2>2 DEF HeadPosition, Visiting
  <2>7. \A q : (Held(q)' <=> Held(q)) /\ (Waiting(q)' <=> Waiting(q))
    BY <2>2 DEF Held, Last, Waiting
  <2>8. \A q \in steady' : Readable(q)' => Readable(q)
    BY <2>3 DEF Readable
  <2>9. HeldInv => HeldInv'
    BY <2>3, <2>5, <2>6, <2>7, <2>8 DEF HeldInv
  <2>10. BelowInv => BelowInv'
    <3>1. SUFFICES ASSUME BelowInv, NEW q \in Path, NEW d \in Path, IsIn(q, d)', Reached(d)',
                          disk'[q].kind # "absent", Position(d) < HeadPosition'
                   PROVE  Position(q) < HeadPosition' \/ Waiting(q)'
      BY DEF BelowInv
    <3>2. IsIn(q, d) /\ Reached(d) /\ disk[q].kind # "absent"
      BY <2>3, <2>4, <2>5, <3>1 DEF IsIn
    <3>3. Position(q) < HeadPosition \/ Waiting(q)
      BY <2>6, <3>1, <3>2 DEF BelowInv
    <3> QED
      BY <2>6, <2>7, <3>3
  <2>11. AllHeld => AllHeld'
    <3>1. steady' \subseteq Path
      BY DEF TypeInv, TypeOK
    <3> QED
      BY <2>3, <2>5, <2>7, <2>8, <3>1 DEF AllHeld
  <2>12. Filling' /\ Visiting' \in steady' => disk'[Visiting'].kind # "dir"
    BY <2>2, <2>3, <2>6 DEF ReachInv, Filling
  <2>13. hpc' = "serve" /\ Top \in steady' => disk'[Top].kind # "dir"
    BY <2>2, <2>3 DEF ReachInv
  <2> QED
    BY <2>2, <2>9, <2>10, <2>11, <2>12, <2>13 DEF ReachInv
<1>11. CASE /\ UNCHANGED <<pending, archive, failed, response, disk, steady>>
            /\ hpc' = hpc \/ (OpenFile /\ hpc = "open" /\ hpc' = "copy")
  <2>1. HeadPosition' = HeadPosition /\ Visiting' = Visiting
    BY <1>11 DEF HeadPosition, Visiting
  <2>2. \A q : (Held(q)' <=> Held(q)) /\ (Waiting(q)' <=> Waiting(q))
               /\ (Readable(q)' <=> Readable(q)) /\ (Reached(q)' <=> Reached(q))
    BY <1>11 DEF Held, Last, Waiting, Readable, Reached, Closed, IsIn
  <2>3. \A q, d : IsIn(q, d)' <=> IsIn(q, d)
    BY <1>11 DEF IsIn
  <2>4. /\ HeldInv => HeldInv'
        /\ BelowInv => BelowInv'
        /\ AllHeld => AllHeld'
    BY <1>11, <2>1, <2>2, <2>3 DEF HeldInv, BelowInv, AllHeld
  <2> QED
    BY <1>11, <2>1, <2>4 DEF ReachInv, Filling
<1>12. CASE OpenFile
  BY <1>11, <1>12 DEF OpenFile
<1>13. CASE Leave \/ UNCHANGED vars
  BY <1>11, <1>13 DEF Leave, vars
<1> QED
  BY <1>1, <1>2, <1>3, <1>4, <1>5, <1>6, <1>7, <1>8, <1>9, <1>10, <1>12, <1>13
  DEF Next, Handler, Answered

-----------------------------------------------------------------------------
DownloadInv == TypeInv /\ WalkInv /\ EntryInv /\ ReachInv

(* All of it: types, the order of the walk, what the entries hold and which *)
(* entries there are.                                                       *)
THEOREM DownloadInvariant == Spec => []DownloadInv
<1>1. Init => DownloadInv
  BY TypeInit, WalkInit, EntryInit, ReachInit DEF DownloadInv
<1>2. DownloadInv /\ [Next]_vars => DownloadInv'
  BY TypeStep, WalkStep, EntryStep, ReachStep DEF DownloadInv
<1> QED
  BY <1>1, <1>2, PTL DEF Spec

(* A walk that fails cuts off the last entry only: the rest are whole, if    *)
(* nobody touched the files.                                                *)
THEOREM CutAtTheEnd == Spec => []OnlyLastEntryCut
<1>1. DownloadInv => OnlyLastEntryCut
  <2>1. SUFFICES ASSUME DownloadInv, response = "complete", NEW i \in 1..Last,
                        archive[i].path \in steady, failed => i < Last
                 PROVE  Whole(i)
    BY DEF OnlyLastEntryCut
  <2>2. hpc = "done"
    BY <2>1 DEF DownloadInv, EntryInv
  <2>3. Settled(i)
    BY <2>1, <2>2 DEF Settled, DownloadInv, TypeInv, TypeOK
  <2> QED
    BY <2>1, <2>3 DEF DownloadInv, EntryInv
<1> QED
  BY <1>1, DownloadInvariant, PTL

(* An archive whose walk went well has an entry for every file that was     *)
(* there all the time, whatever came and went around it.                    *)
THEOREM NothingMissed == Spec => []NothingMissedUnlessFailed
<1>1. DownloadInv => NothingMissedUnlessFailed
  <2>1. SUFFICES ASSUME DownloadInv, response = "complete", ~ failed PROVE AllHeld
    BY DEF NothingMissedUnlessFailed, AllHeld
  <2>2. hpc = "done"
    BY <2>1 DEF DownloadInv, EntryInv
  <2> QED
    BY <2>1, <2>2 DEF DownloadInv, ReachInv
<1> QED
  BY <1>1, DownloadInvariant, PTL

(* A single file arrives with the length that was declared, and whole if    *)
(* nobody touched it, or its response is cut.                               *)
THEOREM ServedWholeOrCut == Spec => []FileWholeOrCut
<1>1. DownloadInv => FileWholeOrCut
  <2>1. SUFFICES ASSUME DownloadInv, response = "complete", declared > 0
                 PROVE  Len(archive[1].data) = declared /\ (Top \in steady => Whole(1))
    BY DEF FileWholeOrCut
  <2>2. hpc = "done"
    BY <2>1 DEF DownloadInv, EntryInv
  <2>3. Last = 1 /\ archive[1].path = Top /\ Len(archive[1].data) = declared /\ ~ failed
    BY <2>1, <2>2 DEF DownloadInv, EntryInv, TypeInv, TypeOK
  <2>4. Settled(1)
    BY <2>1, <2>2, <2>3 DEF Settled
  <2> QED
    BY <2>1, <2>3, <2>4 DEF DownloadInv, EntryInv
<1> QED
  BY <1>1, DownloadInvariant, PTL
=============================================================================
