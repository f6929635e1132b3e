---------------------------- MODULE CatalogProofs ----------------------------
(***************************************************************************)
(* What browsing, downloading and listing promise, proved of Catalog for   *)
(* every tree, any roots and names, and any number of edits between one     *)
(* look at the tree and the next.                                          *)
(***************************************************************************)
EXTENDS Catalog, FiniteSetTheorems, SequenceTheorems, TLAPS

Up(n, i) == SubSeq(n, 1, i)

PathOf(n) == << rootNames[n[1]] >> \o Tail(n)
NodeOf(p) == << FirstNamed(p[1]) >> \o Tail(p)

Entry(n, isDir) == [node |-> n, isDir |-> isDir]

-----------------------------------------------------------------------------
(* Whatever is there stands in a directory. *)
TreeInv ==
  \A n \in Node : Exists(n) => \A i \in 1..Len(n) - 1 : StatDir(Up(n, i))

(* Where the handler can be, of each request. *)
PlaceInv ==
  /\ pc \in {"read", "info"} => how \in {"browse", "shallow"}
  /\ pc \in {"lstat", "names"} => ListsAll
  /\ pc \in {"read", "info", "lstat", "names"} => target \in Node
  /\ pc = "names" => pending # <<>>
  /\ pc = "find" => target = NoNode
  /\ pc \in {"find", "read"} => listing = <<>>
  /\ pc # "idle" => answer = "none"
  /\ answer \in {"listing", "500"} => target \in Node

(* A page's path leads to its directory, and what nobody touched since is   *)
(* as the page has it.                                                      *)
PageInv ==
  /\ page.path = <<>> => page = RootPage
  /\ page.path # <<>> =>
       /\ Named(page.path[1]) /\ page.target = NodeOf(page.path) /\ page.target \in Node
       /\ \A i \in 1..Len(page.target) :
            Up(page.target, i) \in pageSteady => StatDir(Up(page.target, i))
       /\ \A j \in 1..Len(page.entries) :
            LET e == page.entries[j] IN
            /\ IsIn(e.node, page.target)
            /\ e.node \in pageSteady => Exists(e.node) /\ (e.isDir => StatDir(e.node))

(* What a link stands for was there when the page was made. *)
LinkInv ==
  meant # NoNode =>
    /\ OverHttp /\ shown = PathOf(meant)
    /\ path = IF how = "browse" THEN AsFollowed(shown) ELSE shown
    /\ pc \in {"find", "read"} /\ Len(meant) > 1 /\ meant \in pageSteady \cap steady =>
         Exists(meant) /\ (how = "browse" => StatDir(meant))

(* The roots that resolveRoot has passed by. *)
Passed(i) ==
  path # << rootNames[i] >> /\ ~ (Below(i) \in steady /\ StatDir(Below(i)))

Resolves ==
  \/ target = Below(k)
  \/ target = << k >> /\ path = << rootNames[k] >>

SearchInv ==
  /\ ~ OverHttp => \A i \in 1..k - 1 : Passed(i)
  /\ ~ OverHttp /\ path # <<>> /\ (pc \in {"read", "info", "lstat", "names"} \/ answer = "listing") =>
       k <= NumRoots /\ Resolves
  /\ OverHttp /\ pc \in {"read", "info"} => KnownRoot /\ target = Candidate

(* The directory that is read. *)
TargetInv ==
  /\ pc \in {"read", "info", "lstat", "names"} /\ Len(target) > 1 /\ target \in steady =>
       StatDir(target)
  /\ pc = "info" => \A i \in 1..Len(target) :
                      Up(target, i) \in steady => StatDir(Up(target, i))

(* Entries seen are as they were seen, unless somebody touched them. *)
SeenInv ==
  pc \in {"info", "lstat", "names"} => \A i \in 1..Len(listing) :
    LET e == listing[i] IN
      /\ IsPrefix(target, e.node)
      /\ e.node \in steady => Exists(e.node) /\ e.isDir = IsDir(e.node)

(* One level: nothing is neither seen nor waiting. *)
Waits(n) == \E i \in 1..Len(pending) : pending[i] = n

InfoInv ==
  pc = "info" =>
    /\ \A n \in steady : n \in dirs <=> IsDir(n)
    /\ \A i \in 1..Len(pending) : IsIn(pending[i], target)
    /\ \A i \in 1..Len(listing) : IsIn(listing[i].node, target)
    /\ \A n \in Node : IsIn(n, target) /\ n \in steady /\ Exists(n) => Lists(n) \/ Waits(n)

(* All levels: a node waits, or something above it does; and it does so for  *)
(* a directory that was seen.                                               *)
ParentSeen(l, n) == \E j \in 1..Len(l) : l[j] = Entry(Front(n), TRUE)

Ordered(l) ==
  \A i \in 1..Len(l) :
    l[i].node = target \/ \E j \in 1..i - 1 : l[j] = Entry(Front(l[i].node), TRUE)

MayWait(n) ==
  /\ IsPrefix(target, n)
  /\ n # target => ParentSeen(listing, n) /\ (n \in steady => Exists(n))

WillBeSeen(n) == Lists(n) \/ \E i \in 1..Len(pending) : IsPrefix(pending[i], n)

WalkInv ==
  pc \in {"lstat", "names"} =>
    /\ \A i \in 1..Len(pending) : MayWait(pending[i])
    /\ pc = "names" =>
         /\ Head(pending) \in steady => IsDir(Head(pending))
         /\ \E j \in 1..Len(listing) : listing[j] = Entry(Head(pending), TRUE)
    /\ Ordered(listing)
    /\ \A n \in Node : Stood(n, steady) /\ InScope(n) /\ Exists(n) => WillBeSeen(n)

Answers ==
  LinksLead /\ ServersAgree /\ FoundIfThere /\ ListingHoldsWhatStood /\ ParentsFirst

CatalogInv ==
  /\ TypeOK /\ TreeInv /\ PlaceInv /\ PageInv /\ LinkInv /\ SearchInv /\ TargetInv
  /\ SeenInv /\ InfoInv /\ WalkInv /\ Answers
-----------------------------------------------------------------------------
(* Sequences. *)
LEMMA UpProps ==
  ASSUME NEW S, NEW s \in Seq(S), NEW i \in 0..Len(s)
  PROVE  /\ Up(s, i) \in Seq(S) /\ Len(Up(s, i)) = i
         /\ \A j \in 1..i : Up(s, i)[j] = s[j]
<1>1. Len(s) \in Nat
  BY LenProperties
<1>2. \A j \in 1..i : s[j] \in S
  BY <1>1, ElementOfSeq
<1>3. i \in Int /\ i - 1 + 1 = i
  BY <1>1
<1>4. /\ SubSeq(s, 1, i) \in Seq(S)
      /\ Len(SubSeq(s, 1, i)) = IF 1 <= i THEN i - 1 + 1 ELSE 0
      /\ \A j \in 1..i - 1 + 1 : SubSeq(s, 1, i)[j] = s[1 + j - 1]
  BY <1>2, <1>3, SubSeqProperties
<1>5. \A j \in 1..i : 1 + j - 1 = j
  BY <1>1
<1> QED
  BY <1>1, <1>3, <1>4, <1>5 DEF Up

(* A prefix agrees with the longer sequence place by place. *)
LEMMA PrefixIff ==
  ASSUME NEW S, NEW s \in Seq(S), NEW t \in Seq(S)
  PROVE  /\ IsPrefix(s, t) <=> Len(s) <= Len(t) /\ \A j \in 1..Len(s) : s[j] = t[j]
         /\ IsPrefix(s, t) <=> Len(s) <= Len(t) /\ Up(t, Len(s)) = s
<1>1. Len(s) \in Nat /\ Len(t) \in Nat /\ SubSeq(s, 1, Len(s)) = s
  BY LenProperties, SubSeqFull
<1>2. IsPrefix(s, t) <=> Len(s) <= Len(t) /\ Up(t, Len(s)) = s
  BY <1>1 DEF IsPrefix, Up
<1>3. ASSUME Len(s) <= Len(t)
      PROVE  Up(t, Len(s)) = s <=> \A j \in 1..Len(s) : s[j] = t[j]
  <2>1. Len(s) \in 0..Len(t)
    BY <1>1, <1>3
  <2>2. /\ Up(t, Len(s)) \in Seq(S) /\ Len(Up(t, Len(s))) = Len(s)
        /\ \A j \in 1..Len(s) : Up(t, Len(s))[j] = t[j]
    BY <2>1, UpProps
  <2>3. ASSUME \A j \in 1..Len(s) : s[j] = t[j] PROVE Up(t, Len(s)) = s
    <3>1. \A j \in 1..Len(Up(t, Len(s))) : Up(t, Len(s))[j] = s[j]
      BY <2>2, <2>3
    <3> QED
      BY <2>2, <3>1, SeqEqual
  <2> QED
    BY <2>2, <2>3
<1> QED
  BY <1>2, <1>3

(* Being a prefix is reflexive, transitive and antisymmetric. *)
LEMMA PrefixOrder ==
  ASSUME NEW S, NEW s \in Seq(S)
  PROVE  /\ IsPrefix(s, s)
         /\ \A i \in 0..Len(s) : IsPrefix(Up(s, i), s)
         /\ \A t, u \in Seq(S) : IsPrefix(s, t) /\ IsPrefix(t, u) => IsPrefix(s, u)
         /\ \A t \in Seq(S) : IsPrefix(s, t) /\ Len(s) = Len(t) => s = t
<1>1. Len(s) \in Nat
  BY LenProperties
<1>2. IsPrefix(s, s)
  BY <1>1, PrefixIff
<1>3. ASSUME NEW i \in 0..Len(s) PROVE IsPrefix(Up(s, i), s)
  <2>1. Up(s, i) \in Seq(S) /\ Len(Up(s, i)) = i /\ i <= Len(s)
    BY <1>1, UpProps
  <2> QED
    BY <2>1, PrefixIff
<1>4. ASSUME NEW t \in Seq(S), NEW u \in Seq(S), IsPrefix(s, t), IsPrefix(t, u)
      PROVE  IsPrefix(s, u)
  <2>1. Len(t) \in Nat /\ Len(u) \in Nat
    BY LenProperties
  <2>2. Len(s) <= Len(t) /\ \A j \in 1..Len(s) : s[j] = t[j]
    BY <1>4, PrefixIff
  <2>3. Len(t) <= Len(u) /\ \A j \in 1..Len(t) : t[j] = u[j]
    BY <1>4, PrefixIff
  <2>4. \A j \in 1..Len(s) : s[j] = u[j]
    BY <1>1, <2>1, <2>2, <2>3
  <2>5. Len(s) <= Len(u)
    BY <1>1, <2>1, <2>2, <2>3
  <2> QED
    BY <2>4, <2>5, PrefixIff
<1>5. ASSUME NEW t \in Seq(S), IsPrefix(s, t), Len(s) = Len(t) PROVE s = t
  BY <1>5, PrefixIff, SeqEqual
<1> QED
  BY <1>2, <1>3, <1>4, <1>5

(* Two prefixes of one sequence. *)
LEMMA PrefixesOfOne ==
  ASSUME NEW S, NEW s \in Seq(S), NEW t \in Seq(S), NEW u \in Seq(S),
         IsPrefix(s, u), IsPrefix(t, u), Len(s) <= Len(t)
  PROVE  IsPrefix(s, t)
<1>1. Len(s) \in Nat /\ Len(t) \in Nat
  BY LenProperties
<1>2. /\ \A j \in 1..Len(s) : s[j] = u[j]
      /\ \A j \in 1..Len(t) : t[j] = u[j]
  BY PrefixIff
<1>3. \A j \in 1..Len(s) : s[j] = t[j]
  BY <1>1, <1>2
<1> QED
  BY <1>3, PrefixIff

(* What is above something above s is above s. *)
LEMMA UpUp ==
  ASSUME NEW S, NEW s \in Seq(S), NEW i \in 0..Len(s), NEW j \in 0..i
  PROVE  Up(Up(s, i), j) = Up(s, j)
<1>1. Len(s) \in Nat
  BY LenProperties
<1>2. /\ Up(s, i) \in Seq(S) /\ Len(Up(s, i)) = i
      /\ \A l \in 1..i : Up(s, i)[l] = s[l]
  BY UpProps
<1>3. j \in 0..Len(s) /\ j \in 0..Len(Up(s, i)) /\ \A l \in 1..j : l \in 1..i
  BY <1>1, <1>2
<1>4. /\ Up(s, j) \in Seq(S) /\ Len(Up(s, j)) = j
      /\ \A l \in 1..j : Up(s, j)[l] = s[l]
  BY <1>3, UpProps
<1>5. /\ Up(Up(s, i), j) \in Seq(S) /\ Len(Up(Up(s, i), j)) = j
      /\ \A l \in 1..j : Up(Up(s, i), j)[l] = Up(s, i)[l]
  BY <1>2, <1>3, UpProps
<1>6. \A l \in 1..j : Up(Up(s, i), j)[l] = Up(s, j)[l]
  BY <1>2, <1>3, <1>4, <1>5
<1> QED
  BY <1>4, <1>5, <1>6, SeqEqual

(* A first element put before a sequence. *)
LEMMA Consing ==
  ASSUME NEW S, NEW x \in S, NEW s \in Seq(S)
  PROVE  /\ << x >> \o s \in Seq(S) /\ Len(<< x >> \o s) = Len(s) + 1
         /\ (<< x >> \o s)[1] = x
         /\ \A i \in 1..Len(s) : (<< x >> \o s)[i + 1] = s[i]
         /\ Tail(<< x >> \o s) = s
<1>1. << x >> \in Seq(S) /\ Len(<< x >>) = 1 /\ << x >>[1] = x
  OBVIOUS
<1>2. Len(s) \in Nat
  BY LenProperties
<1> DEFINE c == << x >> \o s
<1>3. /\ c \in Seq(S) /\ Len(c) = 1 + Len(s)
      /\ \A i \in 1..1 + Len(s) : c[i] = IF i <= 1 THEN << x >>[i] ELSE s[i - 1]
  BY <1>1, ConcatProperties
<1>4. c[1] = x
  BY <1>1, <1>2, <1>3
<1>5. ASSUME NEW i \in 1..Len(s) PROVE c[i + 1] = s[i]
  <2>1. i + 1 \in 1..1 + Len(s) /\ ~ (i + 1 <= 1) /\ i + 1 - 1 = i
    BY <1>2
  <2> QED
    BY <1>3, <2>1
<1> HIDE DEF c
<1>6. Tail(c) = s
  <2>1. c # <<>>
    BY <1>2, <1>3, EmptySeq
  <2>2. /\ Tail(c) \in Seq(S) /\ Len(Tail(c)) = Len(c) - 1
        /\ \A i \in 1..Len(Tail(c)) : Tail(c)[i] = c[i + 1]
    BY <1>3, <2>1, HeadTailProperties
  <2>3. Len(Tail(c)) = Len(s)
    BY <1>2, <1>3, <2>2
  <2>4. \A i \in 1..Len(Tail(c)) : Tail(c)[i] = s[i]
    BY <1>5, <2>2, <2>3
  <2> QED
    BY <2>2, <2>3, <2>4, SeqEqual
<1>7. Len(c) = Len(s) + 1
  BY <1>2, <1>3
<1> QED
  BY <1>3, <1>4, <1>5, <1>6, <1>7 DEF c

(* Head and tail of a walk's pending entries, place by place. *)
LEMMA FirstElement ==
  ASSUME NEW S, NEW s \in Seq(S), s # <<>>
  PROVE  /\ Head(s) = s[1] /\ Head(s) \in S /\ Len(s) \in Nat \ {0} /\ 1 \in 1..Len(s)
         /\ Tail(s) \in Seq(S) /\ Len(Tail(s)) = Len(s) - 1 /\ Len(Tail(s)) \in Nat
         /\ \A i \in 1..Len(Tail(s)) : Tail(s)[i] = s[i + 1] /\ i + 1 \in 1..Len(s)
<1>1. Len(s) \in Nat \ {0}
  BY EmptySeq
<1>2. 1 \in 1..Len(s)
  BY <1>1
<1>3. Head(s) = s[1] /\ s[1] \in S
  BY <1>2, HeadTailProperties, ElementOfSeq
<1>4. /\ Tail(s) \in Seq(S) /\ Len(Tail(s)) = Len(s) - 1
      /\ \A i \in 1..Len(Tail(s)) : Tail(s)[i] = s[i + 1]
  BY HeadTailProperties
<1> QED
  BY <1>1, <1>2, <1>3, <1>4

(* An entry appended to a listing leaves the others where they were. *)
LEMMA Appending ==
  ASSUME NEW S, NEW s \in Seq(S), NEW x \in S
  PROVE  /\ Append(s, x) \in Seq(S) /\ Len(Append(s, x)) = Len(s) + 1 /\ Len(s) \in Nat
         /\ Append(s, x)[Len(s) + 1] = x
         /\ \A i \in 1..Len(s) : Append(s, x)[i] = s[i]
         /\ \A i \in 1..Len(s) + 1 : i \in 1..Len(s) \/ i = Len(s) + 1
BY AppendProperties, LenProperties

(* The rest of a sequence. *)
LEMMA RestProps ==
  ASSUME NEW S, NEW s \in Seq(S), NEW k0 \in Nat, k0 <= Len(s)
  PROVE  /\ SubSeq(s, k0 + 1, Len(s)) \in Seq(S)
         /\ Len(SubSeq(s, k0 + 1, Len(s))) = Len(s) - k0
         /\ \A i \in 1..Len(s) - k0 : SubSeq(s, k0 + 1, Len(s))[i] = s[k0 + i]
<1>1. Len(s) \in Nat
  BY LenProperties
<1>2. PICK m \in Nat : m = Len(s)
  BY <1>1
<1>3. \A j \in k0 + 1..m : j \in 1..m
  OBVIOUS
<1>4. \A j \in k0 + 1..m : s[j] \in S
  BY <1>2, <1>3, ElementOfSeq
<1>5. /\ SubSeq(s, k0 + 1, m) \in Seq(S)
      /\ Len(SubSeq(s, k0 + 1, m)) = IF k0 + 1 <= m THEN m - (k0 + 1) + 1 ELSE 0
      /\ \A i \in 1..m - (k0 + 1) + 1 : SubSeq(s, k0 + 1, m)[i] = s[k0 + 1 + i - 1]
  BY <1>4, SubSeqProperties
<1>6. /\ m - (k0 + 1) + 1 = m - k0
      /\ (IF k0 + 1 <= m THEN m - (k0 + 1) + 1 ELSE 0) = m - k0
      /\ \A i \in 1..m - k0 : k0 + 1 + i - 1 = k0 + i
  BY <1>2
<1> QED
  BY <1>2, <1>5, <1>6
-----------------------------------------------------------------------------
(* A set in the order of a relation. *)
StrictOrder(less, S) ==
  /\ \A x \in S : << x, x >> \notin less
  /\ \A x, y \in S : x # y => << x, y >> \in less \/ << y, x >> \in less
  /\ \A x, y, z \in S : << x, y >> \in less /\ << y, z >> \in less => << x, z >> \in less

(* A finite set ranked by a strict order: every member once, in order. *)
LEMMA RankedOrder ==
  ASSUME NEW S, IsFiniteSet(S), NEW less,
         StrictOrder(less, S)
  PROVE  LET s == Ranked(S, less) IN
           /\ s \in Seq(S) /\ Len(s) = Cardinality(S) /\ Len(s) \in Nat
           /\ \A i, j \in 1..Len(s) : i < j => << s[i], s[j] >> \in less
           /\ \A x \in S : \E i \in 1..Len(s) : s[i] = x
<1> DEFINE n == Cardinality(S)
           s == Ranked(S, less)
           below(x) == { y \in S : << y, x >> \in less }
           rank(x) == Cardinality(below(x))
<1>1. n \in Nat
  BY FS_CardinalityType
<1>2. \A x : below(x) \in SUBSET S /\ IsFiniteSet(below(x)) /\ rank(x) \in Nat
  <2>1. \A x : below(x) \in SUBSET S
    OBVIOUS
  <2> QED
    BY <2>1, FS_Subset, FS_CardinalityType
<1>3. ASSUME NEW x \in S PROVE rank(x) + 1 \in 1..n
  <2>1. below(x) \in SUBSET S /\ below(x) # S
    BY DEF StrictOrder
  <2> HIDE DEF below
  <2>2. rank(x) <= n /\ rank(x) # n
    BY <1>1, <2>1, FS_Subset
  <2>3. rank(x) \in Nat
    BY <1>2
  <2> HIDE DEF rank, n
  <2> QED
    BY <1>1, <2>2, <2>3
<1>4. ASSUME NEW x \in S, NEW y \in S, << x, y >> \in less PROVE rank(x) < rank(y)
  <2>1. below(x) \in SUBSET below(y) /\ x \in below(y) /\ x \notin below(x)
    BY <1>4 DEF StrictOrder
  <2>2. IsFiniteSet(below(y)) /\ rank(y) \in Nat /\ rank(x) \in Nat
    BY <1>2
  <2> HIDE DEF below
  <2>3. rank(x) <= rank(y) /\ rank(x) # rank(y)
    BY <2>1, <2>2, FS_Subset
  <2> HIDE DEF rank
  <2> QED
    BY <2>2, <2>3
<1> DEFINE place == [x \in S |-> rank(x) + 1]
<1> HIDE DEF rank, below, n
<1>5. \A x, y \in S : rank(x) = rank(y) => x = y
  <2>1. SUFFICES ASSUME NEW x \in S, NEW y \in S, rank(x) = rank(y), x # y PROVE FALSE
    OBVIOUS
  <2>2. rank(x) \in Nat /\ rank(y) \in Nat
    BY <1>2
  <2>3. rank(x) < rank(y) \/ rank(y) < rank(x)
    BY <1>4, <2>1 DEF StrictOrder
  <2> QED
    BY <2>1, <2>2, <2>3
<1>6. place \in Surjection(S, 1..n)
  <2>1. place \in [S -> 1..n]
    BY <1>3
  <2>2. IsInjective(place)
    <3>1. SUFFICES ASSUME NEW x \in S, NEW y \in S, rank(x) + 1 = rank(y) + 1
                   PROVE  x = y
      BY DEF IsInjective
    <3>2. rank(x) = rank(y)
      BY <1>2, <3>1
    <3> QED
      BY <1>5, <3>2
  <2>3. place \in Injection(S, 1..n)
    BY <2>1, <2>2 DEF Injection
  <2>4. IsFiniteSet(1..n) /\ Cardinality(1..n) = n
    BY <1>1, FS_Interval
  <2>5. Cardinality(1..n) = Cardinality(S)
    BY <2>4 DEF n
  <2> HIDE DEF place
  <2> QED
    BY <2>3, <2>4, <2>5, FS_Injection
<1>7. \A i \in 1..n : \E x \in S : rank(x) = i - 1
  <2>1. SUFFICES ASSUME NEW i \in 1..n PROVE \E x \in S : rank(x) = i - 1
    OBVIOUS
  <2>2. PICK x \in S : place[x] = i
    BY <1>6 DEF Surjection
  <2>3. rank(x) + 1 = i /\ rank(x) \in Nat
    BY <1>2, <2>2
  <2> QED
    BY <2>3
<1>8. s = [i \in 1..n |-> CHOOSE x \in S : rank(x) = i - 1]
  BY DEF Ranked, rank, below, n
<1>9. \A i \in 1..n : s[i] \in S /\ rank(s[i]) = i - 1
  BY <1>7, <1>8
<1>10. s \in Seq(S) /\ Len(s) = n
  <2>1. s \in [1..n -> S]
    BY <1>8, <1>9
  <2> HIDE DEF s
  <2>2. s \in Seq(S)
    BY <1>1, <2>1, SeqDef
  <2> QED
    BY <1>1, <2>1, <2>2, LenProperties
<1> HIDE DEF s
<1>11. ASSUME NEW i \in 1..n, NEW j \in 1..n, i < j PROVE << s[i], s[j] >> \in less
  <2>1. rank(s[i]) = i - 1 /\ rank(s[j]) = j - 1 /\ s[i] \in S /\ s[j] \in S
    BY <1>9
  <2>2. s[i] # s[j]
    BY <1>1, <1>11, <2>1
  <2>3. ~ (rank(s[j]) < rank(s[i]))
    BY <1>1, <1>11, <2>1
  <2> QED
    BY <1>4, <2>1, <2>2, <2>3 DEF StrictOrder
<1>12. ASSUME NEW x \in S PROVE \E i \in 1..n : s[i] = x
  <2>1. PICK i \in 1..n : i = rank(x) + 1
    BY <1>3
  <2>2. s[i] \in S /\ rank(s[i]) = i - 1
    BY <1>9
  <2>3. rank(s[i]) = rank(x)
    BY <1>1, <1>2, <2>1, <2>2
  <2> QED
    BY <1>5, <2>2, <2>3
<1>13. Len(s) = Cardinality(S) /\ Len(s) \in Nat
  BY <1>1, <1>10 DEF n
<1> QED
  BY <1>10, <1>11, <1>12, <1>13 DEF s

Precedes(x, less, S) == x \in S /\ \A y \in S : y = x \/ << x, y >> \in less

(* A finite set that is not empty has a first member. *)
LEMMA RankedFirst ==
  ASSUME NEW S, IsFiniteSet(S), S # {}, NEW less, StrictOrder(less, S)
  PROVE  \E x : Precedes(x, less, S)
<1> DEFINE s == Ranked(S, less)
<1>1. /\ s \in Seq(S) /\ Len(s) \in Nat
      /\ \A i, j \in 1..Len(s) : i < j => << s[i], s[j] >> \in less
      /\ \A x \in S : \E i \in 1..Len(s) : s[i] = x
  BY RankedOrder
<1> HIDE DEF s
<1>2. 1 \in 1..Len(s)
  <2>1. \E i \in 1..Len(s) : TRUE
    BY <1>1
  <2> QED
    BY <1>1, <2>1
<1>3. s[1] \in S
  BY <1>1, <1>2, ElementOfSeq
<1>4. ASSUME NEW y \in S PROVE y = s[1] \/ << s[1], y >> \in less
  <2>1. PICK i \in 1..Len(s) : s[i] = y
    BY <1>1
  <2>2. i = 1 \/ 1 < i
    BY <1>1
  <2> QED
    BY <1>1, <1>2, <2>1, <2>2
<1> QED
  BY <1>3, <1>4 DEF Precedes

(* Some roots bear a name, so one of them is the first. *)
LEMMA Least ==
  ASSUME NEW m \in Nat, NEW T, T \subseteq 1..m, T # {}
  PROVE  \E i \in T : \A j \in T : i <= j
<1> DEFINE less == { xy \in T \X T : xy[1] < xy[2] }
<1>1. IsFiniteSet(T)
  <2>1. IsFiniteSet(1..m)
    BY FS_Interval
  <2> QED
    BY <2>1, FS_Subset
<1>2. \A x, y \in T : << x, y >> \in less <=> x < y
  OBVIOUS
<1> HIDE DEF less
<1>3. StrictOrder(less, T)
  BY <1>2 DEF StrictOrder
<1>4. PICK x : Precedes(x, less, T)
  BY <1>1, <1>3, RankedFirst
<1>5. ASSUME NEW y \in T PROVE x <= y
  <2>1. x \in T /\ x \in Nat /\ y \in Nat
    BY <1>4 DEF Precedes
  <2>2. y = x \/ x < y
    BY <1>2, <1>4, <2>1 DEF Precedes
  <2> QED
    BY <2>1, <2>2
<1> QED
  BY <1>4, <1>5 DEF Precedes
-----------------------------------------------------------------------------
(* Nodes and paths. *)
Place == Seq(Nat \cup Name)

(* A node is a sequence, and all that is above it is a node. *)
LEMMA NodeFacts ==
  ASSUME NEW n \in Node
  PROVE  /\ n \in Place /\ Len(n) \in Nat \ {0} /\ Tail(n) \in Seq(Name)
         /\ Len(Tail(n)) = Len(n) - 1
         /\ \A i \in 1..Len(Tail(n)) : Tail(n)[i] = n[i + 1]
         /\ \A i \in 1..Len(n) : Up(n, i) \in Node /\ Len(Up(n, i)) = i
         /\ Up(n, Len(n)) = n
<1>1. n \in Place /\ n # <<>>
  <2>1. Len(Nodes) \in Nat
    BY NodeAssumption, LenProperties
  <2>2. \A i \in 1..Len(Nodes) : Nodes[i] \in Place
    BY NodeAssumption, ElementOfSeq DEF Place
  <2> QED
    BY <2>2, NodeAssumption DEF Node
<1>2. Len(n) \in Nat \ {0}
  BY <1>1, EmptySeq DEF Place
<1>3. /\ Len(Tail(n)) = Len(n) - 1
      /\ \A i \in 1..Len(Tail(n)) : Tail(n)[i] = n[i + 1]
  BY <1>1, HeadTailProperties DEF Place
<1>4. \A i \in 1..Len(n) : Len(Up(n, i)) = i
  <2>1. \A i \in 1..Len(n) : i \in 0..Len(n)
    BY <1>2
  <2> QED
    BY <1>1, <2>1, UpProps DEF Place
<1>5. Up(n, Len(n)) = n
  BY <1>1, SubSeqFull DEF Up, Place
<1> QED
  BY <1>1, <1>2, <1>3, <1>4, <1>5, NodeAssumption DEF Up

(* A node is a root or below one. *)
LEMMA NodeLength ==
  ASSUME NEW n \in Node
  PROVE  Len(n) = 1 \/ Len(n) > 1
<1>1. PICK m \in Nat \ {0} : m = Len(n)
  BY NodeFacts
<1>2. m = 1 \/ m > 1
  OBVIOUS
<1> QED
  BY <1>1, <1>2

(* There are finitely many nodes, so a directory can be ranked. *)
LEMMA FiniteNode == IsFiniteSet(Node)
<1>1. Nodes \in [1..Len(Nodes) -> Place] /\ Len(Nodes) \in Nat
  BY NodeAssumption, LenProperties DEF Place
<1>2. Nodes \in [1..Len(Nodes) -> Node]
  BY <1>1 DEF Node
<1>3. Nodes \in Surjection(1..Len(Nodes), Node)
  BY <1>2 DEF Surjection, Node
<1>4. IsFiniteSet(1..Len(Nodes))
  <2>1. PICK k0 \in Nat : k0 = Len(Nodes)
    BY <1>1
  <2>2. IsFiniteSet(1..k0)
    BY FS_Interval
  <2> QED
    BY <2>1, <2>2
<1> QED
  BY <1>3, <1>4, FS_Surjection

(* The names in a directory: what is there, and all of it. *)
LEMMA ChildrenOf ==
  ASSUME NEW d
  PROVE  LET c == Children(d) IN
           /\ c \in Seq(Node)
           /\ \A i \in 1..Len(c) : c[i] \in Node /\ IsIn(c[i], d) /\ Exists(c[i])
           /\ \A n \in Node : IsIn(n, d) /\ Exists(n) => \E i \in 1..Len(c) : c[i] = n
<1> DEFINE S == { n \in Node : IsIn(n, d) /\ Exists(n) }
           c == Ranked(S, WalkOrder)
<1>1. \A n \in Node : Position(n) \in 1..Len(Nodes) /\ Nodes[Position(n)] = n
  BY DEF Node, Position
<1>2. Len(Nodes) \in Nat
  BY NodeAssumption, LenProperties
<1>3. \A m, n \in Node : << m, n >> \in WalkOrder <=> Position(m) < Position(n)
  BY DEF WalkOrder
<1>4. IsFiniteSet(S) /\ S \subseteq Node
  BY FiniteNode, FS_Subset
<1>5. \A x \in S : << x, x >> \notin WalkOrder
  BY <1>1, <1>2, <1>3, <1>4
<1>6. \A x, y \in S : x # y => << x, y >> \in WalkOrder \/ << y, x >> \in WalkOrder
  <2>1. SUFFICES ASSUME NEW x \in S, NEW y \in S, x # y
                 PROVE  << x, y >> \in WalkOrder \/ << y, x >> \in WalkOrder
    OBVIOUS
  <2>2. x \in Node /\ y \in Node
    BY <1>4
  <2>3. Position(x) # Position(y)
    BY <1>1, <2>1, <2>2
  <2>4. Position(x) < Position(y) \/ Position(y) < Position(x)
    BY <1>1, <1>2, <2>2, <2>3
  <2> QED
    BY <1>3, <2>2, <2>4
<1>7. \A x, y, z \in S :
        << x, y >> \in WalkOrder /\ << y, z >> \in WalkOrder => << x, z >> \in WalkOrder
  <2>1. SUFFICES ASSUME NEW x \in S, NEW y \in S, NEW z \in S,
                        << x, y >> \in WalkOrder, << y, z >> \in WalkOrder
                 PROVE  << x, z >> \in WalkOrder
    OBVIOUS
  <2>2. x \in Node /\ y \in Node /\ z \in Node
    BY <1>4
  <2>3. Position(x) < Position(y) /\ Position(y) < Position(z)
    BY <1>3, <2>1, <2>2
  <2>4. Position(x) < Position(z)
    BY <1>1, <1>2, <2>2, <2>3
  <2> QED
    BY <1>3, <2>2, <2>4
<1> HIDE DEF S
<1>12. StrictOrder(WalkOrder, S)
  BY <1>5, <1>6, <1>7 DEF StrictOrder
<1>8. /\ c \in Seq(S) /\ Len(c) \in Nat
      /\ \A x \in S : \E i \in 1..Len(c) : c[i] = x
  BY <1>4, <1>12, RankedOrder
<1>9. Children(d) = c
  BY DEF Children, S
<1> HIDE DEF c
<1>10. \A i \in 1..Len(c) : c[i] \in S
  BY <1>8, ElementOfSeq
<1>11. c \in Seq(Node)
  BY <1>4, <1>8, SeqMonotonic
<1> QED
  BY <1>8, <1>9, <1>10, <1>11 DEF S

(* The first root of a name. *)
LEMMA FirstNamedProps ==
  ASSUME TypeOK, NEW name, Named(name)
  PROVE  /\ FirstNamed(name) \in 1..NumRoots /\ rootNames[FirstNamed(name)] = name
         /\ \A j \in 1..NumRoots : rootNames[j] = name => FirstNamed(name) <= j
<1>1. NumRoots \in Nat
  BY CatalogAssumption, LenProperties DEF TypeOK, NumRoots
<1> DEFINE T == { i \in 1..NumRoots : rootNames[i] = name }
<1>2. T \in SUBSET (1..NumRoots) /\ T # {}
  BY <1>1 DEF Named
<1>3. PICK m \in T : \A i \in T : m <= i
  BY <1>1, <1>2, Least
<1>4. \E i \in 1..NumRoots :
        rootNames[i] = name /\ \A j \in 1..i - 1 : rootNames[j] # name
  <2>1. m \in 1..NumRoots /\ rootNames[m] = name
    BY <1>3
  <2>2. ASSUME NEW j \in 1..m - 1 PROVE rootNames[j] # name
    <3>1. j \in 1..NumRoots /\ ~ (m <= j)
      BY <1>1, <2>1
    <3> QED
      BY <1>3, <3>1
  <2> QED
    BY <2>1, <2>2
<1>5. /\ FirstNamed(name) \in 1..NumRoots /\ rootNames[FirstNamed(name)] = name
      /\ \A j \in 1..FirstNamed(name) - 1 : rootNames[j] # name
  BY <1>4 DEF FirstNamed
<1>6. ASSUME NEW j \in 1..NumRoots, rootNames[j] = name PROVE FirstNamed(name) <= j
  <2>1. j \notin 1..FirstNamed(name) - 1
    BY <1>5, <1>6
  <2> QED
    BY <1>1, <1>5, <2>1
<1> QED
  BY <1>5, <1>6

(* Roots are nodes, and every node is a root or below one. *)
LEMMA RootFacts ==
  ASSUME TypeOK
  PROVE  /\ NumRoots \in Nat \ {0} /\ rootNames \in Seq(Name)
         /\ \A i \in 1..NumRoots : << i >> \in Node /\ rootNames[i] \in Name
         /\ \A n \in Node : n[1] \in 1..NumRoots
<1>1. rootNames \in Seq(Name) /\ rootNames # <<>>
  BY CatalogAssumption DEF TypeOK
<1>2. NumRoots \in Nat \ {0}
  BY <1>1, EmptySeq DEF NumRoots
<1>3. \A i \in 1..NumRoots : rootNames[i] \in Name
  BY <1>1, ElementOfSeq DEF NumRoots
<1> QED
  BY <1>1, <1>2, <1>3, CatalogAssumption DEF TypeOK, NumRoots

(* What a browser asks for that follows a link is a path again. *)
LEMMA AsFollowedType ==
  ASSUME NEW p \in Seq(Name)
  PROVE  AsFollowed(p) \in Seq(Name) /\ (Whole(p) => AsFollowed(p) = p)
<1> DEFINE cuts  == { i \in 1..Len(p) : p[i] \in Cut }
           end   == IF cuts = {} THEN Len(p) ELSE Min(cuts)
           asked == [ i \in 1..end |-> Asked[p[i]] ]
<1>1. Len(p) \in Nat /\ \A i \in 1..Len(p) : p[i] \in Name
  BY LenProperties, ElementOfSeq
<1>2. cuts # {} => Min(cuts) \in cuts /\ \A i \in cuts : Min(cuts) <= i
  <2>1. SUFFICES ASSUME cuts # {} PROVE Min(cuts) \in cuts /\ \A i \in cuts : Min(cuts) <= i
    OBVIOUS
  <2>2. cuts \in SUBSET (1..Len(p))
    OBVIOUS
  <2>3. \E m \in cuts : \A i \in cuts : m <= i
    BY <1>1, <2>1, <2>2, Least
  <2> HIDE DEF cuts
  <2> QED
    BY <2>3 DEF Min
<1>3. AsFollowed(p) = IF end > 0 /\ asked[end] = NoName THEN Front(asked) ELSE asked
  BY DEF AsFollowed
<1>4. end \in 0..Len(p) /\ \A i \in cuts : end <= i
  <2>1. \A i \in cuts : i \in 1..Len(p)
    OBVIOUS
  <2>2. CASE cuts = {}
    BY <1>1, <2>2
  <2>3. CASE cuts # {}
    BY <1>1, <1>2, <2>1, <2>3
  <2> QED
    BY <2>2, <2>3
<1>5. \A i \in 1..Len(p) : i < end => p[i] \notin Cut
  BY <1>1, <1>4
<1> HIDE DEF end
<1>6. \A i \in 1..end : i \in 1..Len(p) /\ p[i] \in Name
  BY <1>1, <1>4
<1>7. \A i \in 1..end : Asked[p[i]] = NoName => i = end
  <2>1. \A n \in Name \ Cut : Asked[n] # NoName
    BY CatalogAssumption
  <2>2. \A i \in 1..end : i < end \/ i = end
    BY <1>1, <1>4
  <2> QED
    BY <1>5, <1>6, <2>1, <2>2
<1>8. /\ \A i \in 1..end : asked[i] = Asked[p[i]] /\ asked[i] \in Name \cup {NoName}
      /\ asked \in [1..end -> Name \cup {NoName}]
  BY <1>6, CatalogAssumption
<1> HIDE DEF asked
<1>9. asked \in Seq(Name \cup {NoName}) /\ Len(asked) = end /\ end \in Nat
  <2>1. PICK e \in Nat : e = end
    BY <1>1, <1>4
  <2>2. asked \in [1..e -> Name \cup {NoName}]
    BY <1>8, <2>1
  <2>3. asked \in Seq(Name \cup {NoName})
    BY <2>2, SeqDef
  <2>4. Len(asked) = e
    BY <2>2, <2>3, LenProperties
  <2> QED
    BY <2>1, <2>3, <2>4
<1>10. CASE end > 0 /\ asked[end] = NoName
  <2>1. Front(asked) = SubSeq(asked, 1, end - 1)
    BY <1>9 DEF Front
  <2>2. end - 1 \in Nat /\ \A i \in 1..end - 1 : i \in 1..end /\ i # end
    BY <1>9, <1>10
  <2>3. \A i \in 1..end - 1 : asked[i] \in Name
    BY <1>7, <1>8, <2>2
  <2>4. end - 1 \in 0..Len(asked)
    BY <1>9, <2>2
  <2>5. /\ Front(asked) \in Seq(Name \cup {NoName}) /\ Len(Front(asked)) = end - 1
        /\ \A i \in 1..end - 1 : Front(asked)[i] \in Name
    <3>1. /\ Up(asked, end - 1) \in Seq(Name \cup {NoName}) /\ Len(Up(asked, end - 1)) = end - 1
          /\ \A i \in 1..end - 1 : Up(asked, end - 1)[i] = asked[i]
      BY <1>9, <2>4, UpProps
    <3> QED
      BY <2>1, <2>3, <3>1 DEF Up
  <2>6. Front(asked) \in Seq(Name)
    <3>1. Front(asked) \in [1..end - 1 -> Name \cup {NoName}]
      BY <2>5, LenProperties
    <3>2. Front(asked) \in [1..end - 1 -> Name]
      BY <2>5, <3>1
    <3> QED
      BY <2>2, <3>2, SeqDef
  <2>7. ~ Whole(p)
    <3>1. end \in 1..end /\ end \in 1..Len(p)
      BY <1>6, <1>9, <1>10
    <3>2. Asked[p[end]] = NoName /\ p[end] \in Name
      BY <1>6, <1>8, <1>10, <3>1
    <3>3. Asked[p[end]] # p[end]
      BY <3>2, CatalogAssumption
    <3> QED
      BY <3>1, <3>3 DEF Whole
  <2> QED
    BY <1>3, <1>10, <2>6, <2>7
<1>11. CASE ~ (end > 0 /\ asked[end] = NoName)
  <2>1. \A i \in 1..end : asked[i] \in Name
    <3>1. \A i \in 1..end : i = end => end > 0
      BY <1>9
    <3> QED
      BY <1>7, <1>8, <1>11, <3>1
  <2>2. asked \in Seq(Name)
    BY <1>9, <2>1, SeqDef
  <2>3. ASSUME Whole(p) PROVE asked = p
    <3>1. cuts = {}
      BY <2>3 DEF Whole
    <3>2. end = Len(p)
      BY <3>1 DEF end
    <3>3. \A i \in 1..Len(p) : asked[i] = p[i]
      BY <1>8, <2>3, <3>2 DEF Whole
    <3> QED
      BY <1>9, <2>2, <3>2, <3>3, SeqEqual
  <2> QED
    BY <1>3, <1>11, <2>2, <2>3
<1> QED
  BY <1>10, <1>11

(* The node a path names, and the path to a node. *)
LEMMA NodeOfProps ==
  ASSUME TypeOK, NEW p \in Seq(Name), p # <<>>, Named(p[1])
  PROVE  LET n == NodeOf(p) IN
           /\ n \in Place /\ Len(n) = Len(p) /\ n[1] = FirstNamed(p[1])
           /\ n[1] \in 1..NumRoots
           /\ \A i \in 2..Len(p) : n[i] = p[i]
           /\ Len(n) = 1 => n = << FirstNamed(p[1]) >> /\ n \in Node
<1>1. /\ Tail(p) \in Seq(Name) /\ Len(Tail(p)) = Len(p) - 1 /\ Len(p) \in Nat \ {0}
      /\ \A i \in 1..Len(Tail(p)) : Tail(p)[i] = p[i + 1]
  BY FirstElement
<1>2. PICK f \in 1..NumRoots : f = FirstNamed(p[1])
  BY FirstNamedProps
<1>3. f \in Nat \cup Name /\ Tail(p) \in Place
  <2>1. f \in Nat
    BY RootFacts
  <2>2. Name \subseteq Nat \cup Name
    OBVIOUS
  <2>3. Tail(p) \in Seq(Nat \cup Name)
    BY <1>1, <2>2, SeqMonotonic
  <2> QED
    BY <2>1, <2>3 DEF Place
<1> DEFINE n == << f >> \o Tail(p)
<1>4. /\ n \in Place /\ Len(n) = Len(Tail(p)) + 1 /\ n[1] = f
      /\ \A i \in 1..Len(Tail(p)) : n[i + 1] = Tail(p)[i]
  BY <1>3, Consing DEF Place
<1>5. NodeOf(p) = n
  BY <1>2 DEF NodeOf
<1>6. ASSUME Len(p) = 1 PROVE n = << f >> /\ n \in Node
  <2>1. Tail(p) = <<>>
    <3>1. Len(Tail(p)) = 0
      BY <1>1, <1>6
    <3> QED
      BY <1>1, <3>1, EmptySeq
  <2>2. << f >> \in Seq(Nat)
    BY <1>2, RootFacts
  <2>3. n = << f >>
    BY <2>1, <2>2, ConcatEmptySeq
  <2> QED
    BY <1>2, <2>3, RootFacts
<1> HIDE DEF n
<1>7. ASSUME NEW i \in 2..Len(p) PROVE n[i] = p[i]
  <2>1. i - 1 \in 1..Len(Tail(p)) /\ i - 1 + 1 = i
    BY <1>1
  <2>2. n[i - 1 + 1] = p[i - 1 + 1]
    BY <1>1, <1>4, <2>1
  <2> QED
    BY <2>1, <2>2
<1>8. Len(n) = Len(p)
  BY <1>1, <1>4
<1> QED
  BY <1>2, <1>4, <1>5, <1>6, <1>7, <1>8

(* The path of a node leads back to it, unless a root hides it. *)
LEMMA PathOfProps ==
  ASSUME TypeOK, NEW n \in Node
  PROVE  LET p == PathOf(n) IN
           /\ p \in Seq(Name) /\ p # <<>> /\ Len(p) = Len(n)
           /\ p[1] = rootNames[n[1]] /\ Named(p[1]) /\ FirstNamed(p[1]) <= n[1]
           /\ \A i \in 2..Len(n) : p[i] = n[i]
           /\ FirstNamed(p[1]) = n[1] => NodeOf(p) = n
<1>1. /\ n[1] \in 1..NumRoots /\ rootNames[n[1]] \in Name /\ NumRoots \in Nat
      /\ Tail(n) \in Seq(Name) /\ Len(Tail(n)) = Len(n) - 1 /\ Len(n) \in Nat \ {0}
      /\ \A i \in 1..Len(Tail(n)) : Tail(n)[i] = n[i + 1]
      /\ n \in Place
  BY RootFacts, NodeFacts
<1> DEFINE p == << rootNames[n[1]] >> \o Tail(n)
<1>2. /\ p \in Seq(Name) /\ Len(p) = Len(Tail(n)) + 1 /\ p[1] = rootNames[n[1]]
      /\ \A i \in 1..Len(Tail(n)) : p[i + 1] = Tail(n)[i]
      /\ Tail(p) = Tail(n)
  BY <1>1, Consing
<1>3. PathOf(n) = p
  BY DEF PathOf
<1> HIDE DEF p
<1>4. Len(p) = Len(n)
  BY <1>1, <1>2
<1>5. p # <<>>
  BY <1>1, <1>4, EmptySeq
<1>6. ASSUME NEW i \in 2..Len(n) PROVE p[i] = n[i]
  <2>1. i - 1 \in 1..Len(Tail(n)) /\ i - 1 + 1 = i
    BY <1>1
  <2>2. p[i - 1 + 1] = n[i - 1 + 1]
    BY <1>1, <1>2, <2>1
  <2> QED
    BY <2>1, <2>2
<1>7. Named(p[1]) /\ FirstNamed(p[1]) <= n[1]
  <2>1. Named(p[1])
    BY <1>1, <1>2 DEF Named
  <2> QED
    BY <1>1, <1>2, <2>1, FirstNamedProps
<1>8. ASSUME FirstNamed(p[1]) = n[1] PROVE NodeOf(p) = n
  <2>1. /\ NodeOf(p) \in Place /\ Len(NodeOf(p)) = Len(p) /\ NodeOf(p)[1] = n[1]
        /\ \A i \in 2..Len(p) : NodeOf(p)[i] = p[i]
    BY <1>2, <1>5, <1>7, <1>8, NodeOfProps
  <2>2. ASSUME NEW i \in 1..Len(n) PROVE NodeOf(p)[i] = n[i]
    <3>1. i = 1 \/ i \in 2..Len(n)
      BY <1>1
    <3> QED
      BY <1>4, <1>6, <2>1, <3>1
  <2> QED
    BY <1>1, <1>4, <2>1, <2>2, SeqEqual DEF Place
<1> QED
  BY <1>2, <1>3, <1>4, <1>5, <1>6, <1>7, <1>8
-----------------------------------------------------------------------------
(* The entries of a listing. *)
LEMMA EntriesOf ==
  ASSUME NEW l \in Seq(Listed)
  PROVE  /\ Len(l) \in Nat
         /\ \A i \in 1..Len(l) : /\ l[i] \in Listed
                                /\ l[i].node \in Node /\ l[i].isDir \in BOOLEAN
                                /\ l[i] = Entry(l[i].node, l[i].isDir)
<1>1. Len(l) \in Nat /\ \A i \in 1..Len(l) : l[i] \in Listed
  BY LenProperties, ElementOfSeq
<1>2. \A e \in Listed : /\ e.node \in Node /\ e.isDir \in BOOLEAN
                         /\ e = Entry(e.node, e.isDir)
  BY DEF Listed, Entry
<1> QED
  BY <1>1, <1>2

(* Nodes below the same one with the same path below it are the same. *)
LEMMA RestIsIts ==
  ASSUME NEW t \in Node, NEW m \in Node, NEW n \in Node, IsPrefix(t, m), IsPrefix(t, n),
         SubSeq(m, Len(t) + 1, Len(m)) = SubSeq(n, Len(t) + 1, Len(n))
  PROVE  m = n
<1>1. /\ t \in Place /\ m \in Place /\ n \in Place /\ Len(t) \in Nat
      /\ Len(m) \in Nat /\ Len(n) \in Nat /\ Len(t) <= Len(m) /\ Len(t) <= Len(n)
      /\ \A i \in 1..Len(t) : m[i] = t[i] /\ n[i] = t[i]
  BY NodeFacts, PrefixIff DEF Place
<1>2. /\ Len(SubSeq(m, Len(t) + 1, Len(m))) = Len(m) - Len(t)
      /\ \A i \in 1..Len(m) - Len(t) : SubSeq(m, Len(t) + 1, Len(m))[i] = m[Len(t) + i]
  BY <1>1, RestProps
<1>3. /\ Len(SubSeq(n, Len(t) + 1, Len(n))) = Len(n) - Len(t)
      /\ \A i \in 1..Len(n) - Len(t) : SubSeq(n, Len(t) + 1, Len(n))[i] = n[Len(t) + i]
  BY <1>1, RestProps
<1>4. Len(m) = Len(n)
  BY <1>1, <1>2, <1>3
<1>5. \A i \in 1..Len(m) - Len(t) : m[Len(t) + i] = n[Len(t) + i]
  BY <1>2, <1>3, <1>4
<1>6. ASSUME NEW i \in 1..Len(m) PROVE m[i] = n[i]
  <2>1. CASE i <= Len(t)
    <3>1. i \in 1..Len(t)
      BY <1>1, <2>1
    <3> QED
      BY <1>1, <3>1
  <2>2. CASE ~ (i <= Len(t))
    <3>1. PICK j \in 1..Len(m) - Len(t) : Len(t) + j = i
      <4>1. i - Len(t) \in 1..Len(m) - Len(t) /\ Len(t) + (i - Len(t)) = i
        BY <1>1, <2>2
      <4> QED
        BY <4>1
    <3> QED
      BY <1>5, <3>1
  <2> QED
    BY <2>1, <2>2
<1> QED
  BY <1>1, <1>4, <1>6, SeqEqual DEF Place

(* The paths that are listed have a place in the order of strings, each its *)
(* own, and what is below another comes after it.                           *)
LEMMA PathRank ==
  ASSUME NEW t \in Node, NEW n \in Node, IsPrefix(t, n)
  PROVE  LET p == SubSeq(n, Len(t) + 1, Len(n)) IN
           Rank(p) \in 1..Len(PathOrder) /\ PathOrder[Rank(p)] = p
<1> DEFINE p == SubSeq(n, Len(t) + 1, Len(n))
<1>1. Len(t) \in Nat \ {0} /\ Len(n) \in Nat /\ Len(t) <= Len(n)
  BY NodeFacts, PrefixIff DEF Place
<1>2. Len(t) + 1 \in 2..Len(n) + 1
  BY <1>1
<1>3. \E j \in 1..Len(PathOrder) : PathOrder[j] = p
  BY <1>2, PathAssumption
<1> HIDE DEF p
<1>4. Rank(p) \in 1..Len(PathOrder) /\ PathOrder[Rank(p)] = p
  BY <1>3 DEF Rank
<1> QED
  BY <1>4 DEF p

(* Entries below the target, and what their paths have to do with them. *)
Under(l) == \A i \in 1..Len(l) : IsPrefix(target, l[i].node)

LEMMA RankOf ==
  ASSUME target \in Node, NEW l \in Seq(Listed), Under(l)
  PROVE  /\ \A i \in 1..Len(l) : Rank(RelPath(l[i])) \in Nat
         /\ \A i, j \in 1..Len(l) :
              Rank(RelPath(l[i])) = Rank(RelPath(l[j])) => l[i].node = l[j].node
<1>1. \A i \in 1..Len(l) : l[i].node \in Node /\ IsPrefix(target, l[i].node)
  BY EntriesOf DEF Under
<1>2. Len(PathOrder) \in Nat
  BY PathAssumption, LenProperties
<1>3. \A i \in 1..Len(l) :
        /\ Rank(RelPath(l[i])) \in 1..Len(PathOrder)
        /\ PathOrder[Rank(RelPath(l[i]))] = RelPath(l[i])
  BY <1>1, PathRank DEF RelPath
<1>4. ASSUME NEW i \in 1..Len(l), NEW j \in 1..Len(l),
             Rank(RelPath(l[i])) = Rank(RelPath(l[j]))
      PROVE  l[i].node = l[j].node
  <2>1. RelPath(l[i]) = RelPath(l[j])
    BY <1>3, <1>4
  <2>2. /\ SubSeq(l[i].node, Len(target) + 1, Len(l[i].node)) =
              SubSeq(l[j].node, Len(target) + 1, Len(l[j].node))
        /\ l[i].node \in Node /\ IsPrefix(target, l[i].node)
        /\ l[j].node \in Node /\ IsPrefix(target, l[j].node)
    BY <1>1, <2>1 DEF RelPath
  <2> QED
    BY <2>2, RestIsIts
<1> QED
  BY <1>2, <1>3, <1>4

(* Directories first and then by path is a strict order of the entries. *)
LEMMA DirsFirstOrder ==
  ASSUME target \in Node, NEW l \in Seq(Listed), Under(l)
  PROVE  StrictOrder(DirsFirst(l), 1..Len(l))
<1>1. Len(l) \in Nat /\ \A i \in 1..Len(l) : l[i].isDir \in BOOLEAN
  BY EntriesOf
<1> DEFINE D == { i \in 1..Len(l) : l[i].isDir = TRUE }
           R(i) == Rank(RelPath(l[i]))
<1>2. \A i, j \in 1..Len(l) :
        << i, j >> \in DirsFirst(l) <=>
          IF i \in D <=> j \in D
          THEN R(i) < R(j) \/ (l[i].node = l[j].node /\ i < j) ELSE i \in D
  BY <1>1 DEF DirsFirst
<1>3. /\ \A i \in 1..Len(l) : R(i) \in Nat
      /\ \A i, j \in 1..Len(l) : l[i].node = l[j].node <=> R(i) = R(j)
  <2>1. \A i, j \in 1..Len(l) : l[i].node = l[j].node => R(i) = R(j)
    BY DEF RelPath
  <2> QED
    BY <2>1, RankOf
<1> HIDE DEF D, R
<1>4. \A i, j \in 1..Len(l) :
        << i, j >> \in DirsFirst(l) <=>
          IF i \in D <=> j \in D THEN R(i) < R(j) \/ (R(i) = R(j) /\ i < j) ELSE i \in D
  <2>1. SUFFICES ASSUME NEW i \in 1..Len(l), NEW j \in 1..Len(l)
                 PROVE  << i, j >> \in DirsFirst(l) <=>
                          IF i \in D <=> j \in D
                          THEN R(i) < R(j) \/ (R(i) = R(j) /\ i < j) ELSE i \in D
    OBVIOUS
  <2>2. l[i].node = l[j].node <=> R(i) = R(j)
    BY <1>3
  <2>3. << i, j >> \in DirsFirst(l) <=>
          IF i \in D <=> j \in D
          THEN R(i) < R(j) \/ (l[i].node = l[j].node /\ i < j) ELSE i \in D
    BY <1>2
  <2> QED
    BY <2>2, <2>3
<1>5. \A i \in 1..Len(l) : << i, i >> \notin DirsFirst(l)
  BY <1>1, <1>3, <1>4
<1>6. ASSUME NEW i \in 1..Len(l), NEW j \in 1..Len(l), i # j
      PROVE  << i, j >> \in DirsFirst(l) \/ << j, i >> \in DirsFirst(l)
  <2>1. (i < j \/ j < i) /\ R(i) \in Nat /\ R(j) \in Nat
    BY <1>1, <1>3, <1>6
  <2>2. R(i) < R(j) \/ R(j) < R(i) \/ R(i) = R(j)
    BY <2>1
  <2> QED
    BY <1>4, <2>1, <2>2
<1>7. ASSUME NEW h \in 1..Len(l), NEW i \in 1..Len(l), NEW j \in 1..Len(l),
             << h, i >> \in DirsFirst(l), << i, j >> \in DirsFirst(l)
      PROVE  << h, j >> \in DirsFirst(l)
  <2>1. R(h) \in Nat /\ R(i) \in Nat /\ R(j) \in Nat /\ h \in Nat /\ i \in Nat /\ j \in Nat
    BY <1>1, <1>3
  <2> DEFINE After(x, y) == R(x) < R(y) \/ (R(x) = R(y) /\ x < y)
  <2>2. After(h, i) /\ After(i, j) => After(h, j)
    BY <2>1
  <2>3. /\ IF h \in D <=> i \in D THEN After(h, i) ELSE h \in D
        /\ IF i \in D <=> j \in D THEN After(i, j) ELSE i \in D
    BY <1>4, <1>7
  <2> HIDE DEF After
  <2>4. IF h \in D <=> j \in D THEN After(h, j) ELSE h \in D
    BY <2>2, <2>3
  <2> QED
    BY <1>4, <2>4 DEF After
<1> QED
  BY <1>5, <1>6, <1>7 DEF StrictOrder

(* The directory an entry is in comes before it, unless it is the target.   *)
LEMMA ParentRank ==
  ASSUME target \in Node, NEW l \in Seq(Listed), Under(l),
         NEW a \in 1..Len(l), NEW b \in 1..Len(l), l[a].node # target,
         l[b] = Entry(Front(l[a].node), TRUE)
  PROVE  \/ << b, a >> \in DirsFirst(l)
         \/ /\ Front(l[a].node) = target /\ l[a].isDir = TRUE
            /\ Rank(RelPath(l[a])) < Rank(<<>>)
<1> DEFINE n == l[a].node
           m == l[b].node
           p == SubSeq(n, Len(target) + 1, Len(n))
           q == SubSeq(m, Len(target) + 1, Len(m))
<1>1. /\ n \in Node /\ m \in Node /\ IsPrefix(target, n) /\ IsPrefix(target, m)
      /\ l[a].isDir \in BOOLEAN /\ l[b].isDir = TRUE /\ m = Front(n)
      /\ RelPath(l[a]) = p /\ RelPath(l[b]) = q
  <2>1. n \in Node /\ m \in Node /\ l[a].isDir \in BOOLEAN
    BY EntriesOf
  <2>2. IsPrefix(target, n) /\ IsPrefix(target, m)
    BY DEF Under
  <2>3. l[b].isDir = TRUE /\ m = Front(n)
    BY DEF Entry
  <2>4. RelPath(l[a]) = p /\ RelPath(l[b]) = q
    BY DEF RelPath
  <2> HIDE DEF n, m, p, q
  <2> QED
    BY <2>1, <2>2, <2>3, <2>4
<1>2. SUFFICES ASSUME l[a].isDir = TRUE, ~ (Rank(q) < Rank(p))
               PROVE  m = target /\ Rank(p) < Rank(<<>>)
  <2>1. l[a].isDir # TRUE => << b, a >> \in DirsFirst(l)
    BY <1>1 DEF DirsFirst
  <2>2. Rank(q) < Rank(p) => << b, a >> \in DirsFirst(l)
    BY <1>1 DEF DirsFirst
  <2> QED
    BY <1>1, <2>1, <2>2
<1> HIDE DEF n, m
<1>3. /\ target \in Place /\ n \in Place /\ m \in Place
      /\ Len(target) \in Nat \ {0} /\ Len(n) \in Nat \ {0} /\ Len(m) \in Nat \ {0}
      /\ Len(target) <= Len(m) /\ Len(target) <= Len(n)
  BY <1>1, NodeFacts, PrefixIff DEF Place
<1>4. Len(m) = Len(n) - 1 /\ \A i \in 1..Len(m) : m[i] = n[i]
  <2>1. m = Up(n, Len(n) - 1)
    BY <1>1 DEF Front, Up
  <2>2. Len(n) - 1 \in 0..Len(n)
    BY <1>3
  <2> QED
    BY <1>3, <2>1, <2>2, UpProps DEF Place
<1>5. /\ p \in Seq(Nat \cup Name) /\ Len(p) = Len(n) - Len(target)
      /\ \A i \in 1..Len(n) - Len(target) : p[i] = n[Len(target) + i]
  BY <1>3, RestProps DEF Place
<1>6. /\ q \in Seq(Nat \cup Name) /\ Len(q) = Len(m) - Len(target)
      /\ \A i \in 1..Len(m) - Len(target) : q[i] = m[Len(target) + i]
  BY <1>3, RestProps DEF Place
<1>7. /\ Rank(p) \in 1..Len(PathOrder) /\ PathOrder[Rank(p)] = p
      /\ Rank(q) \in 1..Len(PathOrder) /\ PathOrder[Rank(q)] = q
      /\ Len(PathOrder) \in Nat
  BY <1>1, PathRank, PathAssumption, LenProperties
<1> HIDE DEF p, q
<1>8. Len(q) < Len(p) /\ Len(p) \in Nat /\ Len(q) \in Nat
  BY <1>3, <1>4, <1>5, <1>6
<1>9. IsStrictPrefix(q, p)
  <2>1. \A i \in 1..Len(q) : q[i] = p[i]
    <3>1. SUFFICES ASSUME NEW i \in 1..Len(q) PROVE q[i] = p[i]
      OBVIOUS
    <3>2. /\ i \in 1..Len(m) - Len(target) /\ i \in 1..Len(n) - Len(target)
          /\ Len(target) + i \in 1..Len(m)
      BY <1>3, <1>4, <1>6, <3>1
    <3> QED
      BY <1>4, <1>5, <1>6, <3>2
  <2>2. IsPrefix(q, p)
    BY <1>5, <1>6, <1>8, <2>1, PrefixIff
  <2> QED
    BY <1>8, <2>2 DEF IsStrictPrefix
<1>10. q = <<>>
  <2>1. q # <<>> => Rank(q) < Rank(p)
    BY <1>7, <1>9, PathAssumption
  <2> QED
    BY <1>2, <2>1
<1>11. m = target
  <2>1. Len(m) - Len(target) = 0
    BY <1>6, <1>10
  <2>2. Len(m) = Len(target)
    BY <1>3, <2>1
  <2>3. \A i \in 1..Len(target) : m[i] = target[i]
    BY <1>1, <1>3, PrefixIff DEF Place
  <2> QED
    BY <1>3, <2>2, <2>3, SeqEqual DEF Place
<1>12. Rank(p) < Rank(<<>>)
  <2>1. Rank(p) # Rank(q)
    BY <1>7, <1>8
  <2>2. Rank(p) \in Nat /\ Rank(q) \in Nat
    BY <1>7
  <2> QED
    BY <1>2, <1>10, <2>1, <2>2
<1> QED
  BY <1>11, <1>12 DEF m

(* Sorting loses no entry and puts each after those that precede it. *)
LEMMA SortedProps ==
  ASSUME target \in Node, NEW l \in Seq(Listed), Under(l)
  PROVE  LET s == Sorted(l) IN
           /\ s \in Seq(Listed)
           /\ \A i \in 1..Len(s) : \E a \in 1..Len(l) :
                /\ s[i] = l[a]
                /\ \A b \in 1..Len(l) : \E j \in 1..Len(s) :
                     s[j] = l[b] /\ (<< b, a >> \in DirsFirst(l) => j < i)
           /\ \A a \in 1..Len(l) : \E i \in 1..Len(s) : s[i] = l[a]
<1> DEFINE n == Len(l)
           order == Ranked(1..n, DirsFirst(l))
           s == Sorted(l)
<1>1. n \in Nat /\ \A a \in 1..n : l[a] \in Listed
  BY EntriesOf
<1>2. s = [i \in 1..n |-> l[order[i]]]
  BY DEF Sorted
<1> HIDE DEF s
<1>3. IsFiniteSet(1..n) /\ Cardinality(1..n) = n
  <2>1. PICK m \in Nat : m = n
    BY <1>1
  <2>2. IsFiniteSet(1..m) /\ Cardinality(1..m) = m
    BY FS_Interval
  <2> QED
    BY <2>1, <2>2
<1>4. StrictOrder(DirsFirst(l), 1..n)
  BY DirsFirstOrder
<1> HIDE DEF n
<1>5. /\ order \in Seq(1..n) /\ Len(order) = n
      /\ \A i, j \in 1..Len(order) : i < j => << order[i], order[j] >> \in DirsFirst(l)
      /\ \A x \in 1..n : \E i \in 1..Len(order) : order[i] = x
  BY <1>3, <1>4, RankedOrder
<1> HIDE DEF order
<1>6. \A i \in 1..n : order[i] \in 1..n
  BY <1>5, ElementOfSeq
<1>7. s \in Seq(Listed) /\ Len(s) = n
  <2>1. s \in [1..n -> Listed]
    BY <1>1, <1>2, <1>6
  <2>2. s \in Seq(Listed)
    BY <1>1, <2>1, SeqDef
  <2> QED
    BY <1>1, <2>1, <2>2, LenProperties
<1>8. \A a \in 1..n : \E i \in 1..n : s[i] = l[a]
  BY <1>2, <1>5
<1>9. ASSUME NEW i \in 1..n, NEW b \in 1..n
      PROVE  \E j \in 1..n : s[j] = l[b] /\ (<< b, order[i] >> \in DirsFirst(l) => j < i)
  <2>1. PICK j \in 1..n : order[j] = b
    BY <1>5
  <2>2. s[j] = l[b] /\ order[i] \in 1..n
    BY <1>2, <1>6, <2>1
  <2>3. ASSUME << b, order[i] >> \in DirsFirst(l) PROVE j < i
    <3>1. b # order[i]
      BY <1>4, <2>2, <2>3 DEF StrictOrder
    <3>2. ~ (i < j)
      <4>1. SUFFICES ASSUME i < j PROVE FALSE
        OBVIOUS
      <4>2. << order[i], b >> \in DirsFirst(l)
        BY <1>5, <2>1, <4>1
      <4>3. << b, b >> \in DirsFirst(l)
        BY <1>4, <2>2, <2>3, <4>2 DEF StrictOrder
      <4> QED
        BY <1>4, <4>3 DEF StrictOrder
    <3>3. i # j
      BY <2>1, <3>1
    <3> QED
      BY <1>1, <3>2, <3>3
  <2> QED
    BY <2>2, <2>3
<1>10. \A i \in 1..n : \E a \in 1..n :
         /\ s[i] = l[a]
         /\ \A b \in 1..n : \E j \in 1..n :
              s[j] = l[b] /\ (<< b, a >> \in DirsFirst(l) => j < i)
  BY <1>2, <1>6, <1>9
<1> QED
  BY <1>7, <1>8, <1>10 DEF s, n
-----------------------------------------------------------------------------
(* What a step leaves alone. *)
LEMMA RootsStay ==
  ASSUME UNCHANGED rootNames
  PROVE  /\ NumRoots' = NumRoots
         /\ \A x : FirstNamed(x)' = FirstNamed(x)
         /\ \A x : Named(x)' <=> Named(x)
         /\ \A x : PathOf(x)' = PathOf(x)
         /\ \A x : NodeOf(x)' = NodeOf(x)
         /\ RootPage' = RootPage
<1>1. NumRoots' = NumRoots
  BY DEF NumRoots
<1>2. \A x : FirstNamed(x)' = FirstNamed(x)
  BY <1>1 DEF FirstNamed
<1>3. \A x : Named(x)' <=> Named(x)
  BY <1>1 DEF Named
<1>4. \A x : PathOf(x)' = PathOf(x)
  BY <1>1 DEF PathOf
<1>5. \A x : NodeOf(x)' = NodeOf(x)
  BY <1>2 DEF NodeOf
<1>6. RootPage' = RootPage
  BY <1>1 DEF RootPage, RootEntries
<1> QED
  BY <1>1, <1>2, <1>3, <1>4, <1>5, <1>6

(* Where nobody edits, all looks at the tree give the same. *)
LEMMA DiskStays ==
  ASSUME UNCHANGED disk
  PROVE  /\ \A n : IsDir(n)' <=> IsDir(n)
         /\ \A n : StatDir(n)' <=> StatDir(n)
         /\ \A n : Exists(n)' <=> Exists(n)
         /\ \A n : StatFinds(n)' <=> StatFinds(n)
         /\ TreeInv' <=> TreeInv
BY DEF IsDir, StatDir, Exists, StatFinds, TreeInv

(* The page in the browser is as true as before if nothing changed. *)
LEMMA PageStays ==
  ASSUME PageInv, UNCHANGED <<rootNames, disk, page, pageSteady>>
  PROVE  PageInv'
<1>1. \A n : StatDir(n)' <=> StatDir(n)
  BY DiskStays
<1>2. \A n : Exists(n)' <=> Exists(n)
  BY DiskStays
<1>3. \A x : (Named(x)' <=> Named(x)) /\ NodeOf(x)' = NodeOf(x)
  BY RootsStay
<1>4. RootPage' = RootPage
  BY RootsStay
<1> QED
  BY <1>1, <1>2, <1>3, <1>4 DEF PageInv

(* So are the search and the roots that it has passed by. *)
LEMMA SearchStays ==
  ASSUME UNCHANGED <<rootNames, disk, path, steady>>
  PROVE  /\ Candidate' = Candidate
         /\ KnownRoot' <=> KnownRoot
         /\ \A i : Below(i)' = Below(i)
         /\ \A i : Passed(i)' <=> Passed(i)
<1>1. \A x : (Named(x)' <=> Named(x)) /\ FirstNamed(x)' = FirstNamed(x)
  BY RootsStay
<1>2. \A n : StatDir(n)' <=> StatDir(n)
  BY DiskStays
<1>3. \A i : Below(i)' = Below(i)
  BY DEF Below
<1>4. Candidate' = Candidate
  BY <1>1 DEF Candidate
<1>5. KnownRoot' <=> KnownRoot
  BY <1>1 DEF KnownRoot
<1>6. \A i : Passed(i)' <=> Passed(i)
  BY <1>2, <1>3 DEF Passed
<1> QED
  BY <1>3, <1>4, <1>5, <1>6
-----------------------------------------------------------------------------
(* The path of a link is the path of the node that the link stands for. *)
LEMMA CrumbPath ==
  ASSUME TypeOK, PageInv, page.path # <<>>
  PROVE  /\ page.target \in Node /\ page.path \in Seq(Name)
         /\ Len(page.target) = Len(page.path) /\ Len(page.path) \in Nat \ {0}
         /\ page.target[1] = FirstNamed(page.path[1])
         /\ rootNames[page.target[1]] = page.path[1]
         /\ \A i \in 2..Len(page.path) : page.target[i] = page.path[i]
         /\ \A i \in 1..Len(page.path) :
              Up(page.target, i) \in Node /\ PathOf(Up(page.target, i)) = Up(page.path, i)
         /\ PathOf(page.target) = page.path
<1> DEFINE p == page.path
           t == page.target
<1>1. /\ p \in Seq(Name) /\ p # <<>> /\ Named(p[1]) /\ t = NodeOf(p) /\ t \in Node
  BY DEF TypeOK, PageInv
<1> HIDE DEF p, t
<1>2. /\ Len(t) = Len(p) /\ t[1] = FirstNamed(p[1]) /\ \A i \in 2..Len(p) : t[i] = p[i]
  BY <1>1, NodeOfProps
<1>3. rootNames[t[1]] = p[1]
  BY <1>1, <1>2, FirstNamedProps
<1>4. Len(p) \in Nat \ {0}
  BY <1>1, FirstElement
<1>5. ASSUME NEW i \in 1..Len(p) PROVE Up(t, i) \in Node /\ PathOf(Up(t, i)) = Up(p, i)
  <2>1. i \in 0..Len(t) /\ i \in 0..Len(p) /\ 1 \in 1..i /\ t \in Place
    BY <1>1, <1>2, <1>4, NodeFacts
  <2>2. Up(t, i) \in Node /\ Len(Up(t, i)) = i
    BY <1>1, <1>2, NodeFacts
  <2>3. \A j \in 1..i : Up(t, i)[j] = t[j]
    BY <2>1, UpProps DEF Place
  <2>4. /\ Up(p, i) \in Seq(Name) /\ Len(Up(p, i)) = i
        /\ \A j \in 1..i : Up(p, i)[j] = p[j]
    BY <1>1, <2>1, UpProps
  <2>5. /\ PathOf(Up(t, i)) \in Seq(Name) /\ Len(PathOf(Up(t, i))) = i
        /\ PathOf(Up(t, i))[1] = rootNames[Up(t, i)[1]]
        /\ \A j \in 2..i : PathOf(Up(t, i))[j] = Up(t, i)[j]
    BY <2>2, PathOfProps
  <2>6. ASSUME NEW j \in 1..i PROVE PathOf(Up(t, i))[j] = Up(p, i)[j]
    <3>1. CASE j = 1
      BY <1>3, <2>1, <2>3, <2>4, <2>5, <3>1
    <3>2. CASE j # 1
      <4>1. j \in 2..i /\ j \in 2..Len(p)
        BY <1>4, <3>2
      <4> QED
        BY <1>2, <2>3, <2>4, <2>5, <4>1
    <3> QED
      BY <3>1, <3>2
  <2> QED
    BY <2>2, <2>4, <2>5, <2>6, SeqEqual
<1>6. PathOf(t) = p
  <2>1. Up(t, Len(p)) = t /\ Up(p, Len(p)) = p
    BY <1>1, <1>2, NodeFacts, SubSeqFull DEF Up
  <2> QED
    BY <1>4, <1>5, <2>1
<1> QED
  BY <1>1, <1>2, <1>3, <1>4, <1>5, <1>6 DEF p, t

(* The link of an entry of a page is the path of its node. *)
LEMMA EntryPath ==
  ASSUME TypeOK, PageInv, NEW i \in 1..Len(page.entries)
  PROVE  LET n == page.entries[i].node IN
           n \in Node /\ Append(page.path, BaseName(n)) = PathOf(n)
<1> DEFINE n == page.entries[i].node
<1>1. n \in Node
  <2>1. page.entries \in Seq(Listed)
    BY DEF TypeOK
  <2> QED
    BY <2>1, EntriesOf
<1>2. CASE page.path = <<>>
  <2>1. page = RootPage
    BY <1>2 DEF PageInv
  <2>2. page.entries = RootEntries
    BY <2>1 DEF RootPage
  <2>3. NumRoots \in Nat /\ rootNames \in Seq(Name)
    BY RootFacts
  <2>4. Len(RootEntries) = NumRoots
    <3> DEFINE S == { RootEntries[j] : j \in 1..NumRoots }
    <3>1. RootEntries \in [1..NumRoots -> S]
      BY DEF RootEntries
    <3> HIDE DEF S
    <3>2. RootEntries \in Seq(S)
      BY <2>3, <3>1, SeqDef
    <3>3. DOMAIN RootEntries = 1..NumRoots
      BY <3>1
    <3>4. DOMAIN RootEntries = 1..Len(RootEntries) /\ Len(RootEntries) \in Nat
      BY <3>2, LenProperties
    <3> QED
      BY <2>3, <3>3, <3>4
  <2>5. i \in 1..NumRoots
    BY <2>2, <2>4
  <2>6. n = << i >>
    BY <2>2, <2>5 DEF RootEntries
  <2>7. PICK j \in 1..NumRoots : j = i
    BY <2>5
  <2>8. BaseName(<< j >>) = rootNames[j]
    BY DEF BaseName
  <2>9. rootNames[j] \in Name
    BY RootFacts
  <2>10. Append(<<>>, rootNames[j]) = << rootNames[j] >>
    OBVIOUS
  <2>11. << rootNames[j] >> \o Tail(<< j >>) = << rootNames[j] >>
    <3>1. Tail(<< j >>) = <<>>
      OBVIOUS
    <3>2. << rootNames[j] >> \in Seq(Name)
      BY <2>9
    <3> QED
      BY <3>1, <3>2, ConcatEmptySeq
  <2>12. PathOf(<< j >>) = << rootNames[j] >>
    BY <2>11 DEF PathOf
  <2> QED
    BY <1>1, <1>2, <2>6, <2>7, <2>8, <2>10, <2>12
<1>3. CASE page.path # <<>>
  <2> DEFINE p == page.path
             t == page.target
  <2>1. /\ t \in Node /\ p \in Seq(Name) /\ Len(t) = Len(p) /\ Len(p) \in Nat \ {0}
        /\ rootNames[t[1]] = p[1] /\ \A j \in 2..Len(p) : t[j] = p[j]
    BY <1>3, CrumbPath
  <2>2. Len(n) = Len(t) + 1 /\ IsPrefix(t, n)
    BY <1>3 DEF PageInv, IsIn
  <2> HIDE DEF n, p, t
  <2>3. n \in Place /\ t \in Place
    BY <1>1, <2>1, NodeFacts
  <2>4. \A j \in 1..Len(t) : t[j] = n[j]
    BY <2>2, <2>3, PrefixIff DEF Place
  <2>5. /\ PathOf(n) \in Seq(Name) /\ Len(PathOf(n)) = Len(n)
        /\ PathOf(n)[1] = rootNames[n[1]]
        /\ \A j \in 2..Len(n) : PathOf(n)[j] = n[j]
    BY <1>1, PathOfProps
  <2>6. BaseName(n) = n[Len(n)] /\ n[Len(n)] \in Name
    <3>1. Len(n) # 1 /\ Len(n) \in 2..Len(n)
      BY <2>1, <2>2
    <3>2. BaseName(n) = n[Len(n)]
      BY <3>1 DEF BaseName, Last
    <3>3. PathOf(n)[Len(n)] = n[Len(n)] /\ Len(n) \in 1..Len(PathOf(n))
      BY <2>1, <2>2, <2>5, <3>1
    <3>4. PathOf(n)[Len(n)] \in Name
      BY <2>5, <3>3, ElementOfSeq
    <3> QED
      BY <3>2, <3>3, <3>4
  <2> DEFINE q == Append(p, n[Len(n)])
  <2>7. /\ q \in Seq(Name) /\ Len(q) = Len(p) + 1 /\ q[Len(p) + 1] = n[Len(n)]
        /\ \A j \in 1..Len(p) : q[j] = p[j]
    BY <2>1, <2>6, Appending
  <2> HIDE DEF q
  <2>8. ASSUME NEW j \in 1..Len(n) PROVE q[j] = PathOf(n)[j]
    <3>1. j = 1 \/ j \in 2..Len(p) \/ j = Len(p) + 1
      BY <2>1, <2>2
    <3>2. CASE j = 1
      <4>1. 1 \in 1..Len(p) /\ 1 \in 1..Len(t)
        BY <2>1
      <4>2. q[1] = p[1] /\ t[1] = n[1]
        BY <2>4, <2>7, <4>1
      <4> QED
        BY <2>1, <2>5, <3>2, <4>2
    <3>3. CASE j \in 2..Len(p)
      <4>1. j \in 1..Len(p) /\ j \in 1..Len(t) /\ j \in 2..Len(n)
        BY <2>1, <2>2, <3>3
      <4>2. q[j] = p[j] /\ t[j] = n[j] /\ t[j] = p[j] /\ PathOf(n)[j] = n[j]
        BY <2>1, <2>4, <2>5, <2>7, <3>3, <4>1
      <4> QED
        BY <4>2
    <3>4. CASE j = Len(p) + 1
      <4>1. j \in 2..Len(n) /\ j = Len(n)
        BY <2>1, <2>2, <3>4
      <4> QED
        BY <2>5, <2>7, <3>4, <4>1
    <3> QED
      BY <3>1, <3>2, <3>3, <3>4
  <2>9. Len(q) = Len(n)
    BY <2>1, <2>2, <2>7
  <2>10. q = PathOf(n)
    BY <2>5, <2>7, <2>8, <2>9, SeqEqual
  <2> QED
    BY <1>1, <2>6, <2>10 DEF n, p, q
<1> QED
  BY <1>2, <1>3
-----------------------------------------------------------------------------
(* A request. *)
LEMMA TypedPath == ReqPath \cup {<<>>} \subseteq Seq(Name)
<1>1. \A n \in Node : Tail(n) \in Seq(Name)
  BY NodeFacts
<1>2. ASSUME NEW naming \in Namings, NEW n \in Node
      PROVE  << naming[n[1]] >> \o Tail(n) \in Seq(Name)
  <2>1. naming \in Seq(Name) /\ n[1] \in 1..Len(naming)
    BY CatalogAssumption
  <2>2. naming[n[1]] \in Name
    BY <2>1, ElementOfSeq
  <2> QED
    BY <1>1, <2>2, Consing
<1>3. <<>> \in Seq(Name)
  OBVIOUS
<1>4. ASSUME NEW p \in ReqPath PROVE p \in Seq(Name)
  <2>1. CASE p \in { Tail(n) : n \in Node }
    BY <1>1, <2>1
  <2>2. CASE \E naming \in Namings : p \in { << naming[n[1]] >> \o Tail(n) : n \in Node }
    <3>1. PICK naming \in Namings : p \in { << naming[n[1]] >> \o Tail(n) : n \in Node }
      BY <2>2
    <3>2. PICK n \in Node : p = << naming[n[1]] >> \o Tail(n)
      BY <3>1
    <3> QED
      BY <1>2, <3>2
  <2> QED
    BY <2>1, <2>2 DEF ReqPath
<1> QED
  BY <1>3, <1>4

(* What a link on the page asks for, and what the page knows of it. *)
LinkPath(h, n) == IF h = "browse" THEN AsFollowed(PathOf(n)) ELSE PathOf(n)

Known(h, n) ==
  Len(n) > 1 /\ n \in pageSteady => Exists(n) /\ (h = "browse" => StatDir(n))

(* Each link the template writes asks for a node that the page knows. *)
LEMMA LinkOf ==
  ASSUME TypeOK, PageInv, Follow
  PROVE  \E h \in {"browse", "download"}, n \in Node :
           Ask(h, LinkPath(h, n), PathOf(n), n) /\ Known(h, n)
<1>1. CASE FollowEntry
  <2>1. PICK i \in 1..Len(page.entries) :
          LET e == page.entries[i]
              p == Append(page.path, BaseName(e.node))
          IN  (e.isDir /\ Browse(p, e.node)) \/ Download(p, e.node)
    BY <1>1 DEF FollowEntry
  <2> DEFINE n == page.entries[i].node
             d == page.entries[i].isDir
  <2>2. n \in Node /\ Append(page.path, BaseName(n)) = PathOf(n)
    BY EntryPath
  <2>3. (d /\ Browse(PathOf(n), n)) \/ Download(PathOf(n), n)
    BY <2>1, <2>2
  <2>4. Len(n) > 1 /\ n \in pageSteady => Exists(n) /\ (d => StatDir(n))
    <3>1. CASE page.path # <<>>
      BY <3>1 DEF PageInv
    <3>2. CASE page.path = <<>>
      <4>1. page.entries = RootEntries
        BY <3>2 DEF PageInv, RootPage
      <4>2. RootEntries \in [1..NumRoots -> { RootEntries[j] : j \in 1..NumRoots }]
        BY DEF RootEntries
      <4>3. \E j \in 1..NumRoots : n = << j >>
        <5>1. PathOf(n) = Append(<<>>, BaseName(n))
          BY <2>2, <3>2
        <5>2. Len(PathOf(n)) = 1
          BY <5>1
        <5>3. Len(n) = 1 /\ n[1] \in 1..NumRoots
          BY <2>2, <5>2, PathOfProps, RootFacts
        <5>4. n = << n[1] >>
          BY <2>2, <5>3, NodeFacts, SeqEqual DEF Place
        <5> QED
          BY <5>3, <5>4
      <4>4. Len(n) = 1
        BY <4>3
      <4> QED
        BY <4>4
    <3> QED
      BY <3>1, <3>2
  <2> HIDE DEF n, d
  <2>5. CASE d /\ Browse(PathOf(n), n)
    BY <2>2, <2>4, <2>5 DEF Browse, LinkPath, Known
  <2>6. CASE Download(PathOf(n), n)
    BY <2>2, <2>4, <2>6 DEF Download, LinkPath, Known
  <2> QED
    BY <2>3, <2>5, <2>6
<1>2. CASE FollowCrumb
  <2>1. PICK i \in 1..Len(page.path) - 1 :
          Browse(SubSeq(page.path, 1, i), SubSeq(page.target, 1, i))
    BY <1>2 DEF FollowCrumb
  <2> DEFINE n == Up(page.target, i)
  <2>2. page.path # <<>>
    <3>1. SUFFICES ASSUME page.path = <<>> PROVE FALSE
      OBVIOUS
    <3>2. Len(page.path) = 0
      BY <3>1
    <3> QED
      BY <2>1, <3>2
  <2>3. i \in 1..Len(page.path)
    BY <2>1, <2>2, CrumbPath
  <2>4. n \in Node /\ PathOf(n) = Up(page.path, i)
    BY <2>2, <2>3, CrumbPath
  <2>5. n \in pageSteady => StatDir(n)
    BY <2>2, <2>3, CrumbPath DEF PageInv
  <2>6. StatDir(n) => Exists(n)
    BY DEF StatDir, Exists
  <2>7. Browse(PathOf(n), n)
    BY <2>1, <2>4 DEF Up
  <2> HIDE DEF n
  <2> QED
    BY <2>4, <2>5, <2>6, <2>7 DEF Browse, LinkPath, Known
<1>3. CASE DownloadThis
  <2> DEFINE n == page.target
  <2>1. page.path # <<>> /\ Download(page.path, n)
    BY <1>3 DEF DownloadThis
  <2>2. n \in Node /\ PathOf(n) = page.path
    BY <2>1, CrumbPath
  <2>3. n \in pageSteady => Exists(n)
    <3>1. Up(n, Len(n)) = n /\ Len(n) \in 1..Len(n)
      BY <2>2, NodeFacts
    <3>2. n \in pageSteady => StatDir(n)
      BY <2>1, <3>1 DEF PageInv
    <3> QED
      BY <3>2 DEF StatDir, Exists
  <2> HIDE DEF n
  <2> QED
    BY <2>1, <2>2, <2>3 DEF Download, LinkPath, Known
<1> QED
  BY <1>1, <1>2, <1>3 DEF Follow

(* A request, of a typed path or of a link, keeps the invariant. *)
LEMMA AskStep ==
  ASSUME CatalogInv, NEW h \in {"browse", "download", "shallow", "deep"},
         NEW p \in Seq(Name), NEW q \in Seq(Name), NEW n \in Node \cup {NoNode},
         Ask(h, p, q, n),
         n # NoNode => /\ h \in {"browse", "download"}
                       /\ q = PathOf(n) /\ p = LinkPath(h, n) /\ Known(h, n)
  PROVE  CatalogInv'
<1>1. /\ UNCHANGED <<rootNames, disk, page, pageSteady, edits>>
      /\ how' = h /\ path' = p /\ shown' = q /\ meant' = n
      /\ pc' = "find" /\ k' = 1 /\ target' = NoNode
      /\ pending' = <<>> /\ dirs' = {} /\ listing' = <<>>
      /\ answer' = "none" /\ steady' = Node
  BY DEF Ask
<1>2. TypeOK /\ TreeInv /\ PageInv
  BY DEF CatalogInv
<1>3. TypeOK'
  <2>1. NumRoots' = NumRoots /\ NumRoots \in Nat \ {0}
    BY <1>1, <1>2, RootsStay, RootFacts
  <2>2. k' \in 1..NumRoots' + 1
    BY <1>1, <2>1
  <2>3. pending' \in Seq(Node) /\ listing' \in Seq(Listed)
    BY <1>1
  <2> QED
    BY <1>1, <1>2, <2>2, <2>3 DEF TypeOK, Listed
<1>4. TreeInv'
  BY <1>1, <1>2, DiskStays
<1>5. PageInv'
  BY <1>1, <1>2, PageStays
<1>6. PlaceInv'
  BY <1>1 DEF PlaceInv
<1>7. LinkInv'
  <2>1. CASE n = NoNode
    BY <1>1, <2>1 DEF LinkInv
  <2>2. CASE n # NoNode
    <3>1. PathOf(n)' = PathOf(n)
      BY <1>1, RootsStay
    <3>2. (Exists(n)' <=> Exists(n)) /\ (StatDir(n)' <=> StatDir(n))
      BY <1>1, DiskStays
    <3>3. OverHttp'
      BY <1>1, <2>2 DEF OverHttp
    <3>4. path' = IF how' = "browse" THEN AsFollowed(shown') ELSE shown'
      BY <1>1, <2>2 DEF LinkPath
    <3>5. shown' = PathOf(n)'
      BY <1>1, <2>2, <3>1
    <3>6. Len(n) > 1 /\ n \in pageSteady =>
            Exists(n)' /\ (how' = "browse" => StatDir(n)')
      BY <1>1, <2>2, <3>2 DEF Known
    <3> QED
      BY <1>1, <3>3, <3>4, <3>5, <3>6 DEF LinkInv
  <2> QED
    BY <2>1, <2>2
<1>8. SearchInv'
  <2>1. \A i \in 1..k' - 1 : FALSE
    BY <1>1
  <2> QED
    BY <1>1, <2>1 DEF SearchInv
<1>9. TargetInv' /\ SeenInv' /\ InfoInv' /\ WalkInv'
  BY <1>1 DEF TargetInv, SeenInv, InfoInv, WalkInv
<1>10. Answers'
  BY <1>1 DEF Answers, LinksLead, ServersAgree, FoundIfThere, ListingHoldsWhatStood,
              ParentsFirst
<1> QED
  BY <1>3, <1>4, <1>5, <1>6, <1>7, <1>8, <1>9, <1>10 DEF CatalogInv

(* A typed path or a link that is followed. *)
LEMMA RequestStep ==
  ASSUME CatalogInv, Type \/ Follow
  PROVE  CatalogInv'
<1>1. TypeOK /\ PageInv
  BY DEF CatalogInv
<1>2. CASE Type
  <2>1. PICK h \in {"browse", "download", "shallow", "deep"}, p \in ReqPath \cup {<<>>} :
          Ask(h, p, p, NoNode)
    BY <1>2 DEF Type
  <2>2. p \in Seq(Name)
    BY TypedPath
  <2> QED
    BY <2>1, <2>2, AskStep
<1>3. CASE Follow
  <2>1. PICK h \in {"browse", "download"}, n \in Node :
          Ask(h, LinkPath(h, n), PathOf(n), n) /\ Known(h, n)
    BY <1>1, <1>3, LinkOf
  <2>2. PathOf(n) \in Seq(Name)
    BY <1>1, PathOfProps
  <2>3. LinkPath(h, n) \in Seq(Name)
    BY <2>2, AsFollowedType DEF LinkPath
  <2>4. h \in {"browse", "download", "shallow", "deep"}
    OBVIOUS
  <2> QED
    BY <2>1, <2>2, <2>3, <2>4, AskStep
<1> QED
  BY <1>2, <1>3
-----------------------------------------------------------------------------
(* The handler. *)
LEMMA CandidateIs ==
  ASSUME TypeOK, KnownRoot
  PROVE  /\ Candidate = NodeOf(path) /\ path # <<>> /\ Named(path[1])
         /\ Len(Candidate) = Len(path) /\ Len(path) \in Nat \ {0}
         /\ (Len(path) > 1 => StatDir(Candidate)) => Candidate \in Node
<1>1. path \in Seq(Name) /\ path # <<>> /\ Named(path[1])
  BY DEF TypeOK, KnownRoot
<1>2. Candidate = NodeOf(path)
  BY DEF Candidate, NodeOf
<1>3. Len(Candidate) = Len(path) /\ (Len(Candidate) = 1 => Candidate \in Node)
  BY <1>1, <1>2, NodeOfProps
<1>4. Len(path) \in Nat \ {0}
  BY <1>1, FirstElement
<1>5. (Len(path) > 1 => StatDir(Candidate)) => Candidate \in Node
  BY <1>3, <1>4 DEF StatDir
<1> QED
  BY <1>1, <1>2, <1>3, <1>4, <1>5

(* The steps of the handlers keep the types. *)
LEMMA HandlerType ==
  ASSUME TypeOK, PlaceInv, SeenInv, Handler
  PROVE  TypeOK'
<1> DEFINE Same == UNCHANGED <<rootNames, disk, request, edits>>
<1>1. ASSUME Same,
             pc' \in {"idle", "find", "read", "info", "lstat", "names"},
             answer' \in {"none", "page", "listing", "file", "archive", "404", "500"},
             k' \in 1..NumRoots + 1, target' \in Node \cup {NoNode},
             pending' \in Seq(Node), dirs' \subseteq Node, listing' \in Seq(Listed),
             page' \in [path : Seq(Name), target : Node \cup {NoNode}, entries : Seq(Listed)],
             pageSteady' \subseteq Node, steady' \subseteq Node
      PROVE  TypeOK'
  <2>1. k' \in 1..NumRoots' + 1
    BY <1>1, RootsStay
  <2>2. UNCHANGED <<rootNames, disk, how, path, shown, meant, edits>>
    BY <1>1 DEF request
  <2> QED
    BY <1>1, <2>1, <2>2 DEF TypeOK, Listed
<1>2. /\ k \in 1..NumRoots + 1 /\ target \in Node \cup {NoNode}
      /\ pending \in Seq(Node) /\ dirs \subseteq Node /\ listing \in Seq(Listed)
      /\ page \in [path : Seq(Name), target : Node \cup {NoNode}, entries : Seq(Listed)]
      /\ pageSteady \subseteq Node /\ steady \subseteq Node
      /\ answer \in {"none", "page", "listing", "file", "archive", "404", "500"}
      /\ path \in Seq(Name)
  BY DEF TypeOK
<1>3. NumRoots \in Nat \ {0} /\ \A i \in 1..NumRoots : << i >> \in Node
  BY RootFacts
<1>4. RootPage \in [path : Seq(Name), target : Node \cup {NoNode}, entries : Seq(Listed)]
  <2>1. RootEntries \in [1..NumRoots -> Listed]
    BY <1>3 DEF RootEntries, Listed
  <2>2. RootEntries \in Seq(Listed)
    BY <1>3, <2>1, SeqDef
  <2>3. <<>> \in Seq(Name)
    OBVIOUS
  <2> QED
    BY <2>2, <2>3 DEF RootPage
<1> HIDE DEF Same
<1>5. CASE BrowseRoots
  BY <1>1, <1>2, <1>4, <1>5 DEF Same, BrowseRoots, Show, walk
<1>6. CASE NoSuchRoot \/ NothingBelowRoot \/ NotAccessible \/ ReadDirFails \/ WalkFails
  <2>1. UNCHANGED walk /\ \E a \in {"404", "500"} : Answer(a)
    BY <1>6 DEF NoSuchRoot, NothingBelowRoot, NotAccessible, ReadDirFails, WalkFails
  <2> QED
    BY <1>1, <1>2, <2>1 DEF Same, Answer, walk
<1>7. CASE HttpFound \/ HttpFile
  <2>1. Candidate \in Node
    BY <1>7, CandidateIs DEF HttpFound, HttpFile, StatFinds
  <2>2. /\ target' = Candidate /\ UNCHANGED <<k, pending, listing, dirs>>
        /\ GoOn("read") \/ Answer("archive") \/ Answer("file")
    BY <1>7 DEF HttpFound, HttpFile
  <2>3. CASE GoOn("read")
    BY <1>1, <1>2, <2>1, <2>2, <2>3 DEF Same, GoOn
  <2>4. CASE Answer("archive") \/ Answer("file")
    BY <1>1, <1>2, <2>1, <2>2, <2>4 DEF Same, Answer
  <2> QED
    BY <2>2, <2>3, <2>4
<1>8. CASE ResolveDefault \/ ResolveBelow \/ ResolveRoot
  <2>1. PICK n \in Node : Resolved(n)
    <3>1. CASE ResolveDefault
      <4>1. << 1 >> \in Node
        BY <1>3
      <4> QED
        BY <3>1, <4>1 DEF ResolveDefault
    <3>2. CASE ResolveBelow
      BY <3>2 DEF ResolveBelow, StatDir
    <3>3. CASE ResolveRoot
      <4>1. << k >> \in Node
        BY <1>2, <1>3, <3>3 DEF ResolveRoot
      <4> QED
        BY <3>3, <4>1 DEF ResolveRoot, Turn
    <3> QED
      BY <1>8, <3>1, <3>2, <3>3
  <2>2. << n >> \in Seq(Node) /\ <<>> \in Seq(Node)
    OBVIOUS
  <2>3. /\ target' = n /\ pending' \in Seq(Node) /\ UNCHANGED <<k, listing, dirs>>
        /\ \E place \in {"lstat", "read"} : GoOn(place)
    BY <2>1, <2>2 DEF Resolved, FirstStep
  <2> QED
    BY <1>1, <1>2, <2>3 DEF Same, GoOn
<1>9. CASE NotBelowRoot
  <2>1. k' \in 1..NumRoots + 1
    BY <1>2, <1>3, <1>9 DEF NotBelowRoot
  <2> QED
    BY <1>1, <1>2, <1>9, <2>1 DEF Same, NotBelowRoot, GoOn
<1>10. CASE ReadDir
  <2>1. Children(target) \in Seq(Node)
    BY ChildrenOf
  <2> QED
    BY <1>1, <1>2, <1>10, <2>1 DEF Same, ReadDir, GoOn
<1>11. CASE Info
  <2>1. Head(pending) \in Node /\ Tail(pending) \in Seq(Node)
    BY <1>2, <1>11, FirstElement DEF Info
  <2>2. [node |-> Head(pending), isDir |-> Head(pending) \in dirs] \in Listed
    BY <2>1 DEF Listed
  <2>3. Looked \in Seq(Listed)
    BY <1>2, <2>2, Appending DEF Looked
  <2> QED
    BY <1>1, <1>2, <1>11, <2>1, <2>3 DEF Same, Info, GoOn
<1>12. CASE ShowPage
  BY <1>1, <1>2, <1>12 DEF Same, ShowPage, Show, walk
<1>13. CASE SendListing
  <2>1. target \in Node /\ Under(listing)
    BY <1>13 DEF SendListing, PlaceInv, SeenInv, Under
  <2>2. Sorted(listing) \in Seq(Listed)
    BY <1>2, <2>1, SortedProps
  <2> QED
    BY <1>1, <1>2, <1>13, <2>2 DEF Same, SendListing, Answer
<1>14. CASE Lstat
  <2>1. Head(pending) \in Node /\ Tail(pending) \in Seq(Node)
    BY <1>2, <1>14, FirstElement DEF Lstat
  <2>2. [node |-> Head(pending), isDir |-> IsDir(Head(pending))] \in Listed
    BY <2>1 DEF Listed, IsDir
  <2>3. listing' \in Seq(Listed)
    BY <1>2, <1>14, <2>2, Appending DEF Lstat
  <2>4. /\ pending' \in Seq(Node) /\ UNCHANGED <<k, target, dirs>>
        /\ \E place \in {"names", "lstat"} : GoOn(place)
    BY <1>2, <1>14, <2>1 DEF Lstat
  <2> QED
    BY <1>1, <1>2, <2>3, <2>4 DEF Same, GoOn
<1>15. CASE ReadNames
  <2>1. pending # <<>>
    BY <1>15 DEF ReadNames, PlaceInv
  <2>2. Children(Head(pending)) \in Seq(Node) /\ Tail(pending) \in Seq(Node)
    BY <1>2, <2>1, FirstElement, ChildrenOf
  <2>3. Children(Head(pending)) \o Tail(pending) \in Seq(Node)
    BY <2>2, ConcatProperties
  <2> QED
    BY <1>1, <1>2, <1>15, <2>3 DEF Same, ReadNames, GoOn
<1> QED
  BY <1>5, <1>6, <1>7, <1>8, <1>9, <1>10, <1>11, <1>12, <1>13, <1>14, <1>15 DEF Handler
(* What an answer, and a step to another place, leave to be shown. *)
LEMMA AnswerStep ==
  ASSUME CatalogInv, Handler, NEW a, Answer(a), k' = k, target' \in Node \/ a \notin {"listing", "500"},
         a = "listing" => UNCHANGED target /\ pc \in {"info", "lstat"},
         Answers'
  PROVE  CatalogInv'
<1>1. /\ UNCHANGED <<rootNames, disk, how, path, shown, meant, page, steady, pageSteady, edits>>
      /\ pc' = "idle" /\ answer' = a
  BY DEF Answer, request
<1>2. /\ TypeOK /\ TreeInv /\ PlaceInv /\ PageInv /\ LinkInv /\ SearchInv /\ SeenInv
  BY DEF CatalogInv
<1>3. TypeOK' /\ TreeInv' /\ PageInv'
  BY <1>1, <1>2, HandlerType, DiskStays, PageStays
<1>4. PlaceInv'
  BY <1>1 DEF PlaceInv
<1>5. LinkInv'
  <2>1. PathOf(meant)' = PathOf(meant)
    <3>1. \A x : PathOf(x)' = PathOf(x)
      BY <1>1, RootsStay
    <3> QED
      BY <1>1, <3>1 DEF PathOf
  <2> QED
    BY <1>1, <1>2, <2>1 DEF LinkInv, OverHttp
<1>6. SearchInv'
  <2>1. \A i : Passed(i)' <=> Passed(i)
    BY <1>1, SearchStays
  <2>2. NumRoots' = NumRoots
    BY <1>1, RootsStay
  <2>3. a = "listing" => (Resolves' <=> Resolves)
    BY <1>1 DEF Resolves, Below
  <2> QED
    BY <1>1, <1>2, <2>1, <2>2, <2>3 DEF SearchInv, OverHttp
<1>7. TargetInv' /\ SeenInv' /\ InfoInv' /\ WalkInv'
  BY <1>1 DEF TargetInv, SeenInv, InfoInv, WalkInv
<1> QED
  BY <1>3, <1>4, <1>5, <1>6, <1>7 DEF CatalogInv

(* A handler that goes on has still to account for its own walk only. *)
LEMMA GoOnStep ==
  ASSUME CatalogInv, Handler, NEW place, GoOn(place),
         place \in {"find", "read", "info", "lstat", "names"},
         place \in {"find", "read"} => pc = "find",
         PlaceInv', SearchInv', TargetInv', SeenInv', InfoInv', WalkInv'
  PROVE  CatalogInv'
<1>1. /\ UNCHANGED <<rootNames, disk, how, path, shown, meant, page, steady, pageSteady, edits>>
      /\ pc' = place /\ UNCHANGED answer
  BY DEF GoOn, request
<1>2. /\ TypeOK /\ TreeInv /\ PlaceInv /\ PageInv /\ LinkInv /\ SeenInv
  BY DEF CatalogInv
<1>3. TypeOK' /\ TreeInv' /\ PageInv'
  BY <1>1, <1>2, HandlerType, DiskStays, PageStays
<1>4. LinkInv'
  <2>1. PathOf(meant)' = PathOf(meant)
    <3>1. \A x : PathOf(x)' = PathOf(x)
      BY <1>1, RootsStay
    <3> QED
      BY <1>1, <3>1 DEF PathOf
  <2>2. (Exists(meant)' <=> Exists(meant)) /\ (StatDir(meant)' <=> StatDir(meant))
    BY <1>1 DEF Exists, StatDir
  <2> QED
    BY <1>1, <1>2, <2>1, <2>2 DEF LinkInv, OverHttp
<1>5. Answers'
  BY <1>1 DEF Answers, LinksLead, ServersAgree, FoundIfThere, ListingHoldsWhatStood,
              ParentsFirst
<1> QED
  BY <1>3, <1>4, <1>5 DEF CatalogInv
-----------------------------------------------------------------------------
(* A link that leads astray has an earlier root of that name, or is cut. *)
LEMMA LinkCandidate ==
  ASSUME TypeOK, LinkInv, meant # NoNode,
         ~ (FirstNamed(shown[1]) < meant[1]), ~ (how = "browse" /\ ~ Whole(shown))
  PROVE  /\ path # <<>> /\ KnownRoot /\ Candidate = meant /\ meant \in Node
         /\ Len(path) = Len(meant) /\ OverHttp
<1>1. meant \in Node /\ OverHttp /\ shown = PathOf(meant)
  BY DEF TypeOK, LinkInv
<1>2. path = shown
  <2>1. shown \in Seq(Name)
    BY DEF TypeOK
  <2>2. Whole(shown) => AsFollowed(shown) = shown
    BY <2>1, AsFollowedType
  <2> QED
    BY <2>2 DEF LinkInv
<1>3. /\ shown # <<>> /\ Named(shown[1]) /\ FirstNamed(shown[1]) <= meant[1]
      /\ FirstNamed(shown[1]) = meant[1] => NodeOf(shown) = meant
      /\ Len(shown) = Len(meant)
  BY <1>1, PathOfProps
<1>4. FirstNamed(shown[1]) = meant[1]
  <2>1. meant[1] \in 1..NumRoots /\ FirstNamed(shown[1]) \in 1..NumRoots /\ NumRoots \in Nat
    BY <1>1, <1>3, RootFacts, FirstNamedProps
  <2> QED
    BY <1>3, <2>1
<1>5. Candidate = NodeOf(shown)
  BY <1>2 DEF Candidate, NodeOf
<1> QED
  BY <1>1, <1>2, <1>3, <1>4, <1>5 DEF KnownRoot

(* What stood all the time did so with all that is above it. *)
LEMMA StoodItself ==
  ASSUME NEW n \in Node, NEW S, Stood(n, S)
  PROVE  n \in S /\ \A i \in 1..Len(n) : Up(n, i) \in S
<1>1. \A i \in 1..Len(n) : Up(n, i) \in S
  BY DEF Stood, Up
<1>2. Len(n) \in 1..Len(n) /\ Up(n, Len(n)) = n
  BY NodeFacts
<1> QED
  BY <1>1, <1>2

(* What an answer has to show, said of the state before it. *)
Misled ==
  \/ FirstNamed(shown[1]) < meant[1]
  \/ how = "browse" /\ ~ Whole(shown)
  \/ how = "download" /\ ~ StatFinds(meant)

LinkStands(S) == meant # NoNode /\ Stood(meant, S) /\ (Len(meant) = 1 => StatDir(meant))

(* What is left to show of an answer to a link. *)
LEMMA LinksLeadIf ==
  ASSUME UNCHANGED <<rootNames, disk, how, shown, meant, steady>>,
         LinkStands(pageSteady' \cap steady) /\ ~ Misled =>
           /\ target' = meant
           /\ answer' \in IF how = "browse" THEN {"page"} ELSE {"file", "archive"}
  PROVE  LinksLead'
<1>1. \A x : FirstNamed(x)' = FirstNamed(x)
  BY RootsStay
<1>2. StatDir(meant)' <=> StatDir(meant)
  BY DEF StatDir
<1>3. FirstNamed(shown[1])' = FirstNamed(shown[1])
  BY <1>1 DEF FirstNamed, NumRoots
<1>4. StatFinds(meant)' <=> StatFinds(meant)
  BY DEF StatFinds
<1> QED
  BY <1>2, <1>3, <1>4 DEF LinksLead, LinkStands, Misled

(* What is left to show of an answer that says not found. *)
LEMMA FoundIf ==
  ASSUME UNCHANGED <<rootNames, disk, how, path, steady>>,
         answer' = "404" /\ OverHttp /\ path # <<>> =>
           ~ (Named(path[1]) /\ Stood(Candidate, steady) /\ Servable(Candidate)),
         answer' = "404" /\ ~ OverHttp => \A i \in 1..NumRoots : Passed(i),
         answer' = "500" =>
           \/ ~ StatDir(<< target'[1] >>)
           \/ \E n \in Node \ steady : IsPrefix(n, target') \/ IsPrefix(target', n)
  PROVE  FoundIfThere'
<1>1. Candidate' = Candidate /\ \A i : Below(i)' = Below(i)
  BY SearchStays
<1>2. Named(path[1])' <=> Named(path[1])
  BY DEF Named, NumRoots
<1>3. \A n : StatDir(n)' <=> StatDir(n)
  BY DiskStays
<1>4. NumRoots' = NumRoots
  BY RootsStay
<1>5. Servable(Candidate)' <=> Servable(Candidate)
  BY <1>1 DEF Servable, StatDir, StatFinds
<1>6. \A i : StatDir(Below(i))' <=> StatDir(Below(i))
  BY <1>1 DEF StatDir
<1>7. StatDir(<< target[1] >>)' <=> StatDir(<< target'[1] >>)
  BY DEF StatDir
<1>8. \A i \in 1..NumRoots :
        Stood(Below(i), steady) /\ StatDir(Below(i)) => Below(i) \in steady
  BY StoodItself DEF StatDir
<1>9. (answer = "404" /\ OverHttp /\ path # <<>> =>
         ~ (Named(path[1]) /\ Stood(Candidate, steady) /\ Servable(Candidate)))'
  BY <1>1, <1>2, <1>5 DEF OverHttp
<1>10. (answer = "404" /\ ~ OverHttp =>
         \A i \in 1..NumRoots :
           /\ path # << rootNames[i] >>
           /\ ~ (Stood(Below(i), steady) /\ StatDir(Below(i))))'
  <2>1. \A i \in 1..NumRoots : Passed(i) =>
          /\ path # << rootNames[i] >>
          /\ ~ (Stood(Below(i), steady) /\ StatDir(Below(i)))
    BY <1>8 DEF Passed
  <2>2. \A i : Stood(Below(i), steady)' <=> Stood(Below(i), steady)
    BY <1>1 DEF Stood
  <2> QED
    BY <1>4, <1>6, <2>1, <2>2 DEF OverHttp
<1>11. (answer = "500" =>
         \/ ~ StatDir(<< target[1] >>)
         \/ \E n \in Node \ steady : IsPrefix(n, target) \/ IsPrefix(target, n))'
  BY <1>7
<1> QED
  BY <1>9, <1>10, <1>11 DEF FoundIfThere
-----------------------------------------------------------------------------
(* Browsing and downloading, to the answer or to the reading of a page. *)
LEMMA NotFoundStep ==
  ASSUME CatalogInv, NoSuchRoot \/ NothingBelowRoot
  PROVE  CatalogInv'
<1>1. /\ Answer("404") /\ UNCHANGED walk /\ pc = "find" /\ OverHttp /\ Handler
  BY DEF NoSuchRoot, NothingBelowRoot, Handler
<1>2. TypeOK /\ LinkInv
  BY DEF CatalogInv
<1>3. /\ UNCHANGED <<rootNames, disk, how, path, shown, meant, steady, pageSteady>>
      /\ pc' = "idle" /\ answer' = "404" /\ k' = k
  BY <1>1 DEF Answer, request, walk
<1>4. LinksLead'
  <2>1. SUFFICES ASSUME LinkStands(pageSteady \cap steady), ~ Misled PROVE FALSE
    BY <1>3, LinksLeadIf
  <2>2. /\ path # <<>> /\ KnownRoot /\ Candidate = meant /\ meant \in Node
        /\ Len(path) = Len(meant)
    BY <1>2, <2>1, LinkCandidate DEF LinkStands, Misled
  <2>3. NothingBelowRoot
    BY <1>1, <2>2 DEF NoSuchRoot, NothingBelowRoot
  <2>4. meant \in pageSteady \cap steady
    BY <2>1, <2>2, StoodItself DEF LinkStands
  <2>5. how = "browse" => StatDir(meant)
    BY <1>1, <1>2, <2>1, <2>2, <2>3, <2>4 DEF LinkInv, NothingBelowRoot, LinkStands
  <2>6. how = "download" => StatFinds(meant)
    BY <2>1 DEF Misled
  <2> QED
    BY <1>1, <2>2, <2>3, <2>5, <2>6 DEF NothingBelowRoot, OverHttp
<1>5. FoundIfThere'
  <2>1. path # <<>> => ~ (Named(path[1]) /\ Stood(Candidate, steady) /\ Servable(Candidate))
    BY <1>1 DEF NoSuchRoot, NothingBelowRoot, KnownRoot, Servable, OverHttp
  <2> QED
    BY <1>1, <1>3, <2>1, FoundIf
<1>6. ServersAgree' /\ ListingHoldsWhatStood' /\ ParentsFirst'
  BY <1>3 DEF ServersAgree, ListingHoldsWhatStood, ParentsFirst
<1> QED
  BY <1>1, <1>3, <1>4, <1>5, <1>6, AnswerStep DEF Answers

(* A download that found its target. *)
LEMMA ServeStep ==
  ASSUME CatalogInv, (HttpFound /\ how = "download") \/ HttpFile
  PROVE  CatalogInv'
<1>1. PICK a \in {"archive", "file"} : Answer(a)
  BY DEF HttpFound, HttpFile
<1>2. TypeOK /\ LinkInv
  BY DEF CatalogInv
<1>3. /\ UNCHANGED <<rootNames, disk, how, path, shown, meant, steady, pageSteady>>
      /\ pc' = "idle" /\ answer' = a /\ k' = k /\ how = "download" /\ target' = Candidate
      /\ Handler
  BY <1>1 DEF Answer, request, HttpFound, HttpFile, Handler
<1>4. LinksLead'
  <2>1. LinkStands(pageSteady \cap steady) /\ ~ Misled => Candidate = meant
    BY <1>2, LinkCandidate DEF LinkStands, Misled
  <2> QED
    BY <1>3, <2>1, LinksLeadIf
<1>5. FoundIfThere'
  BY <1>3, FoundIf
<1>6. ServersAgree' /\ ListingHoldsWhatStood' /\ ParentsFirst'
  BY <1>3 DEF ServersAgree, ListingHoldsWhatStood, ParentsFirst
<1> QED
  BY <1>1, <1>3, <1>4, <1>5, <1>6, AnswerStep DEF Answers

(* A browse request that found its target. *)
LEMMA BrowseStep ==
  ASSUME CatalogInv, HttpFound, how = "browse"
  PROVE  CatalogInv'
<1>1. /\ GoOn("read") /\ pc = "find" /\ OverHttp /\ KnownRoot /\ Handler
      /\ target' = Candidate /\ UNCHANGED <<k, pending, listing, dirs>>
      /\ Len(path) > 1 => StatDir(Candidate)
  BY DEF HttpFound, Handler
<1>2. TypeOK /\ PlaceInv
  BY DEF CatalogInv
<1>3. /\ UNCHANGED <<rootNames, disk, how, path, shown, meant, steady, pageSteady, answer>>
      /\ pc' = "read"
  BY <1>1 DEF GoOn, request
<1>4. Candidate \in Node /\ Len(Candidate) = Len(path)
  BY <1>1, <1>2, CandidateIs
<1>5. PlaceInv'
  BY <1>1, <1>2, <1>3, <1>4 DEF PlaceInv
<1>6. SearchInv'
  BY <1>1, <1>3, SearchStays DEF SearchInv, OverHttp
<1>7. TargetInv'
  <2>1. StatDir(Candidate) => StatDir(target)'
    BY <1>1, <1>3 DEF StatDir
  <2> QED
    BY <1>1, <1>3, <1>4, <2>1 DEF TargetInv
<1>8. SeenInv' /\ InfoInv' /\ WalkInv'
  BY <1>3 DEF SeenInv, InfoInv, WalkInv
<1> QED
  BY <1>1, <1>5, <1>6, <1>7, <1>8, GoOnStep
(* A page that is shown. *)
LEMMA ShowStep ==
  ASSUME CatalogInv, Handler, NEW p, Show(p), UNCHANGED walk, PageInv', Answers'
  PROVE  CatalogInv'
<1>1. /\ UNCHANGED <<rootNames, disk, how, path, shown, meant, steady, edits, k>>
      /\ pc' = "idle" /\ answer' = "page"
  BY DEF Show, request, walk
<1>2. /\ TypeOK /\ TreeInv /\ PlaceInv /\ LinkInv /\ SearchInv /\ SeenInv
  BY DEF CatalogInv
<1>3. TypeOK' /\ TreeInv'
  BY <1>1, <1>2, HandlerType, DiskStays
<1>4. PlaceInv'
  BY <1>1 DEF PlaceInv
<1>5. LinkInv'
  <2>1. PathOf(meant)' = PathOf(meant)
    <3>1. \A x : PathOf(x)' = PathOf(x)
      BY <1>1, RootsStay
    <3> QED
      BY <1>1, <3>1 DEF PathOf
  <2> QED
    BY <1>1, <1>2, <2>1 DEF LinkInv, OverHttp
<1>6. SearchInv'
  <2>1. \A i : Passed(i)' <=> Passed(i)
    BY <1>1, SearchStays
  <2> QED
    BY <1>1, <1>2, <2>1 DEF SearchInv, OverHttp
<1>7. TargetInv' /\ SeenInv' /\ InfoInv' /\ WalkInv'
  BY <1>1 DEF TargetInv, SeenInv, InfoInv, WalkInv
<1> QED
  BY <1>3, <1>4, <1>5, <1>6, <1>7 DEF CatalogInv

(* The page of the roots. *)
LEMMA BrowseRootsStep ==
  ASSUME CatalogInv, BrowseRoots
  PROVE  CatalogInv'
<1>1. /\ Show(RootPage) /\ UNCHANGED walk /\ pc = "find" /\ path = <<>> /\ Handler
  BY DEF BrowseRoots, Handler
<1>2. TypeOK /\ LinkInv /\ PlaceInv
  BY DEF CatalogInv
<1>3. /\ UNCHANGED <<rootNames, disk, how, path, shown, meant, steady, target>>
      /\ pc' = "idle" /\ answer' = "page" /\ page' = RootPage
  BY <1>1 DEF Show, request, walk
<1>4. PageInv'
  <2>1. RootPage' = RootPage /\ RootPage.path = <<>>
    BY <1>3, RootsStay DEF RootPage
  <2>2. page.path' = <<>> /\ page' = RootPage'
    BY <1>3, <2>1
  <2> QED
    BY <2>2 DEF PageInv
<1>5. LinksLead'
  <2>1. ~ (LinkStands(pageSteady' \cap steady) /\ ~ Misled)
    BY <1>1, <1>2, LinkCandidate DEF LinkStands, Misled
  <2> QED
    BY <1>3, <2>1, LinksLeadIf
<1>6. FoundIfThere'
  BY <1>3, FoundIf
<1>7. ListingHoldsWhatStood'
  BY <1>1, <1>2, <1>3 DEF PlaceInv, ListingHoldsWhatStood
<1>8. ServersAgree' /\ ParentsFirst'
  BY <1>3 DEF ServersAgree, ParentsFirst
<1> QED
  BY <1>1, <1>4, <1>5, <1>6, <1>7, <1>8, ShowStep DEF Answers

(* The directory that is read, if nobody touched it, is one. *)
LEMMA TargetStands ==
  ASSUME TypeOK, TargetInv, pc \in {"read", "info", "lstat", "names"}, target \in Node,
         ~ StatDir(target)
  PROVE  ~ StatDir(<< target[1] >>) \/ \E n \in Node \ steady : IsPrefix(n, target)
<1>1. target \in Place /\ Len(target) \in Nat \ {0}
  BY NodeFacts
<1>2. CASE Len(target) = 1
  <2>1. << target[1] >> = target
    BY <1>1, <1>2, SeqEqual DEF Place
  <2> QED
    BY <2>1
<1>3. CASE Len(target) > 1
  <2>1. target \in Node \ steady
    BY <1>3 DEF TargetInv
  <2>2. IsPrefix(target, target)
    BY <1>1, PrefixOrder DEF Place
  <2> QED
    BY <2>1, <2>2
<1> QED
  BY <1>2, <1>3, NodeLength

(* A directory that cannot be read was edited, or is a root that is none. *)
LEMMA ReadDirFailsStep ==
  ASSUME CatalogInv, ReadDirFails
  PROVE  CatalogInv'
<1>1. /\ Answer("500") /\ UNCHANGED walk /\ pc = "read" /\ ~ StatDir(target) /\ Handler
  BY DEF ReadDirFails, Handler
<1>2. TypeOK /\ LinkInv /\ PlaceInv /\ SearchInv /\ TargetInv
  BY DEF CatalogInv
<1>3. /\ UNCHANGED <<rootNames, disk, how, path, shown, meant, steady, pageSteady, target>>
      /\ pc' = "idle" /\ answer' = "500" /\ k' = k /\ target \in Node
  BY <1>1, <1>2 DEF Answer, request, walk, PlaceInv
<1>4. LinksLead'
  <2>1. SUFFICES ASSUME LinkStands(pageSteady \cap steady), ~ Misled PROVE FALSE
    BY <1>3, LinksLeadIf
  <2>2. KnownRoot /\ Candidate = meant /\ meant \in Node /\ OverHttp
    BY <1>2, <2>1, LinkCandidate DEF LinkStands, Misled
  <2>3. target = meant
    BY <1>1, <1>2, <2>2 DEF SearchInv
  <2>4. Len(meant) > 1
    <3>1. Len(meant) # 1
      BY <1>1, <2>1, <2>3 DEF LinkStands
    <3> QED
      BY <2>2, <3>1, NodeLength
  <2>5. meant \in steady
    BY <2>1, <2>2, StoodItself DEF LinkStands
  <2> QED
    BY <1>1, <1>2, <2>3, <2>4, <2>5 DEF TargetInv
<1>5. FoundIfThere'
  <2>1. ~ StatDir(<< target[1] >>) \/ \E n \in Node \ steady : IsPrefix(n, target)
    BY <1>1, <1>2, <1>3, TargetStands
  <2> QED
    BY <1>3, <2>1, FoundIf
<1>6. ServersAgree' /\ ListingHoldsWhatStood' /\ ParentsFirst'
  BY <1>3 DEF ServersAgree, ListingHoldsWhatStood, ParentsFirst
<1> QED
  BY <1>1, <1>3, <1>4, <1>5, <1>6, AnswerStep DEF Answers
-----------------------------------------------------------------------------
(* One level. *)
LEMMA ChildFacts ==
  ASSUME NEW d \in Node, NEW n \in Node, IsIn(n, d)
  PROVE  /\ Front(n) = d /\ n # d /\ IsPrefix(d, n) /\ Len(n) = Len(d) + 1
         /\ d \in Place /\ n \in Place /\ Len(d) \in Nat \ {0} /\ Len(n) \in Nat
<1>1. /\ d \in Place /\ n \in Place /\ Len(d) \in Nat \ {0} /\ Len(n) \in Nat
  BY NodeFacts
<1>2. IsPrefix(d, n) /\ Len(n) = Len(d) + 1
  BY DEF IsIn
<1>3. Up(n, Len(d)) = d
  BY <1>1, <1>2, PrefixIff DEF Place
<1>4. Front(n) = d
  <2>1. Len(n) - 1 = Len(d)
    BY <1>1, <1>2
  <2> QED
    BY <1>3, <2>1 DEF Front, Up
<1>5. n # d
  BY <1>1, <1>2
<1> QED
  BY <1>1, <1>2, <1>4, <1>5

(* Reading a directory does not change what the search found. *)
LEMMA SearchGoesOn ==
  ASSUME SearchInv, NEW place, GoOn(place), UNCHANGED <<k, target>>,
         pc \in {"read", "info", "lstat", "names"},
         place \in {"info", "lstat", "names"}, place = "info" => pc \in {"read", "info"}
  PROVE  SearchInv'
<1>1. /\ UNCHANGED <<rootNames, disk, how, path, steady, answer>> /\ pc' = place
  BY DEF GoOn, request
<1>2. \A i : Passed(i)' <=> Passed(i)
  BY <1>1, SearchStays
<1>3. /\ NumRoots' = NumRoots /\ Candidate' = Candidate /\ (KnownRoot' <=> KnownRoot)
  BY <1>1, RootsStay, SearchStays
<1>4. Resolves' <=> Resolves
  BY <1>1 DEF Resolves, Below
<1>5. OverHttp' <=> OverHttp
  BY <1>1 DEF OverHttp
<1>6. (~ OverHttp => \A i \in 1..k - 1 : Passed(i))'
  BY <1>2, <1>5 DEF SearchInv
<1>7. (~ OverHttp /\ path # <<>> /\ (pc \in {"read", "info", "lstat", "names"} \/ answer = "listing") =>
         k <= NumRoots /\ Resolves)'
  BY <1>1, <1>3, <1>4, <1>5 DEF SearchInv
<1>8. (OverHttp /\ pc \in {"read", "info"} => KnownRoot /\ target = Candidate)'
  BY <1>1, <1>3, <1>5 DEF SearchInv
<1> QED
  BY <1>6, <1>7, <1>8 DEF SearchInv

(* All that is above a directory is a directory. *)
LEMMA AboveStands ==
  ASSUME TreeInv, NEW n \in Node, StatDir(n), NEW i \in 1..Len(n)
  PROVE  StatDir(Up(n, i))
<1>1. Exists(n) /\ Len(n) \in Nat /\ Up(n, Len(n)) = n
  BY NodeFacts DEF StatDir, Exists
<1>2. i = Len(n) \/ i \in 1..Len(n) - 1
  BY <1>1
<1> QED
  BY <1>1, <1>2 DEF TreeInv

(* One level is read: each name waits. *)
LEMMA ReadDirStep ==
  ASSUME CatalogInv, ReadDir
  PROVE  CatalogInv'
<1>1. /\ GoOn("info") /\ pc = "read" /\ StatDir(target) /\ Handler
      /\ pending' = Children(target) /\ dirs' = { n \in Node : IsDir(n) }
      /\ UNCHANGED <<k, target, listing>>
  BY DEF ReadDir, Handler
<1>2. TypeOK /\ PlaceInv /\ SearchInv /\ TreeInv
  BY DEF CatalogInv
<1>3. /\ UNCHANGED <<rootNames, disk, how, path, steady, answer>> /\ pc' = "info"
      /\ target \in Node /\ listing' = <<>> /\ steady \subseteq Node
  BY <1>1, <1>2 DEF GoOn, request, PlaceInv, TypeOK
<1>4. PlaceInv'
  BY <1>1, <1>2, <1>3 DEF PlaceInv
<1>5. SearchInv'
  BY <1>1, <1>2, SearchGoesOn
<1>6. TargetInv'
  <2>1. \A i \in 1..Len(target) : StatDir(Up(target, i))'
    <3>1. \A i \in 1..Len(target) : StatDir(Up(target, i))
      BY <1>1, <1>2, <1>3, AboveStands
    <3> QED
      BY <1>1, <1>3, <3>1 DEF StatDir, Up
  <2>2. StatDir(target)'
    BY <1>1, <1>3 DEF StatDir
  <2>3. target' = target
    BY <1>1
  <2> QED
    BY <2>1, <2>2, <2>3 DEF TargetInv, Up
<1>7. SeenInv'
  BY <1>3 DEF SeenInv
<1>8. InfoInv'
  <2>1. \A n : (IsDir(n)' <=> IsDir(n)) /\ (Exists(n)' <=> Exists(n))
    BY <1>3, DiskStays
  <2>2. \A n \in steady : n \in dirs' <=> IsDir(n)
    BY <1>1, <1>3
  <2>3. /\ \A i \in 1..Len(pending') : IsIn(pending'[i], target)
        /\ \A n \in Node : IsIn(n, target) /\ Exists(n) =>
             \E i \in 1..Len(pending') : pending'[i] = n
    BY <1>1, ChildrenOf
  <2>4. \A i \in 1..Len(listing') : IsIn(listing'[i].node, target)
    BY <1>3
  <2>5. \A n \in Node : IsIn(n, target) /\ Exists(n) => Waits(n)'
    BY <2>3 DEF Waits
  <2>6. (\A n \in steady : n \in dirs <=> IsDir(n))'
    BY <1>3, <2>1, <2>2
  <2>7. (\A n \in Node : IsIn(n, target) /\ n \in steady /\ Exists(n) => Lists(n) \/ Waits(n))'
    BY <1>1, <1>3, <2>1, <2>5
  <2> QED
    BY <1>1, <2>3, <2>4, <2>6, <2>7 DEF InfoInv
<1>9. WalkInv'
  BY <1>3 DEF WalkInv
<1> QED
  BY <1>1, <1>4, <1>5, <1>6, <1>7, <1>8, <1>9, GoOnStep

(* What a name is seen as is added to the listing, if it still is there. *)
LEMMA LookedIs ==
  ASSUME TypeOK, pending # <<>>
  PROVE  LET h == Head(pending)
             e == Entry(h, h \in dirs)
         IN  /\ h \in Node /\ h = pending[1] /\ 1 \in 1..Len(pending)
             /\ Looked \in Seq(Listed)
             /\ \A i \in 1..Len(Looked) :
                  (\E j \in 1..Len(listing) : Looked[i] = listing[j]) \/ (Exists(h) /\ Looked[i] = e)
             /\ \A j \in 1..Len(listing) : \E i \in 1..Len(Looked) : Looked[i] = listing[j]
             /\ Exists(h) => \E i \in 1..Len(Looked) : Looked[i] = e
<1> DEFINE h == Head(pending)
           e == Entry(h, h \in dirs)
<1>1. h \in Node /\ h = pending[1] /\ 1 \in 1..Len(pending)
  BY FirstElement DEF TypeOK
<1>2. e \in Listed /\ listing \in Seq(Listed)
  BY <1>1 DEF TypeOK, Entry, Listed
<1>3. Looked = IF Exists(h) THEN Append(listing, e) ELSE listing
  BY DEF Looked, Entry
<1> HIDE DEF h, e
<1>4. CASE Exists(h)
  <2> DEFINE l == Append(listing, e)
  <2>1. /\ l \in Seq(Listed) /\ Len(l) = Len(listing) + 1 /\ Len(listing) \in Nat
        /\ l[Len(listing) + 1] = e /\ \A j \in 1..Len(listing) : l[j] = listing[j]
        /\ \A j \in 1..Len(listing) + 1 : j \in 1..Len(listing) \/ j = Len(listing) + 1
    BY <1>2, Appending
  <2>2. Looked = l
    BY <1>3, <1>4
  <2> HIDE DEF l
  <2>3. \A j \in 1..Len(listing) : j \in 1..Len(l)
    BY <2>1
  <2>4. Len(listing) + 1 \in 1..Len(l)
    BY <2>1
  <2> QED
    BY <1>1, <1>4, <2>1, <2>2, <2>3, <2>4 DEF h, e
<1>5. CASE ~ Exists(h)
  BY <1>1, <1>2, <1>3, <1>5 DEF h
<1> QED
  BY <1>4, <1>5
(* One waiting name is looked at, and listed unless it is gone. *)
LEMMA InfoStep ==
  ASSUME CatalogInv, Info
  PROVE  CatalogInv'
<1> DEFINE h == Head(pending)
           e == Entry(h, h \in dirs)
<1>1. /\ GoOn("info") /\ pc = "info" /\ pending # <<>> /\ Handler
      /\ listing' = Looked /\ pending' = Tail(pending) /\ UNCHANGED <<k, target, dirs>>
  BY DEF Info, Handler
<1>2. TypeOK /\ PlaceInv /\ SearchInv /\ TargetInv /\ SeenInv /\ InfoInv
  BY DEF CatalogInv
<1>3. /\ UNCHANGED <<rootNames, disk, how, path, steady, answer>> /\ pc' = "info"
      /\ target \in Node
  BY <1>1, <1>2 DEF GoOn, request, PlaceInv
<1>4. /\ h \in Node /\ h = pending[1] /\ 1 \in 1..Len(pending)
      /\ \A i \in 1..Len(Looked) :
           (\E j \in 1..Len(listing) : Looked[i] = listing[j]) \/ (Exists(h) /\ Looked[i] = e)
      /\ \A j \in 1..Len(listing) : \E i \in 1..Len(Looked) : Looked[i] = listing[j]
      /\ Exists(h) => \E i \in 1..Len(Looked) : Looked[i] = e
  BY <1>1, <1>2, LookedIs
<1>5. e.node = h /\ e.isDir = (h \in dirs)
  BY DEF Entry
<1>6. /\ pending \in Seq(Node)
      /\ \A i \in 1..Len(Tail(pending)) : Tail(pending)[i] = pending[i + 1] /\ i + 1 \in 1..Len(pending)
  BY <1>1, <1>2, FirstElement DEF TypeOK
<1> HIDE DEF h, e
<1>7. IsIn(h, target)
  BY <1>1, <1>2, <1>4 DEF InfoInv
<1>8. \A n : (IsDir(n)' <=> IsDir(n)) /\ (Exists(n)' <=> Exists(n)) /\ (StatDir(n)' <=> StatDir(n))
  BY <1>3, DiskStays
<1>9. PlaceInv'
  BY <1>1, <1>2, <1>3 DEF PlaceInv
<1>10. SearchInv'
  BY <1>1, <1>2, SearchGoesOn
<1>11. TargetInv'
  <2>1. StatDir(target)' <=> StatDir(target)
    BY <1>1, <1>3 DEF StatDir
  <2>2. \A i : StatDir(Up(target, i))' <=> StatDir(Up(target, i))
    BY <1>1, <1>3 DEF StatDir, Up
  <2> QED
    BY <1>1, <1>2, <1>3, <2>1, <2>2 DEF TargetInv, Up
<1>12. SeenInv'
  <2>1. ASSUME NEW i \in 1..Len(Looked)
        PROVE  /\ IsPrefix(target, Looked[i].node)
               /\ Looked[i].node \in steady =>
                    Exists(Looked[i].node) /\ Looked[i].isDir = IsDir(Looked[i].node)
    <3>1. CASE \E j \in 1..Len(listing) : Looked[i] = listing[j]
      BY <1>1, <1>2, <3>1 DEF SeenInv
    <3>2. CASE Exists(h) /\ Looked[i] = e
      <4>1. IsPrefix(target, h)
        BY <1>7 DEF IsIn
      <4>2. h \in steady => (h \in dirs <=> IsDir(h))
        BY <1>1, <1>2 DEF InfoInv
      <4>3. (h \in dirs) \in BOOLEAN /\ IsDir(h) \in BOOLEAN
        BY DEF IsDir
      <4>4. h \in steady => (h \in dirs) = IsDir(h)
        BY <4>2, <4>3
      <4> QED
        BY <1>5, <3>2, <4>1, <4>4
    <3> QED
      BY <1>4, <3>1, <3>2
  <2>4. ASSUME NEW i \in 1..Len(listing')
        PROVE  /\ IsPrefix(target', listing'[i].node)
               /\ listing'[i].node \in steady' =>
                    Exists(listing[i].node)' /\ listing'[i].isDir = IsDir(listing[i].node)'
    <3>1. PICK x : x = Looked[i]
      OBVIOUS
    <3>2. i \in 1..Len(Looked) /\ listing'[i] = x
      BY <1>1, <3>1
    <3>3. /\ IsPrefix(target, x.node)
          /\ x.node \in steady => Exists(x.node) /\ x.isDir = IsDir(x.node)
      BY <2>1, <3>1, <3>2
    <3>4. (Exists(listing[i].node)' <=> Exists(x.node)) /\ IsDir(listing[i].node)' = IsDir(x.node)
      BY <1>3, <3>2 DEF Exists, IsDir
    <3> QED
      BY <1>1, <1>3, <3>2, <3>3, <3>4
  <2> QED
    BY <2>4 DEF SeenInv
<1>13. InfoInv'
  <2>1. (\A n \in steady : n \in dirs <=> IsDir(n))'
    BY <1>1, <1>2, <1>3, <1>8 DEF InfoInv
  <2>2. (\A i \in 1..Len(pending) : IsIn(pending[i], target))'
    BY <1>1, <1>2, <1>6 DEF InfoInv
  <2>3. (\A i \in 1..Len(listing) : IsIn(listing[i].node, target))'
    <3>1. \A i \in 1..Len(Looked) : IsIn(Looked[i].node, target)
      BY <1>1, <1>2, <1>4, <1>5, <1>7 DEF InfoInv
    <3> QED
      BY <1>1, <3>1
  <2>4. ASSUME NEW n \in Node, IsIn(n, target), n \in steady, Exists(n)
        PROVE  Lists(n)' \/ Waits(n)'
    <3>1. CASE Lists(n)
      BY <1>1, <1>4, <3>1 DEF Lists
    <3>2. CASE n = h
      BY <1>1, <1>4, <1>5, <2>4, <3>2 DEF Lists
    <3>3. CASE Waits(n) /\ n # h
      <4>1. PICK i \in 1..Len(pending) : pending[i] = n
        BY <3>3 DEF Waits
      <4>2. i # 1
        BY <1>4, <3>3, <4>1
      <4>3. Len(Tail(pending)) = Len(pending) - 1 /\ Len(pending) \in Nat \ {0}
        BY <1>1, <1>6, FirstElement
      <4>4. i - 1 \in 1..Len(Tail(pending)) /\ i - 1 + 1 = i
        BY <4>2, <4>3
      <4>5. Tail(pending)[i - 1] = n
        BY <1>6, <4>1, <4>4
      <4> QED
        BY <1>1, <4>4, <4>5 DEF Waits
    <3> QED
      BY <1>1, <1>2, <2>4, <3>1, <3>2, <3>3 DEF InfoInv
  <2>5. (\A n \in Node : IsIn(n, target) /\ n \in steady /\ Exists(n) => Lists(n) \/ Waits(n))'
    BY <1>1, <1>3, <1>8, <2>4
  <2> QED
    BY <2>1, <2>2, <2>3, <2>5 DEF InfoInv
<1>14. WalkInv'
  BY <1>3 DEF WalkInv
<1> QED
  BY <1>1, <1>9, <1>10, <1>11, <1>12, <1>13, <1>14, GoOnStep

(* A directory's page: its entries are what the links will be of. *)
LEMMA ShowPageStep ==
  ASSUME CatalogInv, ShowPage
  PROVE  CatalogInv'
<1> DEFINE p == [path |-> path, target |-> target, entries |-> listing]
<1>1. /\ Show(p) /\ UNCHANGED walk /\ pc = "info" /\ pending = <<>> /\ how = "browse" /\ Handler
  BY DEF ShowPage, Handler
<1>2. TypeOK /\ LinkInv /\ PlaceInv /\ SearchInv /\ TargetInv /\ SeenInv /\ InfoInv
  BY DEF CatalogInv
<1>3. /\ UNCHANGED <<rootNames, disk, how, path, shown, meant, steady, target, listing>>
      /\ pc' = "idle" /\ answer' = "page" /\ page' = p /\ pageSteady' = steady
  BY <1>1 DEF Show, request, walk
<1>4. /\ KnownRoot /\ target = Candidate /\ target \in Node /\ OverHttp
      /\ path # <<>> /\ Named(path[1]) /\ target = NodeOf(path)
  BY <1>1, <1>2, CandidateIs DEF SearchInv, PlaceInv, OverHttp
<1>5. \A n : (Exists(n)' <=> Exists(n)) /\ (StatDir(n)' <=> StatDir(n)) /\ IsDir(n)' = IsDir(n)
  BY <1>3 DEF Exists, StatDir, IsDir
<1>6. PageInv'
  <2>1. page'.path = path /\ page'.target = target /\ page'.entries = listing
    BY <1>3
  <2>2. Named(page.path[1])' /\ NodeOf(page.path)' = target
    BY <1>3, <1>4, <2>1 DEF Named, NodeOf, FirstNamed, NumRoots
  <2>3. \A i \in 1..Len(target) : Up(target, i) \in steady => StatDir(Up(target, i))
    BY <1>1, <1>2 DEF TargetInv
  <2>4. \A j \in 1..Len(listing) :
           /\ IsIn(listing[j].node, target)
           /\ listing[j].node \in steady =>
                Exists(listing[j].node) /\ (listing[j].isDir => StatDir(listing[j].node))
    <3>1. \A n : IsDir(n) => StatDir(n)
      BY DEF IsDir, StatDir
    <3> QED
      BY <1>1, <1>2, <3>1 DEF InfoInv, SeenInv
  <2>5. \A i \in 1..Len(page'.target) :
          Up(page'.target, i) \in pageSteady' => StatDir(Up(page.target, i))'
    BY <1>3, <2>1, <2>3 DEF StatDir, Up
  <2>6. \A j \in 1..Len(page'.entries) :
           /\ IsIn(page'.entries[j].node, page'.target)
           /\ page'.entries[j].node \in pageSteady' =>
                /\ Exists(page.entries[j].node)'
                /\ page'.entries[j].isDir => StatDir(page.entries[j].node)'
    BY <1>3, <2>1, <2>4 DEF StatDir, Exists
  <2> QED
    BY <1>4, <2>1, <2>2, <2>5, <2>6 DEF PageInv, Up
<1> HIDE DEF p
<1>7. LinksLead'
  <2>1. LinkStands(pageSteady' \cap steady) /\ ~ Misled => Candidate = meant
    BY <1>2, LinkCandidate DEF LinkStands, Misled
  <2> QED
    BY <1>1, <1>3, <1>4, <2>1, LinksLeadIf
<1>8. FoundIfThere'
  BY <1>3, FoundIf
<1>9. ListingHoldsWhatStood'
  <2>1. ASSUME NEW n \in Node, Stood(n, steady), InScope(n)
        PROVE  /\ Exists(n) <=> Lists(n)
               /\ \A i \in 1..Len(listing) : listing[i].node = n => listing[i].isDir = IsDir(n)
    <3>1. IsIn(n, target)
      BY <1>1, <2>1 DEF InScope, ListsAll, IsIn
    <3>2. n \in steady
      BY <2>1, StoodItself
    <3>3. Exists(n) => Lists(n)
      <4>1. ~ Waits(n)
        BY <1>1 DEF Waits
      <4> QED
        BY <1>1, <1>2, <3>1, <3>2, <4>1 DEF InfoInv
    <3>4. \A i \in 1..Len(listing) :
            listing[i].node = n => Exists(n) /\ listing[i].isDir = IsDir(n)
      BY <1>1, <1>2, <3>2 DEF SeenInv
    <3> QED
      BY <3>3, <3>4 DEF Lists
  <2>2. \A n : (Lists(n)' <=> Lists(n)) /\ (InScope(n)' <=> InScope(n))
    BY <1>3 DEF Lists, InScope, ListsAll
  <2> QED
    BY <1>3, <1>5, <2>1, <2>2 DEF ListingHoldsWhatStood
<1>10. ServersAgree' /\ ParentsFirst'
  BY <1>3 DEF ServersAgree, ParentsFirst
<1> QED
  BY <1>1, <1>6, <1>7, <1>8, <1>9, <1>10, ShowStep DEF Answers
-----------------------------------------------------------------------------
(* resolveRoot. *)
LEMMA ResolvedStep ==
  ASSUME CatalogInv, Handler, pc = "find", ~ OverHttp, NEW n \in Node, Resolved(n),
         Len(n) = 1 \/ StatDir(n),
         path # <<>> => /\ k <= NumRoots
                        /\ n = Below(k) \/ (n = << k >> /\ path = << rootNames[k] >>)
  PROVE  CatalogInv'
<1>1. /\ GoOn(FirstStep) /\ target' = n /\ UNCHANGED <<k, listing, dirs>>
      /\ pending' = IF ListsAll THEN << n >> ELSE <<>>
  BY DEF Resolved
<1>2. TypeOK /\ PlaceInv /\ SearchInv
  BY DEF CatalogInv
<1>3. /\ UNCHANGED <<rootNames, disk, how, path, steady, answer>> /\ pc' = FirstStep
      /\ listing' = <<>> /\ answer = "none"
  BY <1>1, <1>2 DEF GoOn, request, PlaceInv
<1>4. FirstStep \in {"lstat", "read"} /\ (FirstStep = "lstat" <=> ListsAll)
  BY DEF FirstStep
<1>5. ListsAll' <=> ListsAll
  BY <1>3 DEF ListsAll
<1>6. ~ ListsAll => how = "shallow"
  BY <1>2 DEF TypeOK, OverHttp, ListsAll
<1>7. PlaceInv'
  BY <1>1, <1>3, <1>4, <1>5, <1>6 DEF PlaceInv
<1>8. SearchInv'
  <2>1. \A i : (Passed(i)' <=> Passed(i)) /\ Below(i)' = Below(i)
    BY <1>3, SearchStays
  <2>2. NumRoots' = NumRoots /\ (OverHttp' <=> OverHttp)
    BY <1>3, RootsStay DEF OverHttp
  <2>3. path # <<>> => Resolves'
    BY <1>1, <1>3 DEF Resolves, Below
  <2>4. (~ OverHttp => \A i \in 1..k - 1 : Passed(i))'
    BY <1>1, <1>2, <2>1, <2>2 DEF SearchInv
  <2>5. (path # <<>> => k <= NumRoots /\ Resolves)'
    BY <1>1, <1>3, <2>2, <2>3
  <2>6. ~ OverHttp'
    BY <2>2
  <2> QED
    BY <2>4, <2>5, <2>6 DEF SearchInv
<1>9. TargetInv'
  <2>1. StatDir(n) => StatDir(target)'
    BY <1>1, <1>3 DEF StatDir
  <2>2. Len(n) = 1 => ~ (Len(n) > 1)
    OBVIOUS
  <2> QED
    BY <1>1, <1>3, <1>4, <2>1, <2>2 DEF TargetInv
<1>10. SeenInv'
  BY <1>3 DEF SeenInv
<1>11. InfoInv'
  BY <1>3, <1>4 DEF InfoInv
<1>12. WalkInv'
  <2>1. SUFFICES ASSUME ListsAll PROVE WalkInv'
    BY <1>3, <1>4 DEF WalkInv
  <2>2. /\ pc' = "lstat" /\ pending' = << n >> /\ target' = n /\ listing' = <<>>
    BY <1>1, <1>3, <1>4, <2>1
  <2>3. /\ Len(pending') = 1 /\ pending'[1] = n
        /\ \A i \in 1..Len(pending') : pending'[i] = n
    BY <2>2
  <2>4. IsPrefix(n, n)
    BY NodeFacts, PrefixOrder DEF Place
  <2>5. (\A i \in 1..Len(pending) : MayWait(pending[i]))'
    BY <2>2, <2>3, <2>4 DEF MayWait
  <2>6. Ordered(listing)'
    <3>1. 1..Len(listing') = {}
      BY <2>2
    <3> QED
      BY <3>1 DEF Ordered
  <2>7. (\A m \in Node : Stood(m, steady) /\ InScope(m) /\ Exists(m) => WillBeSeen(m))'
    <3>1. \A m : InScope(m)' => IsPrefix(n, m)
      BY <1>5, <2>1, <2>2 DEF InScope
    <3>2. 1 \in 1..Len(pending')
      BY <2>3
    <3> QED
      BY <2>3, <3>1, <3>2 DEF WillBeSeen
  <2> QED
    BY <2>2, <2>5, <2>6, <2>7 DEF WalkInv
<1> QED
  BY <1>1, <1>4, <1>7, <1>8, <1>9, <1>10, <1>11, <1>12, GoOnStep

(* resolveRoot has found its root. *)
LEMMA ResolveStep ==
  ASSUME CatalogInv, ResolveDefault \/ ResolveBelow \/ ResolveRoot
  PROVE  CatalogInv'
<1>1. TypeOK /\ Handler /\ pc = "find" /\ ~ OverHttp
  BY DEF CatalogInv, Handler, ResolveDefault, ResolveBelow, ResolveRoot
<1>2. \A i \in 1..NumRoots : << i >> \in Node /\ Len(<< i >>) = 1
  BY <1>1, RootFacts
<1>3. NumRoots \in Nat \ {0} /\ k \in 1..NumRoots + 1
  BY <1>1, RootFacts DEF TypeOK
<1>4. CASE ResolveDefault
  <2>1. path = <<>> /\ Resolved(<< 1 >>) /\ << 1 >> \in Node /\ Len(<< 1 >>) = 1
    BY <1>2, <1>3, <1>4 DEF ResolveDefault
  <2> QED
    BY <1>1, <2>1, ResolvedStep
<1>5. CASE ResolveBelow
  <2>1. /\ k <= NumRoots /\ StatDir(Below(k)) /\ Resolved(Below(k)) /\ Below(k) \in Node
    BY <1>5 DEF ResolveBelow, Turn, StatDir
  <2> QED
    BY <1>1, <2>1, ResolvedStep
<1>6. CASE ResolveRoot
  <2>1. k <= NumRoots /\ path = << rootNames[k] >> /\ Resolved(<< k >>)
    BY <1>6 DEF ResolveRoot, Turn
  <2>2. k \in 1..NumRoots
    BY <1>3, <2>1
  <2>3. << k >> \in Node /\ Len(<< k >>) = 1
    BY <1>2, <2>2
  <2> QED
    BY <1>1, <2>1, <2>3, ResolvedStep
<1> QED
  BY <1>4, <1>5, <1>6

(* resolveRoot passes a root by. *)
LEMMA NotBelowRootStep ==
  ASSUME CatalogInv, NotBelowRoot
  PROVE  CatalogInv'
<1>1. /\ GoOn("find") /\ pc = "find" /\ ~ OverHttp /\ Handler
      /\ path # <<>> /\ k <= NumRoots /\ ~ StatDir(Below(k)) /\ path # << rootNames[k] >>
      /\ k' = k + 1 /\ UNCHANGED <<target, pending, listing, dirs>>
  BY DEF NotBelowRoot, Turn, Handler
<1>2. TypeOK /\ PlaceInv /\ SearchInv
  BY DEF CatalogInv
<1>3. /\ UNCHANGED <<rootNames, disk, how, path, steady, answer>> /\ pc' = "find"
      /\ answer = "none"
  BY <1>1, <1>2 DEF GoOn, request, PlaceInv
<1>4. PlaceInv'
  BY <1>1, <1>2, <1>3 DEF PlaceInv
<1>5. SearchInv'
  <2>1. \A i : (Passed(i)' <=> Passed(i))
    BY <1>3, SearchStays
  <2>2. Passed(k)
    BY <1>1 DEF Passed
  <2>3. k \in Nat
    BY <1>2, RootFacts DEF TypeOK
  <2>4. \A i \in 1..k' - 1 : i \in 1..k - 1 \/ i = k
    BY <1>1, <2>3
  <2>5. (\A i \in 1..k - 1 : Passed(i))'
    BY <1>1, <1>2, <2>1, <2>2, <2>4 DEF SearchInv
  <2>6. ~ OverHttp'
    BY <1>1, <1>3 DEF OverHttp
  <2> QED
    BY <1>3, <2>5, <2>6 DEF SearchInv
<1>6. TargetInv' /\ SeenInv' /\ InfoInv' /\ WalkInv'
  BY <1>3 DEF TargetInv, SeenInv, InfoInv, WalkInv
<1> QED
  BY <1>1, <1>4, <1>5, <1>6, GoOnStep

(* resolveRoot has passed all roots by. *)
LEMMA NotAccessibleStep ==
  ASSUME CatalogInv, NotAccessible
  PROVE  CatalogInv'
<1>1. /\ Answer("404") /\ UNCHANGED walk /\ pc = "find" /\ ~ OverHttp /\ k > NumRoots /\ Handler
  BY DEF NotAccessible, Handler
<1>2. TypeOK /\ LinkInv /\ SearchInv
  BY DEF CatalogInv
<1>3. /\ UNCHANGED <<rootNames, disk, how, path, shown, meant, steady, pageSteady>>
      /\ pc' = "idle" /\ answer' = "404" /\ k' = k
  BY <1>1 DEF Answer, request, walk
<1>4. meant = NoNode
  BY <1>1, <1>2 DEF LinkInv
<1>5. LinksLead'
  BY <1>3, <1>4 DEF LinksLead
<1>6. FoundIfThere'
  <2>1. NumRoots \in Nat /\ k \in Nat
    BY <1>2, RootFacts DEF TypeOK
  <2>2. \A i \in 1..NumRoots : i \in 1..k - 1
    BY <1>1, <2>1
  <2>3. \A i \in 1..NumRoots : Passed(i)
    BY <1>1, <1>2, <2>2 DEF SearchInv
  <2> QED
    BY <1>1, <1>3, <2>3, FoundIf
<1>7. ServersAgree' /\ ListingHoldsWhatStood' /\ ParentsFirst'
  BY <1>3 DEF ServersAgree, ListingHoldsWhatStood, ParentsFirst
<1> QED
  BY <1>1, <1>3, <1>5, <1>6, <1>7, AnswerStep DEF Answers
-----------------------------------------------------------------------------
(* All levels. *)
LEMMA OrderKept ==
  ASSUME NEW l \in Seq(Listed), Ordered(l), NEW n \in Node, NEW d \in BOOLEAN,
         n = target \/ ParentSeen(l, n)
  PROVE  LET m == Append(l, Entry(n, d)) IN
           /\ m \in Seq(Listed) /\ Ordered(m)
           /\ \A i \in 1..Len(l) : i \in 1..Len(m) /\ m[i] = l[i]
           /\ Len(l) + 1 \in 1..Len(m) /\ m[Len(l) + 1] = Entry(n, d)
           /\ \A i \in 1..Len(m) : i \in 1..Len(l) \/ i = Len(l) + 1
           /\ \A x : ParentSeen(l, x) => ParentSeen(m, x)
<1> DEFINE m == Append(l, Entry(n, d))
<1>1. Entry(n, d) \in Listed /\ Entry(n, d).node = n
  BY DEF Entry, Listed
<1>2. /\ m \in Seq(Listed) /\ Len(m) = Len(l) + 1 /\ Len(l) \in Nat
      /\ m[Len(l) + 1] = Entry(n, d) /\ \A i \in 1..Len(l) : m[i] = l[i]
      /\ \A i \in 1..Len(l) + 1 : i \in 1..Len(l) \/ i = Len(l) + 1
  BY <1>1, Appending
<1> HIDE DEF m
<1>3. /\ \A i \in 1..Len(l) : i \in 1..Len(m)
      /\ Len(l) + 1 \in 1..Len(m) /\ 1..Len(m) = 1..Len(l) + 1
  BY <1>2
<1>4. \A x : ParentSeen(l, x) => ParentSeen(m, x)
  BY <1>2, <1>3 DEF ParentSeen
<1>5. ASSUME NEW i \in 1..Len(m), m[i].node # target
      PROVE  \E j \in 1..i - 1 : m[j] = Entry(Front(m[i].node), TRUE)
  <2>1. CASE i \in 1..Len(l)
    <3>1. PICK j \in 1..i - 1 : l[j] = Entry(Front(l[i].node), TRUE)
      BY <1>2, <1>5, <2>1 DEF Ordered
    <3>2. j \in 1..Len(l)
      BY <1>2, <2>1, <3>1
    <3> QED
      BY <1>2, <2>1, <3>1, <3>2
  <2>2. CASE i = Len(l) + 1
    <3>1. m[i].node = n
      BY <1>1, <1>2, <2>2
    <3>2. ParentSeen(l, n)
      BY <1>5, <3>1
    <3>3. PICK j \in 1..Len(l) : l[j] = Entry(Front(n), TRUE)
      BY <3>2 DEF ParentSeen
    <3>4. j \in 1..i - 1
      BY <1>2, <2>2
    <3> QED
      BY <1>2, <3>1, <3>3, <3>4
  <2> QED
    BY <1>2, <1>3, <2>1, <2>2
<1>6. Ordered(m)
  BY <1>5 DEF Ordered
<1> QED
  BY <1>2, <1>3, <1>4, <1>6 DEF m

(* All between the target and something in scope are directories. *)
LEMMA WalkedDirs ==
  ASSUME TypeOK, ListsAll, target \in Node, NEW n \in Node, InScope(n),
         NEW h \in Node, IsPrefix(target, h), IsPrefix(h, n), h # n
  PROVE  IsDir(h)
<1>1. /\ n \in Place /\ h \in Place /\ target \in Place
      /\ Len(n) \in Nat /\ Len(h) \in Nat /\ Len(target) \in Nat
  BY NodeFacts
<1>2. Len(h) <= Len(n) /\ Up(n, Len(h)) = h /\ Len(target) <= Len(h)
  BY <1>1, PrefixIff DEF Place
<1>3. Len(h) # Len(n)
  BY <1>1, PrefixOrder DEF Place
<1>4. Len(h) \in Len(target)..Len(n) - 1
  BY <1>1, <1>2, <1>3
<1>5. disk[Up(n, Len(h))] = "dir"
  BY <1>4 DEF InScope, Up
<1> QED
  BY <1>2, <1>5 DEF IsDir

(* The entry at the head of the walk. *)
LEMMA HeadOfWalk ==
  ASSUME TypeOK, PlaceInv, WalkInv, pc \in {"lstat", "names"}, pending # <<>>
  PROVE  /\ Head(pending) \in Node /\ Head(pending) = pending[1] /\ MayWait(Head(pending))
         /\ target \in Node /\ ListsAll /\ listing \in Seq(Listed)
         /\ Tail(pending) \in Seq(Node)
         /\ \A i \in 1..Len(Tail(pending)) :
              Tail(pending)[i] = pending[i + 1] /\ i + 1 \in 1..Len(pending)
         /\ \A i \in 1..Len(pending) :
              i = 1 \/ (i - 1 \in 1..Len(Tail(pending)) /\ Tail(pending)[i - 1] = pending[i])
<1>1. pending \in Seq(Node) /\ listing \in Seq(Listed)
  BY DEF TypeOK
<1>2. /\ Head(pending) = pending[1] /\ Head(pending) \in Node /\ Len(pending) \in Nat \ {0}
      /\ 1 \in 1..Len(pending)
      /\ Tail(pending) \in Seq(Node) /\ Len(Tail(pending)) = Len(pending) - 1
      /\ \A i \in 1..Len(Tail(pending)) :
           Tail(pending)[i] = pending[i + 1] /\ i + 1 \in 1..Len(pending)
  BY <1>1, FirstElement
<1>3. MayWait(Head(pending))
  BY <1>2 DEF WalkInv
<1>4. ASSUME NEW i \in 1..Len(pending), i # 1
      PROVE  i - 1 \in 1..Len(Tail(pending)) /\ Tail(pending)[i - 1] = pending[i]
  <2>1. i - 1 \in 1..Len(Tail(pending)) /\ i - 1 + 1 = i
    BY <1>2, <1>4
  <2> QED
    BY <1>2, <2>1
<1> QED
  BY <1>1, <1>2, <1>3, <1>4 DEF PlaceInv

(* The walk looks at one waiting node, a directory's names come next. *)
LEMMA LstatStep ==
  ASSUME CatalogInv, Lstat
  PROVE  CatalogInv'
<1> DEFINE h == Head(pending)
           e == Entry(h, IsDir(h))
           d == IsDir(h)
<1>1. /\ pc = "lstat" /\ pending # <<>> /\ Exists(h) /\ Handler
      /\ listing' = Append(listing, e) /\ UNCHANGED <<k, target, dirs>>
      /\ IF IsDir(h) THEN UNCHANGED pending /\ GoOn("names")
                     ELSE pending' = Tail(pending) /\ GoOn("lstat")
  BY DEF Lstat, Handler, Entry
<1>2. TypeOK /\ PlaceInv /\ SearchInv /\ TargetInv /\ SeenInv /\ WalkInv
  BY DEF CatalogInv
<1>3. PICK place \in {"lstat", "names"} : GoOn(place) /\ (place = "names" <=> IsDir(h))
  BY <1>1
<1>4. UNCHANGED <<rootNames, disk, how, path, steady, answer>> /\ pc' = place
  BY <1>3 DEF GoOn, request
<1>5. /\ h \in Node /\ h = pending[1] /\ MayWait(h) /\ target \in Node /\ ListsAll
      /\ listing \in Seq(Listed)
  BY <1>1, <1>2, HeadOfWalk
<1>6. e.node = h /\ e.isDir = d /\ IsDir(h) \in BOOLEAN
  BY DEF Entry, IsDir
<1>7. Ordered(listing) /\ (h = target \/ ParentSeen(listing, h))
  BY <1>1, <1>2, <1>5 DEF WalkInv, MayWait
<1> DEFINE m == Append(listing, e)
<1> HIDE DEF h, e, d
<1>8. /\ m \in Seq(Listed) /\ Ordered(m)
      /\ \A i \in 1..Len(listing) : i \in 1..Len(m) /\ m[i] = listing[i]
      /\ Len(listing) + 1 \in 1..Len(m) /\ m[Len(listing) + 1] = e
      /\ \A i \in 1..Len(m) : i \in 1..Len(listing) \/ i = Len(listing) + 1
      /\ \A x : ParentSeen(listing, x) => ParentSeen(m, x)
  BY <1>5, <1>6, <1>7, OrderKept DEF e
<1>9. listing' = m
  BY <1>1
<1> HIDE DEF m
<1>10. \A n : (Exists(n)' <=> Exists(n)) /\ IsDir(n)' = IsDir(n)
  BY <1>4 DEF Exists, IsDir
<1>11. PlaceInv'
  BY <1>1, <1>2, <1>3, <1>4, <1>5 DEF PlaceInv, ListsAll
<1>12. SearchInv'
  BY <1>1, <1>2, <1>3, SearchGoesOn
<1>13. TargetInv'
  <2>1. StatDir(target)' <=> StatDir(target)
    BY <1>1, <1>4 DEF StatDir
  <2> QED
    BY <1>1, <1>2, <1>4, <2>1 DEF TargetInv
<1>14. SeenInv'
  <2>1. ASSUME NEW i \in 1..Len(m)
        PROVE  /\ IsPrefix(target, m[i].node)
               /\ m[i].node \in steady => Exists(m[i].node) /\ m[i].isDir = IsDir(m[i].node)
    <3>1. CASE i \in 1..Len(listing)
      BY <1>1, <1>2, <1>8, <3>1 DEF SeenInv
    <3>2. CASE i = Len(listing) + 1
      BY <1>1, <1>5, <1>6, <1>8, <3>2 DEF MayWait, d
    <3> QED
      BY <1>8, <3>1, <3>2
  <2> QED
    BY <1>1, <1>4, <1>9, <1>10, <2>1 DEF SeenInv
<1>15. InfoInv'
  BY <1>4 DEF InfoInv
<1>16. WalkInv'
  <2>1. (\A i \in 1..Len(pending) : MayWait(pending[i]))'
    <3>1. \A n : MayWait(n) => MayWait(n)'
      BY <1>1, <1>4, <1>8, <1>9, <1>10 DEF MayWait
    <3>2. \A i \in 1..Len(pending') : MayWait(pending'[i])
      <4>1. CASE IsDir(h)
        BY <1>1, <1>2, <4>1 DEF WalkInv
      <4>2. CASE ~ IsDir(h)
        <5>1. \A i \in 1..Len(Tail(pending)) :
                Tail(pending)[i] = pending[i + 1] /\ i + 1 \in 1..Len(pending)
          BY <1>1, <1>2, HeadOfWalk
        <5> QED
          BY <1>1, <1>2, <4>2, <5>1 DEF WalkInv
      <4> QED
        BY <4>1, <4>2
    <3> QED
      BY <3>1, <3>2 DEF MayWait
  <2>2. (pc = "names" =>
           /\ Head(pending) \in steady => IsDir(Head(pending))
           /\ \E j \in 1..Len(listing) : listing[j] = Entry(Head(pending), TRUE))'
    <3>1. SUFFICES ASSUME place = "names"
                   PROVE  /\ IsDir(Head(pending))'
                          /\ \E j \in 1..Len(m) : m[j] = Entry(Head(pending'), TRUE)
      BY <1>4, <1>9
    <3>2. IsDir(h) /\ pending' = pending
      BY <1>1, <1>3, <3>1
    <3>3. e = Entry(h, TRUE)
      BY <1>6, <3>2 DEF e
    <3> QED
      BY <1>4, <1>8, <3>2, <3>3 DEF h, IsDir
  <2>3. Ordered(listing)'
    BY <1>1, <1>8, <1>9 DEF Ordered
  <2>4. ASSUME NEW n \in Node, Stood(n, steady), InScope(n), Exists(n) PROVE WillBeSeen(n)'
    <3>1. CASE Lists(n)
      BY <1>8, <1>9, <3>1 DEF Lists, WillBeSeen
    <3>2. CASE \E i \in 1..Len(pending) : IsPrefix(pending[i], n)
      <4>1. CASE IsDir(h)
        BY <1>1, <3>2, <4>1 DEF WillBeSeen
      <4>2. CASE ~ IsDir(h)
        <5>1. PICK i \in 1..Len(pending) : IsPrefix(pending[i], n)
          BY <3>2
        <5>2. CASE i = 1
          <6>1. IsPrefix(h, n)
            BY <1>5, <5>1, <5>2
          <6>2. h = n
            BY <1>2, <1>5, <2>4, <4>2, <6>1, WalkedDirs DEF MayWait
          <6> QED
            BY <1>6, <1>8, <1>9, <6>2 DEF Lists, WillBeSeen
        <5>3. CASE i # 1
          <6>1. i - 1 \in 1..Len(Tail(pending)) /\ Tail(pending)[i - 1] = pending[i]
            BY <1>1, <1>2, <5>3, HeadOfWalk
          <6> QED
            BY <1>1, <4>2, <5>1, <6>1 DEF WillBeSeen
        <5> QED
          BY <5>2, <5>3
      <4> QED
        BY <4>1, <4>2
    <3> QED
      BY <1>1, <1>2, <2>4, <3>1, <3>2 DEF WalkInv, WillBeSeen
  <2>5. \A n : InScope(n)' <=> InScope(n)
    BY <1>1, <1>4 DEF InScope, ListsAll
  <2>6. (\A n \in Node : Stood(n, steady) /\ InScope(n) /\ Exists(n) => WillBeSeen(n))'
    BY <1>4, <1>10, <2>4, <2>5
  <2> QED
    BY <2>1, <2>2, <2>3, <2>6 DEF WalkInv
<1>17. Handler /\ GoOn(place)
  BY <1>1, <1>3
<1>18. place \in {"find", "read", "info", "lstat", "names"} /\ place \notin {"find", "read"}
  BY <1>3
<1> QED
  BY <1>11, <1>12, <1>13, <1>14, <1>15, <1>16, <1>17, <1>18, GoOnStep
(* A directory makes way for its names: each waits in its stead. *)
LEMMA ReadNamesStep ==
  ASSUME CatalogInv, ReadNames
  PROVE  CatalogInv'
<1> DEFINE h == Head(pending)
           c == Children(h)
           r == Tail(pending)
<1>1. /\ pc = "names" /\ GoOn("lstat") /\ Handler
      /\ pending' = c \o r /\ UNCHANGED <<k, target, listing, dirs>>
  BY DEF ReadNames, Handler
<1>2. TypeOK /\ PlaceInv /\ SearchInv /\ TargetInv /\ SeenInv /\ WalkInv /\ TreeInv
  BY DEF CatalogInv
<1>3. pending # <<>>
  BY <1>1, <1>2 DEF PlaceInv
<1>4. UNCHANGED <<rootNames, disk, how, path, steady, answer>> /\ pc' = "lstat"
  BY <1>1 DEF GoOn, request
<1>5. /\ h \in Node /\ h = pending[1] /\ MayWait(h) /\ target \in Node /\ ListsAll
      /\ r \in Seq(Node)
      /\ \A i \in 1..Len(r) : r[i] = pending[i + 1] /\ i + 1 \in 1..Len(pending)
      /\ \A i \in 1..Len(pending) : i = 1 \/ (i - 1 \in 1..Len(r) /\ r[i - 1] = pending[i])
  BY <1>1, <1>2, <1>3, HeadOfWalk
<1>6. /\ c \in Seq(Node)
      /\ \A i \in 1..Len(c) : c[i] \in Node /\ IsIn(c[i], h) /\ Exists(c[i])
      /\ \A n \in Node : IsIn(n, h) /\ Exists(n) => \E i \in 1..Len(c) : c[i] = n
  BY ChildrenOf
<1>7. \E j \in 1..Len(listing) : listing[j] = Entry(h, TRUE)
  BY <1>1, <1>2 DEF WalkInv
<1> HIDE DEF h, c, r
<1> DEFINE s == c \o r
<1>8. /\ \A i \in 1..Len(s) : \/ i \in 1..Len(c) /\ s[i] = c[i]
                              \/ i - Len(c) \in 1..Len(r) /\ s[i] = r[i - Len(c)]
      /\ \A i \in 1..Len(c) : i \in 1..Len(s) /\ s[i] = c[i]
      /\ \A i \in 1..Len(r) : i + Len(c) \in 1..Len(s) /\ s[i + Len(c)] = r[i]
  <2>1. Len(c) \in Nat /\ Len(r) \in Nat
    BY <1>5, <1>6, LenProperties
  <2>2. /\ Len(s) = Len(c) + Len(r)
        /\ \A i \in 1..Len(c) + Len(r) : s[i] = IF i <= Len(c) THEN c[i] ELSE r[i - Len(c)]
    BY <1>5, <1>6, ConcatProperties
  <2> HIDE DEF s
  <2>3. \A i \in 1..Len(c) + Len(r) : i \in 1..Len(c) \/ (i - Len(c) \in 1..Len(r) /\ ~ (i <= Len(c)))
    BY <2>1
  <2>4. \A i \in 1..Len(c) : i \in 1..Len(c) + Len(r) /\ i <= Len(c)
    BY <2>1
  <2>5. \A i \in 1..Len(r) : /\ i + Len(c) \in 1..Len(c) + Len(r) /\ ~ (i + Len(c) <= Len(c))
                            /\ i + Len(c) - Len(c) = i
    BY <2>1
  <2>6. \A i \in 1..Len(s) : \/ i \in 1..Len(c) /\ s[i] = c[i]
                             \/ i - Len(c) \in 1..Len(r) /\ s[i] = r[i - Len(c)]
    BY <2>1, <2>2, <2>3
  <2>7. \A i \in 1..Len(c) : i \in 1..Len(s) /\ s[i] = c[i]
    BY <2>2, <2>4
  <2>8. \A i \in 1..Len(r) : i + Len(c) \in 1..Len(s) /\ s[i + Len(c)] = r[i]
    BY <2>2, <2>5
  <2> QED
    BY <2>6, <2>7, <2>8
<1>9. pending' = s
  BY <1>1
<1> HIDE DEF s
<1>10. \A n : (Exists(n)' <=> Exists(n)) /\ IsDir(n)' = IsDir(n)
  BY <1>4 DEF Exists, IsDir
<1>11. PlaceInv'
  BY <1>1, <1>2, <1>4, <1>5 DEF PlaceInv, ListsAll
<1>12. SearchInv'
  BY <1>1, <1>2, SearchGoesOn
<1>13. TargetInv'
  <2>1. StatDir(target)' <=> StatDir(target)
    BY <1>1, <1>4 DEF StatDir
  <2> QED
    BY <1>1, <1>2, <1>4, <2>1 DEF TargetInv
<1>14. SeenInv'
  BY <1>1, <1>2, <1>4, <1>10 DEF SeenInv
<1>15. InfoInv'
  BY <1>4 DEF InfoInv
<1>16. WalkInv'
  <2>1. ASSUME NEW n \in Node, IsIn(n, h), Exists(n) PROVE MayWait(n)
    <3>1. /\ Front(n) = h /\ IsPrefix(h, n) /\ Len(n) = Len(h) + 1
          /\ h \in Place /\ n \in Place /\ Len(h) \in Nat
      BY <1>5, <2>1, ChildFacts
    <3>2. IsPrefix(target, h) /\ target \in Place
      BY <1>5, NodeFacts DEF MayWait
    <3>3. IsPrefix(target, n)
      BY <3>1, <3>2, PrefixOrder DEF Place
    <3>4. ParentSeen(listing, n)
      BY <1>7, <3>1 DEF ParentSeen
    <3> QED
      BY <2>1, <3>3, <3>4 DEF MayWait
  <2>2. \A i \in 1..Len(s) : MayWait(s[i])
    <3>1. \A i \in 1..Len(c) : MayWait(c[i])
      BY <1>6, <2>1
    <3>2. \A i \in 1..Len(r) : MayWait(r[i])
      BY <1>1, <1>2, <1>5 DEF WalkInv
    <3> QED
      BY <1>8, <3>1, <3>2
  <2>3. (\A i \in 1..Len(pending) : MayWait(pending[i]))'
    <3>1. \A n : MayWait(n) => MayWait(n)'
      BY <1>1, <1>4, <1>10 DEF MayWait
    <3> QED
      BY <1>9, <2>2, <3>1 DEF MayWait
  <2>4. Ordered(listing)'
    BY <1>1, <1>2 DEF Ordered, WalkInv
  <2>5. ASSUME NEW n \in Node, Stood(n, steady), InScope(n), Exists(n) PROVE WillBeSeen(n)'
    <3>1. CASE Lists(n)
      BY <1>1, <3>1 DEF Lists, WillBeSeen
    <3>2. CASE ~ Lists(n)
      <4>1. PICK i \in 1..Len(pending) : IsPrefix(pending[i], n)
        BY <1>1, <1>2, <2>5, <3>2 DEF WalkInv, WillBeSeen
      <4>2. CASE i # 1
        <5>1. PICK x \in 1..Len(r) : r[x] = pending[i]
          BY <1>5, <4>2
        <5>2. x + Len(c) \in 1..Len(s) /\ s[x + Len(c)] = pending[i]
          BY <1>8, <5>1
        <5> QED
          BY <1>9, <4>1, <5>2 DEF WillBeSeen
      <4>3. CASE i = 1
        <5>1. IsPrefix(h, n)
          BY <1>5, <4>1, <4>3
        <5>2. n # h
          <6>1. Entry(h, TRUE).node = h
            BY DEF Entry
          <6> QED
            BY <1>7, <3>2, <6>1 DEF Lists
        <5>3. /\ n \in Place /\ h \in Place /\ Len(n) \in Nat \ {0} /\ Len(h) \in Nat \ {0}
          BY <1>5, NodeFacts
        <5>4. Len(h) <= Len(n) /\ Len(h) # Len(n)
          BY <5>1, <5>2, <5>3, PrefixIff, PrefixOrder DEF Place
        <5> DEFINE m == Up(n, Len(h) + 1)
        <5>5. Len(h) + 1 \in 1..Len(n) /\ Len(h) + 1 \in 0..Len(n)
          BY <5>3, <5>4
        <5>6. m \in Node /\ Len(m) = Len(h) + 1
          BY <5>5, NodeFacts
        <5>7. IsPrefix(m, n)
          BY <5>3, <5>5, PrefixOrder DEF Place
        <5>8. Exists(m)
          <6>1. CASE Len(h) + 1 = Len(n)
            BY <2>5, <6>1, NodeFacts
          <6>2. CASE Len(h) + 1 # Len(n)
            <7>1. Len(h) + 1 \in 1..Len(n) - 1
              BY <5>3, <5>5, <6>2
            <7>2. StatDir(m)
              BY <1>2, <2>5, <7>1 DEF TreeInv
            <7> QED
              BY <7>2 DEF StatDir, Exists
          <6> QED
            BY <6>1, <6>2
        <5>9. m \in Place /\ Len(h) <= Len(m)
          BY <5>3, <5>6, NodeFacts
        <5> HIDE DEF m
        <5>10. IsPrefix(h, m)
          BY <5>1, <5>3, <5>7, <5>9, PrefixesOfOne DEF Place
        <5>11. IsIn(m, h)
          BY <5>6, <5>10 DEF IsIn
        <5>12. PICK j \in 1..Len(c) : c[j] = m
          BY <1>6, <5>6, <5>8, <5>11
        <5>13. j \in 1..Len(s) /\ s[j] = m
          BY <1>8, <5>12
        <5> QED
          BY <1>9, <5>7, <5>13 DEF WillBeSeen
      <4> QED
        BY <4>2, <4>3
    <3> QED
      BY <3>1, <3>2
  <2>6. \A n : InScope(n)' <=> InScope(n)
    BY <1>1, <1>4 DEF InScope, ListsAll
  <2>7. (\A n \in Node : Stood(n, steady) /\ InScope(n) /\ Exists(n) => WillBeSeen(n))'
    BY <1>4, <1>10, <2>5, <2>6
  <2> QED
    BY <1>4, <2>3, <2>4, <2>7 DEF WalkInv
<1> QED
  BY <1>1, <1>11, <1>12, <1>13, <1>14, <1>15, <1>16, GoOnStep

(* A walk fails only if something was edited, or at a root that is none. *)
LEMMA WalkFailsStep ==
  ASSUME CatalogInv, WalkFails
  PROVE  CatalogInv'
<1> DEFINE h == Head(pending)
<1>1. /\ Answer("500") /\ UNCHANGED walk /\ Handler /\ pc \in {"lstat", "names"}
      /\ \/ pc = "lstat" /\ pending # <<>> /\ ~ Exists(h)
         \/ pc = "names" /\ ~ StatDir(h)
  BY DEF WalkFails, Handler
<1>2. TypeOK /\ LinkInv /\ PlaceInv /\ TargetInv /\ WalkInv
  BY DEF CatalogInv
<1>3. /\ UNCHANGED <<rootNames, disk, how, path, shown, meant, steady, pageSteady, target>>
      /\ pc' = "idle" /\ answer' = "500" /\ k' = k
  BY <1>1 DEF Answer, request, walk
<1>4. pending # <<>>
  BY <1>1, <1>2 DEF PlaceInv
<1>5. h \in Node /\ MayWait(h) /\ target \in Node /\ ListsAll
  BY <1>1, <1>2, <1>4, HeadOfWalk
<1>6. meant = NoNode
  BY <1>2, <1>5 DEF LinkInv, OverHttp, ListsAll
<1>7. LinksLead'
  BY <1>3, <1>6 DEF LinksLead
<1>8. FoundIfThere'
  <2>1. ~ StatDir(h) /\ (IsDir(h) => StatDir(h)) /\ (StatDir(h) => Exists(h))
    BY <1>1 DEF StatDir, Exists, IsDir
  <2>2. CASE h = target
    <3>1. ~ StatDir(<< target[1] >>) \/ \E n \in Node \ steady : IsPrefix(n, target)
      BY <1>1, <1>2, <1>5, <2>1, <2>2, TargetStands
    <3> QED
      BY <1>3, <3>1, FoundIf
  <2>3. CASE h # target
    <3>1. h \notin steady
      BY <1>1, <1>2, <1>5, <2>1, <2>3 DEF MayWait, WalkInv
    <3>2. IsPrefix(target, h)
      BY <1>5 DEF MayWait
    <3> QED
      BY <1>3, <1>5, <3>1, <3>2, FoundIf
  <2> QED
    BY <2>2, <2>3
<1>9. ServersAgree' /\ ListingHoldsWhatStood' /\ ParentsFirst'
  BY <1>3 DEF ServersAgree, ListingHoldsWhatStood, ParentsFirst
<1> QED
  BY <1>1, <1>3, <1>5, <1>7, <1>8, <1>9, AnswerStep DEF Answers
(* What was in the directory all the time has been seen, when none waits. *)
LEMMA SeenAll ==
  ASSUME TypeOK, PlaceInv, SeenInv, InfoInv, WalkInv, pc \in {"info", "lstat"}, pending = <<>>,
         NEW n \in Node, Stood(n, steady), InScope(n)
  PROVE  /\ Exists(n) <=> Lists(n)
         /\ \A i \in 1..Len(listing) : listing[i].node = n => listing[i].isDir = IsDir(n)
<1>1. n \in steady
  BY StoodItself
<1>2. Exists(n) => Lists(n)
  <2>1. CASE pc = "info"
    <3>1. ~ ListsAll /\ ~ Waits(n)
      BY <2>1 DEF PlaceInv, ListsAll, Waits
    <3>2. IsIn(n, target)
      BY <3>1 DEF InScope, IsIn
    <3> QED
      BY <1>1, <2>1, <3>1, <3>2 DEF InfoInv
  <2>2. CASE pc = "lstat"
    BY <2>2 DEF WalkInv, WillBeSeen
  <2> QED
    BY <2>1, <2>2
<1>3. \A i \in 1..Len(listing) :
        listing[i].node = n => Exists(n) /\ listing[i].isDir = IsDir(n)
  BY <1>1 DEF SeenInv
<1> QED
  BY <1>2, <1>3 DEF Lists

(* The walk is over, so all that stood was seen; it is sent sorted. *)
LEMMA SendListingStep ==
  ASSUME CatalogInv, SendListing
  PROVE  CatalogInv'
<1> DEFINE s == Sorted(listing)
<1>1. /\ Answer("listing") /\ Handler /\ pc \in {"info", "lstat"} /\ pending = <<>> /\ ~ OverHttp
      /\ listing' = s /\ UNCHANGED <<k, target, pending, dirs>>
  BY DEF SendListing, Handler
<1>2. /\ TypeOK /\ LinkInv /\ PlaceInv /\ SearchInv /\ SeenInv /\ InfoInv /\ WalkInv
  BY DEF CatalogInv
<1>3. /\ UNCHANGED <<rootNames, disk, how, path, shown, meant, steady, pageSteady>>
      /\ pc' = "idle" /\ answer' = "listing" /\ target \in Node
  BY <1>1, <1>2 DEF Answer, request, PlaceInv
<1>4. /\ \A a \in 1..Len(listing) : \E i \in 1..Len(s) : s[i] = listing[a]
      /\ \A i \in 1..Len(s) : \E a \in 1..Len(listing) :
           /\ s[i] = listing[a]
           /\ \A b \in 1..Len(listing) : \E j \in 1..Len(s) :
                s[j] = listing[b] /\ (<< b, a >> \in DirsFirst(listing) => j < i)
  <2>1. listing \in Seq(Listed)
    BY <1>2 DEF TypeOK
  <2>2. Under(listing)
    BY <1>1, <1>2 DEF SeenInv, Under
  <2> QED
    BY <1>3, <2>1, <2>2, SortedProps
<1> HIDE DEF s
<1>5. LinksLead'
  <2>1. meant = NoNode
    BY <1>1, <1>2 DEF LinkInv
  <2> QED
    BY <1>3, <2>1 DEF LinksLead
<1>6. FoundIfThere'
  BY <1>3, FoundIf
<1>7. ServersAgree'
  <2>1. SUFFICES ASSUME path # <<>>
        PROVE  /\ Len(path) = 1 /\ Named(path[1]) =>
                    \/ target = << FirstNamed(path[1]) >>
                    \/ Len(target) = 2 /\ target[1] <= FirstNamed(path[1])
               /\ \A i \in 1..target[1] - 1 : ~ (Stood(Below(i), steady) /\ StatDir(Below(i)))
    <3>1. Named(path[1])' <=> Named(path[1])
      BY <1>3 DEF Named, NumRoots
    <3>2. FirstNamed(path[1])' = FirstNamed(path[1])
      BY <1>3 DEF FirstNamed, NumRoots
    <3>3. \A i : Below(i)' = Below(i) /\ (StatDir(Below(i))' <=> StatDir(Below(i)))
      BY <1>3 DEF Below, StatDir
    <3> QED
      BY <1>1, <1>3, <2>1, <3>1, <3>2, <3>3 DEF ServersAgree
  <2>2. /\ k <= NumRoots /\ Resolves /\ \A i \in 1..k - 1 : Passed(i)
    BY <1>1, <1>2, <2>1 DEF SearchInv
  <2>3. k \in 1..NumRoots /\ NumRoots \in Nat /\ path \in Seq(Name)
    BY <1>2, <2>2, RootFacts DEF TypeOK
  <2>4. k \in Nat \cup Name /\ path \in Place
    <3>1. Name \subseteq Nat \cup Name /\ k \in Nat
      BY <2>3
    <3>2. path \in Seq(Nat \cup Name)
      BY <2>3, <3>1, SeqMonotonic
    <3> QED
      BY <3>1, <3>2 DEF Place
  <2>5. Len(Below(k)) = Len(path) + 1 /\ Below(k)[1] = k
    BY <2>4, Consing DEF Below, Place
  <2>6. target[1] = k
    BY <2>2, <2>5 DEF Resolves
  <2>7. ASSUME Len(path) = 1, Named(path[1])
        PROVE  \/ target = << FirstNamed(path[1]) >>
               \/ Len(target) = 2 /\ target[1] <= FirstNamed(path[1])
    <3> DEFINE f == FirstNamed(path[1])
    <3>1. /\ f \in 1..NumRoots /\ rootNames[f] = path[1]
          /\ \A j \in 1..NumRoots : rootNames[j] = path[1] => f <= j
      BY <1>2, <2>7, FirstNamedProps
    <3>2. path = << rootNames[f] >>
      BY <2>3, <2>7, <3>1, SeqEqual
    <3> HIDE DEF f
    <3>3. k <= f
      <4>1. f \notin 1..k - 1
        BY <2>2, <3>2 DEF Passed
      <4> QED
        BY <2>3, <3>1, <4>1
    <3>4. CASE target = Below(k)
      BY <2>5, <2>6, <2>7, <3>3, <3>4 DEF f
    <3>5. CASE target = << k >> /\ path = << rootNames[k] >>
      <4>1. path[1] = rootNames[k]
        BY <3>5
      <4>2. f <= k
        BY <2>3, <3>1, <4>1
      <4>3. f = k
        BY <2>3, <3>1, <3>3, <4>2
      <4> QED
        BY <3>5, <4>3 DEF f
    <3> QED
      BY <2>2, <3>4, <3>5 DEF Resolves
  <2>8. ASSUME NEW i \in 1..target[1] - 1 PROVE ~ (Stood(Below(i), steady) /\ StatDir(Below(i)))
    <3>1. Passed(i)
      BY <2>2, <2>6
    <3>2. StatDir(Below(i)) => Below(i) \in Node
      BY DEF StatDir
    <3> QED
      BY <3>1, <3>2, StoodItself DEF Passed
  <2> QED
    BY <2>7, <2>8
<1>8. ListingHoldsWhatStood'
  <2>1. \A n : Lists(n)' <=> Lists(n)
    <3>1. \A n : Lists(n) => Lists(n)'
      BY <1>1, <1>4 DEF Lists
    <3>2. ASSUME NEW n, Lists(n)' PROVE Lists(n)
      <4>1. PICK i \in 1..Len(s) : s[i].node = n
        BY <1>1, <3>2 DEF Lists
      <4>2. PICK a \in 1..Len(listing) : s[i] = listing[a]
        BY <1>4
      <4> QED
        BY <4>1, <4>2 DEF Lists
    <3> QED
      BY <3>1, <3>2
  <2>2. \A n : (InScope(n)' <=> InScope(n)) /\ (Exists(n)' <=> Exists(n)) /\ IsDir(n)' = IsDir(n)
    BY <1>1, <1>3 DEF InScope, ListsAll, Exists, IsDir
  <2>3. ASSUME NEW n \in Node, Stood(n, steady), InScope(n)
        PROVE  /\ Exists(n) <=> Lists(n)
               /\ \A i \in 1..Len(s) : s[i].node = n => s[i].isDir = IsDir(n)
    <3>1. /\ Exists(n) <=> Lists(n)
          /\ \A i \in 1..Len(listing) : listing[i].node = n => listing[i].isDir = IsDir(n)
      BY <1>1, <1>2, <2>3, SeenAll
    <3>2. \A i \in 1..Len(s) : \E a \in 1..Len(listing) : s[i] = listing[a]
      BY <1>4
    <3>3. ASSUME NEW i \in 1..Len(s), s[i].node = n PROVE s[i].isDir = IsDir(n)
      <4>1. PICK a \in 1..Len(listing) : s[i] = listing[a]
        BY <3>2
      <4> QED
        BY <3>1, <3>3, <4>1
    <3> QED
      BY <3>1, <3>3
  <2> QED
    BY <1>1, <1>3, <2>1, <2>2, <2>3 DEF ListingHoldsWhatStood
<1>9. ParentsFirst'
  <2>1. SUFFICES ASSUME ListsAll, NEW i \in 1..Len(s), s[i].node # target
                 PROVE  \E j \in 1..Len(s) :
                          /\ s[j] = Entry(Front(s[i].node), TRUE)
                          /\ \/ j < i
                             \/ /\ Front(s[i].node) = target /\ s[i].isDir
                                /\ Rank(RelPath(s[i])) < Rank(<<>>)
    BY <1>1, <1>3 DEF ParentsFirst, ListsAll, Entry, RelPath
  <2>2. pc = "lstat"
    BY <1>1, <1>2, <2>1 DEF PlaceInv, ListsAll
  <2>3. Ordered(listing) /\ Under(listing) /\ listing \in Seq(Listed)
    BY <1>2, <2>2 DEF WalkInv, SeenInv, Under, TypeOK
  <2>4. PICK a \in 1..Len(listing) :
          /\ s[i] = listing[a]
          /\ \A b \in 1..Len(listing) : \E j \in 1..Len(s) :
               s[j] = listing[b] /\ (<< b, a >> \in DirsFirst(listing) => j < i)
    BY <1>4
  <2>5. PICK b \in 1..Len(listing) : listing[b] = Entry(Front(listing[a].node), TRUE)
    <3>1. PICK b \in 1..a - 1 : listing[b] = Entry(Front(listing[a].node), TRUE)
      BY <2>1, <2>3, <2>4 DEF Ordered
    <3>2. b \in 1..Len(listing)
      BY <2>3, <3>1, EntriesOf
    <3> QED
      BY <3>1, <3>2
  <2>6. PICK j \in 1..Len(s) :
          s[j] = listing[b] /\ (<< b, a >> \in DirsFirst(listing) => j < i)
    BY <2>4
  <2>7. \/ << b, a >> \in DirsFirst(listing)
        \/ /\ Front(listing[a].node) = target /\ listing[a].isDir = TRUE
           /\ Rank(RelPath(listing[a])) < Rank(<<>>)
    BY <1>3, <2>1, <2>3, <2>4, <2>5, ParentRank
  <2> QED
    BY <2>4, <2>5, <2>6, <2>7
<1> QED
  BY <1>1, <1>3, <1>5, <1>6, <1>7, <1>8, <1>9, AnswerStep DEF Answers
-----------------------------------------------------------------------------
(* Somebody edits the tree: what nobody touched is as it was. *)
LEMMA EditDisk ==
  ASSUME TypeOK, Edit
  PROVE  /\ UNCHANGED <<rootNames, pc, how, path, shown, meant, k, target, pending, dirs,
                        listing, answer, page>>
         /\ disk' \in [Node -> Kind]
         /\ steady' \subseteq steady /\ pageSteady' \subseteq pageSteady
         /\ \A m \in steady' \cup pageSteady' :
              m \in Node => /\ (Exists(m)' <=> Exists(m)) /\ (StatDir(m)' <=> StatDir(m))
                            /\ IsDir(m)' = IsDir(m) /\ disk'[m] = disk[m]
                            /\ (StatFinds(m)' <=> StatFinds(m))
         /\ \A m \in Node, x \in Node :
              IsPrefix(m, x) /\ disk'[m] # disk[m] => x \notin steady' \cup pageSteady'
<1>1. PICK n \in EditPlaces, kind \in EditKinds :
        /\ disk' = At(n, kind)
        /\ steady' = { m \in steady : ~ IsPrefix(n, m) }
        /\ pageSteady' = { m \in pageSteady : ~ IsPrefix(n, m) }
  BY DEF Edit
<1>2. n \in Node /\ kind \in Kind
  BY CatalogAssumption
<1>3. /\ UNCHANGED <<rootNames, pc, how, path, shown, meant, k, target, pending, dirs,
                      listing, answer, page>>
  BY DEF Edit, request, walk
<1>4. disk' \in [Node -> Kind]
  BY <1>1, <1>2 DEF At, TypeOK, Kind
<1>5. \A m \in Node : m # n /\ ~ IsPrefix(n, m) => disk'[m] = disk[m]
  BY <1>1 DEF At
<1>6. IsPrefix(n, n)
  BY <1>2, NodeFacts, PrefixOrder DEF Place
<1>7. ASSUME NEW m \in steady' \cup pageSteady', m \in Node
      PROVE  /\ (Exists(m)' <=> Exists(m)) /\ (StatDir(m)' <=> StatDir(m))
             /\ IsDir(m)' = IsDir(m) /\ disk'[m] = disk[m]
             /\ (StatFinds(m)' <=> StatFinds(m))
  <2>1. ~ IsPrefix(n, m)
    BY <1>1
  <2>2. m # n
    BY <1>6, <2>1
  <2>3. disk'[m] = disk[m]
    BY <1>5, <1>7, <2>1, <2>2
  <2> QED
    BY <2>3 DEF Exists, StatDir, IsDir, StatFinds
<1>8. ASSUME NEW m \in Node, NEW x \in Node, IsPrefix(m, x), disk'[m] # disk[m]
      PROVE  x \notin steady' \cup pageSteady'
  <2>1. IsPrefix(n, m)
    BY <1>5, <1>6, <1>8
  <2>2. IsPrefix(n, x)
    BY <1>2, <1>8, <2>1, NodeFacts, PrefixOrder DEF Place
  <2> QED
    BY <1>1, <2>2
<1> QED
  BY <1>1, <1>3, <1>4, <1>7, <1>8

(* An edit leaves whatever is there in a directory. *)
LEMMA EditTree ==
  ASSUME TypeOK, TreeInv, Edit
  PROVE  TreeInv'
<1>1. PICK n \in EditPlaces, kind \in EditKinds :
        disk' = At(n, kind) /\ (Len(n) > 1 => StatDir(Front(n)))
  BY DEF Edit
<1>2. n \in Node /\ n \in Place /\ Len(n) \in Nat \ {0}
  BY CatalogAssumption, NodeFacts
<1>3. \A m \in Node : disk'[m] = IF m = n THEN kind ELSE IF IsPrefix(n, m) THEN "absent" ELSE disk[m]
  BY <1>1 DEF At
<1>4. ASSUME NEW m \in Node, Exists(m)', NEW i \in 1..Len(m) - 1 PROVE StatDir(Up(m, i))'
  <2> DEFINE u == Up(m, i)
  <2>1. m \in Place /\ Len(m) \in Nat \ {0} /\ i \in 0..Len(m) /\ i \in 1..Len(m)
    BY NodeFacts
  <2>2. u \in Node /\ u \in Place /\ Len(u) = i
    BY <2>1, NodeFacts
  <2>3. IsPrefix(u, m)
    BY <2>1, PrefixOrder DEF Place
  <2>4. StatDir(u) => StatDir(u)' \/ IsPrefix(n, u) \/ u = n
    BY <1>3, <2>2 DEF StatDir, Up
  <2>5. CASE m = n
    <3>1. Len(n) > 1
      BY <1>2, <2>1, <2>5
    <3>2. StatDir(Up(n, Len(n) - 1))
      BY <1>1, <3>1 DEF Front, Up
    <3> DEFINE f == Up(n, Len(n) - 1)
    <3>3. f \in Node /\ Len(f) = Len(n) - 1
      BY <1>2, <3>1, NodeFacts
    <3>4. i \in 1..Len(f) /\ i \in 0..Len(n) - 1 /\ Len(n) - 1 \in 0..Len(n)
      BY <1>2, <2>1, <2>5, <3>1, <3>3
    <3>5. Up(f, i) = u
      BY <1>2, <2>5, <3>4, UpUp DEF Place
    <3>6. StatDir(u)
      BY <3>2, <3>3, <3>4, <3>5, AboveStands
    <3>7. ~ (Len(n) <= i)
      BY <1>2, <2>1, <2>5
    <3>8. ~ IsPrefix(n, u) /\ u # n
      BY <1>2, <2>2, <3>7, PrefixIff DEF Place
    <3> QED
      BY <2>4, <3>6, <3>8
  <2>6. CASE m # n
    <3>1. ~ IsPrefix(n, m) /\ Exists(m)
      BY <1>3, <1>4, <2>6 DEF Exists
    <3>2. StatDir(u)
      BY <1>2, <3>1 DEF TreeInv
    <3>3. ~ IsPrefix(n, u) /\ u # n
      BY <1>2, <2>1, <2>2, <2>3, <3>1, PrefixOrder DEF Place
    <3> QED
      BY <2>4, <3>2, <3>3
  <2> QED
    BY <2>5, <2>6
<1> QED
  BY <1>4 DEF TreeInv
(* A node that stood through the edit too is as it was, with all above it. *)
LEMMA StoodBefore ==
  ASSUME TypeOK, Edit, NEW n \in Node, NEW S, Stood(n, S),
         S \subseteq steady' \/ S \subseteq pageSteady'
  PROVE  /\ n \in S /\ (S \subseteq steady' => Stood(n, steady))
         /\ (S \subseteq steady' /\ S \subseteq pageSteady' => Stood(n, pageSteady \cap steady))
         /\ (Exists(n)' <=> Exists(n)) /\ (StatDir(n)' <=> StatDir(n)) /\ IsDir(n)' = IsDir(n)
         /\ (StatFinds(n)' <=> StatFinds(n))
         /\ target \in Node /\ target' = target /\ how' = how => (InScope(n)' <=> InScope(n))
<1>1. n \in S /\ \A i \in 1..Len(n) : Up(n, i) \in S /\ Up(n, i) \in Node
  BY NodeFacts, StoodItself
<1>2. /\ steady' \subseteq steady /\ pageSteady' \subseteq pageSteady
      /\ \A m \in steady' \cup pageSteady' :
           m \in Node => /\ (Exists(m)' <=> Exists(m)) /\ (StatDir(m)' <=> StatDir(m))
                         /\ IsDir(m)' = IsDir(m) /\ disk'[m] = disk[m]
                         /\ (StatFinds(m)' <=> StatFinds(m))
  BY EditDisk
<1>3. (S \subseteq steady' => Stood(n, steady))
  BY <1>2 DEF Stood
<1>4. (S \subseteq steady' /\ S \subseteq pageSteady' => Stood(n, pageSteady \cap steady))
  BY <1>2 DEF Stood
<1>5. /\ (Exists(n)' <=> Exists(n)) /\ (StatDir(n)' <=> StatDir(n)) /\ IsDir(n)' = IsDir(n)
      /\ (StatFinds(n)' <=> StatFinds(n))
  BY <1>1, <1>2
<1>6. ASSUME target \in Node, target' = target, how' = how PROVE InScope(n)' <=> InScope(n)
  <2>1. Len(target) \in Nat \ {0} /\ Len(n) \in Nat
    BY <1>6, NodeFacts
  <2>2. \A i \in Len(target)..Len(n) - 1 : i \in 1..Len(n)
    BY <2>1
  <2>3. \A i \in Len(target)..Len(n) - 1 : disk'[Up(n, i)] = disk[Up(n, i)]
    BY <1>1, <1>2, <2>2
  <2> QED
    BY <1>6, <2>3 DEF InScope, ListsAll, Up
<1> QED
  BY <1>1, <1>3, <1>4, <1>5, <1>6

(* An edit takes its node from those that nobody touched. *)
LEMMA EditStep ==
  ASSUME CatalogInv, Edit
  PROVE  CatalogInv'
<1>1. /\ TypeOK /\ TreeInv /\ PlaceInv /\ PageInv /\ LinkInv /\ SearchInv /\ TargetInv
      /\ SeenInv /\ InfoInv /\ WalkInv
      /\ LinksLead /\ ServersAgree /\ FoundIfThere /\ ListingHoldsWhatStood /\ ParentsFirst
  BY DEF CatalogInv, Answers
<1>2. /\ UNCHANGED <<rootNames, pc, how, path, shown, meant, k, target, pending, dirs,
                      listing, answer, page>>
      /\ disk' \in [Node -> Kind]
      /\ steady' \subseteq steady /\ pageSteady' \subseteq pageSteady
  BY <1>1, EditDisk
<1>3. \A m \in steady' \cup pageSteady' :
        m \in Node => /\ (Exists(m)' <=> Exists(m)) /\ (StatDir(m)' <=> StatDir(m))
                      /\ IsDir(m)' = IsDir(m) /\ disk'[m] = disk[m]
  BY <1>1, EditDisk
<1>4. /\ steady \subseteq Node /\ pageSteady \subseteq Node
      /\ steady' \subseteq Node /\ pageSteady' \subseteq Node
  BY <1>1, <1>2 DEF TypeOK
<1>5. \A m \in steady' \cup pageSteady' :
        /\ (Exists(m)' <=> Exists(m)) /\ (StatDir(m)' <=> StatDir(m)) /\ IsDir(m)' = IsDir(m)
  BY <1>3, <1>4
<1>6. /\ NumRoots' = NumRoots /\ RootPage' = RootPage
      /\ \A x : /\ FirstNamed(x)' = FirstNamed(x) /\ (Named(x)' <=> Named(x))
                /\ PathOf(x)' = PathOf(x) /\ NodeOf(x)' = NodeOf(x)
  BY <1>2, RootsStay
<1>7. /\ Named(path[1])' <=> Named(path[1])
      /\ FirstNamed(path[1])' = FirstNamed(path[1]) /\ FirstNamed(shown[1])' = FirstNamed(shown[1])
      /\ Candidate' = Candidate /\ (KnownRoot' <=> KnownRoot) /\ PathOf(meant)' = PathOf(meant)
      /\ \A i : Below(i)' = Below(i)
      /\ (OverHttp' <=> OverHttp) /\ (ListsAll' <=> ListsAll)
  <2>1. Named(path[1])' <=> Named(path[1])
    BY <1>2 DEF Named, NumRoots
  <2>2. FirstNamed(path[1])' = FirstNamed(path[1]) /\ FirstNamed(shown[1])' = FirstNamed(shown[1])
    BY <1>2 DEF FirstNamed, NumRoots
  <2>3. Candidate' = Candidate /\ (KnownRoot' <=> KnownRoot)
    BY <1>2, <2>1, <2>2 DEF Candidate, KnownRoot
  <2>4. PathOf(meant)' = PathOf(meant) /\ \A i : Below(i)' = Below(i)
    BY <1>2 DEF PathOf, Below
  <2> QED
    BY <1>2, <2>1, <2>2, <2>3, <2>4 DEF OverHttp, ListsAll
<1>8. TypeOK'
  <2>1. edits' \in 0..MaxEdits
    BY <1>1, CatalogAssumption DEF Edit, TypeOK
  <2> QED
    BY <1>1, <1>2, <1>4, <1>6, <2>1 DEF TypeOK, Listed
<1>9. TreeInv'
  BY <1>1, EditTree
<1>10. PlaceInv'
  BY <1>1, <1>2, <1>7 DEF PlaceInv
<1>11. PageInv'
  <2>1. SUFFICES ASSUME page.path # <<>> PROVE PageInv'
    BY <1>1, <1>2, <1>6 DEF PageInv
  <2>2. Named(page.path[1])' /\ page.target' = NodeOf(page.path)' /\ page.target' \in Node
    BY <1>1, <1>2, <2>1 DEF PageInv, Named, NodeOf, FirstNamed, NumRoots
  <2>3. (\A i \in 1..Len(page.target) :
           Up(page.target, i) \in pageSteady => StatDir(Up(page.target, i)))'
    BY <1>1, <1>2, <1>3, <1>4, <2>1 DEF PageInv, StatDir, Up
  <2>4. (\A j \in 1..Len(page.entries) :
           LET e == page.entries[j] IN
             /\ IsIn(e.node, page.target)
             /\ e.node \in pageSteady => Exists(e.node) /\ (e.isDir => StatDir(e.node)))'
    BY <1>1, <1>2, <1>3, <1>4, <2>1 DEF PageInv, StatDir, Exists
  <2> QED
    BY <1>2, <2>1, <2>2, <2>3, <2>4 DEF PageInv
<1>12. LinkInv'
  <2>1. meant \in pageSteady' \cap steady' =>
          (Exists(meant)' <=> Exists(meant)) /\ (StatDir(meant)' <=> StatDir(meant))
    BY <1>2, <1>3, <1>4 DEF Exists, StatDir
  <2> QED
    BY <1>1, <1>2, <1>7, <2>1 DEF LinkInv
<1>13. SearchInv'
  <2>1. \A i : Passed(i) => Passed(i)'
    BY <1>2, <1>3, <1>4, <1>7 DEF Passed, StatDir
  <2>2. Resolves' <=> Resolves
    BY <1>2, <1>7 DEF Resolves
  <2> QED
    BY <1>1, <1>2, <1>6, <1>7, <2>1, <2>2 DEF SearchInv
<1>14. TargetInv'
  <2>1. target \in steady' => (StatDir(target)' <=> StatDir(target))
    BY <1>2, <1>3, <1>4 DEF StatDir
  <2>2. \A i : Up(target, i) \in steady' => (StatDir(Up(target, i))' <=> StatDir(Up(target, i)))
    BY <1>2, <1>3, <1>4 DEF StatDir, Up
  <2> QED
    BY <1>1, <1>2, <2>1, <2>2 DEF TargetInv, Up
<1>15. SeenInv'
  <2>1. \A i : listing[i].node \in steady' =>
                 /\ Exists(listing[i].node)' <=> Exists(listing[i].node)
                 /\ IsDir(listing[i].node)' = IsDir(listing[i].node)
    BY <1>2, <1>3, <1>4 DEF Exists, IsDir
  <2> QED
    BY <1>1, <1>2, <2>1 DEF SeenInv
<1>16. InfoInv'
  <2>1. \A n : (Lists(n)' <=> Lists(n)) /\ (Waits(n)' <=> Waits(n))
    BY <1>2 DEF Lists, Waits
  <2> QED
    BY <1>1, <1>2, <1>5, <2>1 DEF InfoInv
<1>17. WalkInv'
  <2>1. SUFFICES ASSUME pc \in {"lstat", "names"} PROVE WalkInv'
    BY <1>2 DEF WalkInv
  <2>2. target \in Node
    BY <1>1, <2>1 DEF PlaceInv
  <2>3. \A n : MayWait(n) => MayWait(n)'
    BY <1>2, <1>5 DEF MayWait, ParentSeen
  <2>4. (\A i \in 1..Len(pending) : MayWait(pending[i]))'
    BY <1>1, <1>2, <2>1, <2>3 DEF WalkInv, MayWait
  <2>5. (pc = "names" =>
           /\ Head(pending) \in steady => IsDir(Head(pending))
           /\ \E j \in 1..Len(listing) : listing[j] = Entry(Head(pending), TRUE))'
    <3>1. Head(pending) \in steady' => IsDir(Head(pending))' = IsDir(Head(pending))
      BY <1>2, <1>3, <1>4 DEF IsDir
    <3> QED
      BY <1>1, <1>2, <2>1, <3>1 DEF WalkInv
  <2>6. Ordered(listing)'
    BY <1>1, <1>2, <2>1 DEF WalkInv, Ordered
  <2>7. ASSUME NEW n \in Node, Stood(n, steady'), InScope(n)', Exists(n)' PROVE WillBeSeen(n)'
    <3>1. Stood(n, steady) /\ InScope(n) /\ Exists(n)
      BY <1>1, <1>2, <2>2, <2>7, StoodBefore
    <3> QED
      BY <1>1, <1>2, <2>1, <3>1 DEF WalkInv, WillBeSeen, Lists
  <2> QED
    BY <2>4, <2>5, <2>6, <2>7 DEF WalkInv
<1>18. LinksLead'
  <2>1. SUFFICES ASSUME meant # NoNode, Stood(meant, pageSteady' \cap steady') PROVE LinksLead'
    BY <1>2 DEF LinksLead
  <2>2. meant \in Node
    BY <1>1, <2>1 DEF TypeOK
  <2>3. /\ Stood(meant, pageSteady \cap steady) /\ (StatDir(meant)' <=> StatDir(meant))
        /\ (StatFinds(meant)' <=> StatFinds(meant))
    <3>1. PICK n \in Node : n = meant
      BY <2>2
    <3>2. /\ Stood(n, pageSteady \cap steady) /\ (StatDir(n)' <=> StatDir(n))
          /\ (StatFinds(n)' <=> StatFinds(n))
      BY <1>1, <2>1, <3>1, StoodBefore
    <3> QED
      BY <1>2, <3>1, <3>2 DEF StatDir, StatFinds
  <2> QED
    BY <1>1, <1>2, <1>7, <2>3 DEF LinksLead
<1>19. \A i : Stood(Below(i), steady') /\ StatDir(Below(i))' =>
                Stood(Below(i), steady) /\ StatDir(Below(i))
  <2>1. SUFFICES ASSUME NEW n, Stood(n, steady'), StatDir(n)'
                 PROVE  Stood(n, steady) /\ StatDir(n)
    BY <1>7 DEF StatDir
  <2>2. n \in Node
    BY <2>1 DEF StatDir
  <2> QED
    BY <1>1, <2>1, <2>2, StoodBefore
<1>20. Stood(Candidate, steady') /\ Servable(Candidate)' =>
         Stood(Candidate, steady) /\ Servable(Candidate)
  <2>1. SUFFICES ASSUME NEW n, Stood(n, steady'), Servable(n)'
                 PROVE  Stood(n, steady) /\ Servable(n)
    BY <1>7 DEF Servable, StatDir, StatFinds
  <2>2. n \in Node
    BY <2>1 DEF Servable, StatDir, StatFinds
  <2>3. Stood(n, steady) /\ (StatDir(n)' <=> StatDir(n)) /\ (StatFinds(n)' <=> StatFinds(n))
    BY <1>1, <2>1, <2>2, StoodBefore
  <2> QED
    BY <1>2, <2>1, <2>3 DEF Servable
<1>21. ServersAgree'
  BY <1>1, <1>2, <1>7, <1>19 DEF ServersAgree
<1>22. FoundIfThere'
  <2>1. ASSUME answer = "500", pc = "idle"
        PROVE  \/ ~ StatDir(<< target[1] >>)'
               \/ \E n \in Node \ steady' : IsPrefix(n, target) \/ IsPrefix(target, n)
    <3>1. CASE \E n \in Node \ steady : IsPrefix(n, target) \/ IsPrefix(target, n)
      BY <1>2, <3>1
    <3>2. CASE ~ StatDir(<< target[1] >>) /\ StatDir(<< target[1] >>)'
      <4> DEFINE n == << target[1] >>
      <4>1. n \in Node
        BY <1>2, <3>2 DEF StatDir
      <4>2. n \notin steady'
        BY <1>2, <1>3, <3>2, <4>1 DEF StatDir
      <4>3. IsPrefix(n, target)
        <5>1. target \in Node
          BY <1>1, <2>1 DEF PlaceInv
        <5>2. target \in Place /\ n \in Place /\ Len(n) = 1 /\ Len(target) \in Nat \ {0}
          BY <4>1, <5>1, NodeFacts
        <5>3. \A j \in 1..Len(n) : n[j] = target[j]
          BY <5>2
        <5>4. Len(n) <= Len(target)
          BY <5>2
        <5> QED
          BY <5>2, <5>3, <5>4, PrefixIff DEF Place
      <4> QED
        BY <4>1, <4>2, <4>3
    <3> QED
      BY <1>1, <2>1, <3>1, <3>2 DEF FoundIfThere
  <2>2. (pc = "idle" /\ answer = "404" /\ OverHttp /\ path # <<>> =>
           ~ (Named(path[1]) /\ Stood(Candidate, steady) /\ Servable(Candidate)))'
    BY <1>1, <1>2, <1>7, <1>20 DEF FoundIfThere
  <2>3. (pc = "idle" /\ answer = "404" /\ ~ OverHttp =>
           \A i \in 1..NumRoots :
             /\ path # << rootNames[i] >>
             /\ ~ (Stood(Below(i), steady) /\ StatDir(Below(i))))'
    BY <1>1, <1>2, <1>6, <1>7, <1>19 DEF FoundIfThere
  <2> QED
    BY <1>2, <2>1, <2>2, <2>3 DEF FoundIfThere
<1>23. ListingHoldsWhatStood'
  <2>1. SUFFICES ASSUME pc = "idle", answer \in {"page", "listing"}, target # NoNode,
                        NEW n \in Node, Stood(n, steady'), InScope(n)'
                 PROVE  /\ Exists(n)' <=> Lists(n)
                        /\ \A i \in 1..Len(listing) :
                             listing[i].node = n => listing[i].isDir = IsDir(n)'
    BY <1>2 DEF ListingHoldsWhatStood, Lists
  <2>2. target \in Node
    BY <1>1, <2>1 DEF TypeOK
  <2>3. /\ Stood(n, steady) /\ InScope(n) /\ (Exists(n)' <=> Exists(n)) /\ IsDir(n)' = IsDir(n)
    BY <1>1, <1>2, <2>1, <2>2, StoodBefore
  <2> QED
    BY <1>1, <2>1, <2>3 DEF ListingHoldsWhatStood
<1>24. ParentsFirst'
  BY <1>1, <1>2, <1>7 DEF ParentsFirst, RelPath
<1> QED
  BY <1>8, <1>9, <1>10, <1>11, <1>12, <1>13, <1>14, <1>15, <1>16, <1>17, <1>18, <1>21, <1>22,
     <1>23, <1>24 DEF CatalogInv, Answers
-----------------------------------------------------------------------------
(* At first, and when nothing happens. *)
LEMMA TreeAtFirst ==
  ASSUME Init
  PROVE  TreeInv
<1>1. disk \in InitDisks
  BY DEF Init
<1>2. \A n \in Node : Len(n) > 1 /\ Exists(n) => StatDir(Front(n)) \/ Front(n) \notin Node
  BY <1>1, CatalogAssumption DEF Exists, StatDir
<1>3. ASSUME NEW n \in Node, Exists(n) PROVE \A i \in 1..Len(n) - 1 : StatDir(Up(n, i))
  <2> DEFINE T == { j \in 1..Len(n) : j < Len(n) /\ ~ StatDir(Up(n, Len(n) - j)) }
  <2>1. n \in Place /\ Len(n) \in Nat \ {0} /\ Up(n, Len(n)) = n
    BY NodeFacts
  <2>2. T = {}
    <3>1. SUFFICES ASSUME T # {} PROVE FALSE
      OBVIOUS
    <3>2. PICK j \in T : \A x \in T : j <= x
      <4>1. T \subseteq 1..Len(n) /\ Len(n) \in Nat
        BY <2>1
      <4> HIDE DEF T
      <4> QED
        BY <3>1, <4>1, Least
    <3>3. /\ j \in 1..Len(n) /\ j < Len(n) /\ ~ StatDir(Up(n, Len(n) - j))
          /\ j - 1 \notin T
      BY <2>1, <3>2
    <3> DEFINE i == Len(n) - j
               m == Up(n, i + 1)
    <3>4. /\ i \in 1..Len(n) - 1 /\ i \in 1..Len(n) /\ i + 1 \in 1..Len(n)
          /\ i + 1 \in 0..Len(n) /\ i \in 0..i + 1
      BY <2>1, <3>3
    <3>5. m \in Node /\ Len(m) = i + 1 /\ Up(n, i) \in Node
      BY <3>4, NodeFacts
    <3>6. Exists(m)
      <4>1. CASE j = 1
        <5>1. i + 1 = Len(n)
          BY <2>1, <4>1
        <5> QED
          BY <1>3, <2>1, <5>1
      <4>2. CASE j # 1
        <5>1. j - 1 \in 1..Len(n) /\ j - 1 < Len(n) /\ Len(n) - (j - 1) = i + 1
          BY <2>1, <3>3, <4>2
        <5>2. StatDir(m)
          BY <3>3, <5>1
        <5> QED
          BY <5>2 DEF StatDir, Exists
      <4> QED
        BY <4>1, <4>2
    <3>7. Front(m) = Up(n, i)
      <4>1. Up(m, i) = Up(n, i)
        BY <2>1, <3>4, UpUp DEF Place
      <4>2. Len(m) - 1 = i
        BY <3>4, <3>5
      <4> QED
        BY <4>1, <4>2 DEF Front, Up
    <3>8. Len(m) > 1
      BY <2>1, <3>4, <3>5
    <3>9. StatDir(Up(n, i))
      BY <1>2, <3>5, <3>6, <3>7, <3>8
    <3> QED
      BY <3>3, <3>9
  <2>3. ASSUME NEW i \in 1..Len(n) - 1 PROVE StatDir(Up(n, i))
    <3>1. Len(n) - i \in 1..Len(n) /\ Len(n) - i < Len(n) /\ Len(n) - (Len(n) - i) = i
      BY <2>1
    <3>2. Len(n) - i \notin T
      BY <2>2
    <3> QED
      BY <3>1, <3>2
  <2> QED
    BY <2>3
<1> QED
  BY <1>3 DEF TreeInv

(* At first, nothing was asked and the tree is one of the given ones. *)
LEMMA InvAtFirst == Init => CatalogInv
<1> SUFFICES ASSUME Init PROVE CatalogInv
  OBVIOUS
<1>1. /\ rootNames \in Namings /\ disk \in InitDisks /\ pc = "idle"
      /\ how = "browse" /\ path = <<>> /\ shown = <<>> /\ meant = NoNode
      /\ k = 1 /\ target = NoNode /\ pending = <<>> /\ dirs = {} /\ listing = <<>>
      /\ answer = "page" /\ page = RootPage /\ steady = Node /\ pageSteady = Node /\ edits = 0
  BY DEF Init
<1>2. NumRoots \in Nat \ {0} /\ \A i \in 1..NumRoots : << i >> \in Node
  <2>1. rootNames \in Seq(Name) /\ rootNames # <<>>
    BY <1>1, CatalogAssumption
  <2>2. NumRoots \in Nat \ {0}
    BY <2>1, EmptySeq DEF NumRoots
  <2> QED
    BY <1>1, <2>2, CatalogAssumption DEF NumRoots
<1>3. TypeOK
  <2>1. RootEntries \in Seq(Listed)
    <3>1. RootEntries \in [1..NumRoots -> Listed]
      BY <1>2 DEF RootEntries, Listed
    <3> QED
      BY <1>2, <3>1, SeqDef
  <2>2. page \in [path : Seq(Name), target : Node \cup {NoNode}, entries : Seq(Listed)]
    <3>1. <<>> \in Seq(Name)
      OBVIOUS
    <3> QED
      BY <1>1, <2>1, <3>1 DEF RootPage
  <2>3. disk \in [Node -> Kind]
    BY <1>1, CatalogAssumption
  <2>4. k \in 1..NumRoots + 1
    BY <1>1, <1>2
  <2>5. edits \in 0..MaxEdits
    BY <1>1, CatalogAssumption
  <2>6. pending \in Seq(Node) /\ listing \in Seq(Listed) /\ path \in Seq(Name) /\ shown \in Seq(Name)
    BY <1>1
  <2> QED
    BY <1>1, <2>2, <2>3, <2>4, <2>5, <2>6 DEF TypeOK
<1>4. TreeInv
  BY TreeAtFirst
<1>5. PlaceInv
  BY <1>1 DEF PlaceInv
<1>6. PageInv
  BY <1>1 DEF PageInv, RootPage
<1>7. LinkInv
  BY <1>1 DEF LinkInv
<1>8. SearchInv
  BY <1>1 DEF SearchInv, OverHttp
<1>9. TargetInv /\ SeenInv /\ InfoInv /\ WalkInv
  BY <1>1 DEF TargetInv, SeenInv, InfoInv, WalkInv
<1>10. Answers
  BY <1>1 DEF Answers, LinksLead, ServersAgree, FoundIfThere, ListingHoldsWhatStood, ParentsFirst
<1> QED
  BY <1>3, <1>4, <1>5, <1>6, <1>7, <1>8, <1>9, <1>10 DEF CatalogInv

(* A step in which nothing changes. *)
LEMMA InvStays ==
  ASSUME CatalogInv, UNCHANGED vars
  PROVE  CatalogInv'
<1>1. /\ TypeOK /\ TreeInv /\ PlaceInv /\ PageInv /\ LinkInv /\ SearchInv /\ TargetInv
      /\ SeenInv /\ InfoInv /\ WalkInv
      /\ LinksLead /\ ServersAgree /\ FoundIfThere /\ ListingHoldsWhatStood /\ ParentsFirst
  BY DEF CatalogInv, Answers
<1>2. UNCHANGED <<rootNames, disk, pc, how, path, shown, meant, k, target, pending, dirs,
                  listing, answer, page, steady, pageSteady, edits>>
  BY DEF vars
<1>3. TypeOK' /\ PlaceInv'
  BY <1>1, <1>2, RootsStay DEF TypeOK, Listed, PlaceInv, ListsAll
<1>4. TreeInv' /\ PageInv'
  BY <1>1, <1>2, DiskStays, PageStays
<1>5. LinkInv' /\ LinksLead'
  <2>1. PathOf(meant)' = PathOf(meant) /\ FirstNamed(shown[1])' = FirstNamed(shown[1])
    BY <1>2 DEF PathOf, FirstNamed, NumRoots
  <2>2. /\ (Exists(meant)' <=> Exists(meant)) /\ (StatDir(meant)' <=> StatDir(meant))
        /\ (StatFinds(meant)' <=> StatFinds(meant))
    BY <1>2 DEF Exists, StatDir, StatFinds
  <2> QED
    BY <1>1, <1>2, <2>1, <2>2 DEF LinkInv, LinksLead, OverHttp
<1>6. /\ Candidate' = Candidate /\ (KnownRoot' <=> KnownRoot) /\ \A i : Below(i)' = Below(i)
      /\ \A i : Passed(i)' <=> Passed(i)
      /\ NumRoots' = NumRoots /\ (OverHttp' <=> OverHttp) /\ (Resolves' <=> Resolves)
  BY <1>2, SearchStays, RootsStay DEF OverHttp, Resolves, Below
<1>7. SearchInv'
  BY <1>1, <1>2, <1>6 DEF SearchInv
<1>8. TargetInv' /\ SeenInv'
  BY <1>1, <1>2 DEF TargetInv, SeenInv, StatDir, Exists, IsDir, Up
<1>9. \A n : /\ (Exists(n)' <=> Exists(n)) /\ IsDir(n)' = IsDir(n) /\ (Lists(n)' <=> Lists(n))
             /\ (Waits(n)' <=> Waits(n)) /\ (MayWait(n)' <=> MayWait(n))
             /\ (WillBeSeen(n)' <=> WillBeSeen(n)) /\ (InScope(n)' <=> InScope(n))
             /\ (StatDir(n)' <=> StatDir(n))
  BY <1>2 DEF Exists, IsDir, Lists, Waits, MayWait, ParentSeen, WillBeSeen, InScope, ListsAll, StatDir
<1>10. InfoInv'
  BY <1>1, <1>2, <1>9 DEF InfoInv
<1>11. WalkInv'
  BY <1>1, <1>2, <1>9 DEF WalkInv, Ordered, MayWait, ParentSeen, Exists, IsDir
<1>12. ListingHoldsWhatStood' /\ ParentsFirst'
  BY <1>1, <1>2, <1>9 DEF ListingHoldsWhatStood, ParentsFirst, ListsAll, RelPath
<1>13. /\ Named(path[1])' <=> Named(path[1])
       /\ FirstNamed(path[1])' = FirstNamed(path[1])
       /\ Servable(Candidate)' <=> Servable(Candidate)
       /\ \A i : StatDir(Below(i))' <=> StatDir(Below(i))
       /\ StatDir(<< target[1] >>)' <=> StatDir(<< target[1] >>)
  BY <1>2, <1>6 DEF Named, FirstNamed, NumRoots, StatDir, Servable, StatFinds
<1>14. ServersAgree' /\ FoundIfThere'
  BY <1>1, <1>2, <1>6, <1>13 DEF ServersAgree, FoundIfThere
<1> QED
  BY <1>3, <1>4, <1>5, <1>7, <1>8, <1>10, <1>11, <1>12, <1>14 DEF CatalogInv, Answers

(* A step of either server. *)
LEMMA HandlerStep ==
  ASSUME CatalogInv, Handler
  PROVE  CatalogInv'
<1>1. HttpFound => how \in {"browse", "download"}
  BY DEF HttpFound, OverHttp
<1> QED
  BY <1>1, BrowseRootsStep, NotFoundStep, ServeStep, BrowseStep, ResolveStep, NotBelowRootStep,
     NotAccessibleStep, ReadDirStep, ReadDirFailsStep, InfoStep, ShowPageStep, SendListingStep,
     LstatStep, ReadNamesStep, WalkFailsStep DEF Handler
-----------------------------------------------------------------------------
(* All of it: types, what the page and its links know, how far the search    *)
(* and the walk have come, and what the answers promise.                    *)
THEOREM CatalogInvariant == Spec => []CatalogInv
<1>1. Init => CatalogInv
  BY InvAtFirst
<1>2. CatalogInv /\ [Next]_vars => CatalogInv'
  BY RequestStep, HandlerStep, EditStep, InvStays DEF Next
<1> QED
  BY <1>1, <1>2, PTL DEF Spec

(* A link leads to what it was made for, if nobody touched that, unless an  *)
(* earlier root bears its root's name, a browse link holds a #, a ? or a    *)
(* valid %XX, or what a download link stands for is a link that leads       *)
(* nowhere.                                                                 *)
THEOREM LinksLeadThere == Spec => []LinksLead
<1>1. CatalogInv => LinksLead
  BY DEF CatalogInv, Answers
<1> QED
  BY <1>1, CatalogInvariant, PTL

(* The listing of a name is of the root that the browser shows under it, or *)
(* of a directory of that name below it or below an earlier root.           *)
THEOREM ListsWhatIsBrowsed == Spec => []ServersAgree
<1>1. CatalogInv => ServersAgree
  BY DEF CatalogInv, Answers
<1> QED
  BY <1>1, CatalogInvariant, PTL

(* Neither server denies or fails to read what was there all the time.      *)
THEOREM WhatStoodIsFound == Spec => []FoundIfThere
<1>1. CatalogInv => FoundIfThere
  BY DEF CatalogInv, Answers
<1> QED
  BY <1>1, CatalogInvariant, PTL

(* However the tree changes under the listing, whoever stood is listed as    *)
(* what it is.                                                              *)
THEOREM WhatStoodIsListed == Spec => []ListingHoldsWhatStood
<1>1. CatalogInv => ListingHoldsWhatStood
  BY DEF CatalogInv, Answers
<1> QED
  BY <1>1, CatalogInvariant, PTL

(* A listing of all levels, sorted as it is, holds the directory of every   *)
(* entry, and before the entry, but for the listed directory itself and     *)
(* those right below it whose names sort before ".".                        *)
THEOREM DirectoriesFirst == Spec => []ParentsFirst
<1>1. CatalogInv => ParentsFirst
  BY DEF CatalogInv, Answers
<1> QED
  BY <1>1, CatalogInvariant, PTL
=============================================================================
