----------------------------- MODULE ArgsProofs -----------------------------
(***************************************************************************)
(* What becomes of a command line, proved for every set of flags and words *)
(* and for lines of every length: reorderArgs loses nothing                *)
(* (NothingIsLost), a root that was named is not forgotten                 *)
(* (RootsAreHonoured), and a plain line is run as it reads                 *)
(* (PlainLinesMeanWhatTheySay).                                            *)
(***************************************************************************)
EXTENDS Args, FiniteSetTheorems, SequenceTheorems, TLAPS

(* What reorderArgs has not looked at. *)
Remaining == SubSeq(args, i, Len(args))

-----------------------------------------------------------------------------
(* The kinds of arguments are told apart. *)
LEMMA Kinds ==
  /\ \A a \in Words : /\ a \notin Dashed /\ a \notin Flags /\ a \notin Negatives
                      /\ a # Dash /\ a # DashDash
  /\ \A a \in Flags : /\ a \notin Words /\ a \notin Negatives /\ a # Dash /\ a # DashDash
                      /\ a \in Dashed /\ a \in Argument /\ LooksLikeFlag(a)
  /\ \A a \in Valued : a \notin Complete
  /\ \A a \in Argument : a \in Words \/ a \in Dashed
BY ArgsAssumption DEF Dashed, Flags, Argument, LooksLikeFlag, isBareValue

(* Lines of one argument and of two. *)
LEMMA OneOrTwo ==
  ASSUME NEW a \in Argument, NEW b \in Argument
  PROVE  <<a>> \in Seq(Argument) /\ << a, b >> \in Seq(Argument)
         /\ Len(<<a>>) = 1 /\ Len(<< a, b >>) = 2
OBVIOUS

(* One argument behind another. *)
LEMMA TwoJoined ==
  ASSUME NEW a \in Argument, NEW b \in Argument
  PROVE  <<a>> \o <<b>> = << a, b >>
<1>1. /\ <<a>> \in Seq(Argument) /\ <<b>> \in Seq(Argument) /\ << a, b >> \in Seq(Argument)
      /\ Len(<<a>>) = 1 /\ Len(<<b>>) = 1 /\ Len(<< a, b >>) = 2
  BY OneOrTwo
<1>2. /\ <<a>> \o <<b>> \in Seq(Argument) /\ Len(<<a>> \o <<b>>) = 1 + 1
      /\ \A j \in 1..1 + 1 : (<<a>> \o <<b>>)[j] = IF j <= 1 THEN <<a>>[j] ELSE <<b>>[j - 1]
  BY <1>1, ConcatProperties
<1>3. (<<a>> \o <<b>>)[1] = a /\ (<<a>> \o <<b>>)[2] = b
  BY <1>2
<1>4. \A j \in 1..2 : (<<a>> \o <<b>>)[j] = << a, b >>[j]
  BY <1>3
<1>5. Len(<<a>> \o <<b>>) = Len(<< a, b >>)
      /\ \A j \in 1..Len(<<a>> \o <<b>>) : (<<a>> \o <<b>>)[j] = << a, b >>[j]
  BY <1>1, <1>2, <1>4
<1> DEFINE u == <<a>> \o <<b>>
           v == << a, b >>
<1>6. u \in Seq(Argument) /\ v \in Seq(Argument)
  BY <1>1, <1>2
<1>7. Len(u) = Len(v) /\ \A j \in 1..Len(u) : u[j] = v[j]
  BY <1>5
<1> HIDE DEF u, v
<1>8. u = v
  BY <1>6, <1>7, SeqEqual
<1> QED
  BY <1>8 DEF u, v

(* The first argument of what is left of a line, and the rest. *)
LEMMA CutOne ==
  ASSUME NEW s \in Seq(Argument), NEW k \in 1..Len(s)
  PROVE  /\ s[k] \in Argument /\ SubSeq(s, k + 1, Len(s)) \in Seq(Argument)
         /\ SubSeq(s, k, Len(s)) = <<s[k]>> \o SubSeq(s, k + 1, Len(s))
<1>1. Len(s) \in Nat /\ \A j \in 1..Len(s) : s[j] \in Argument
  BY LenProperties, ElementOfSeq
<1>2. Len(s) \in k..Len(s) /\ k + 1 \in Int /\ Len(s) \in Int
      /\ \A j \in k + 1..Len(s) : s[j] \in Argument
  BY <1>1
<1>3. SubSeq(s, k + 1, Len(s)) \in Seq(Argument)
  BY <1>2, SubSeqProperties
<1> QED
  BY <1>1, <1>2, <1>3, SubSeqRecursiveFirst

(* The first two, and the rest. *)
LEMMA CutTwo ==
  ASSUME NEW s \in Seq(Argument), NEW k \in 1..Len(s), k < Len(s)
  PROVE  /\ s[k] \in Argument /\ s[k + 1] \in Argument
         /\ SubSeq(s, k + 2, Len(s)) \in Seq(Argument)
         /\ SubSeq(s, k, Len(s)) = << s[k], s[k + 1] >> \o SubSeq(s, k + 2, Len(s))
<1>1. Len(s) \in Nat /\ k + 1 \in 1..Len(s) /\ k + 1 + 1 = k + 2
  BY LenProperties
<1>2. /\ s[k] \in Argument /\ SubSeq(s, k, Len(s)) = <<s[k]>> \o SubSeq(s, k + 1, Len(s))
  BY CutOne
<1>3. /\ s[k + 1] \in Argument /\ SubSeq(s, k + 2, Len(s)) \in Seq(Argument)
      /\ SubSeq(s, k + 1, Len(s)) = <<s[k + 1]>> \o SubSeq(s, k + 2, Len(s))
  BY <1>1, CutOne
<1>4. <<s[k]>> \o (<<s[k + 1]>> \o SubSeq(s, k + 2, Len(s)))
        = (<<s[k]>> \o <<s[k + 1]>>) \o SubSeq(s, k + 2, Len(s))
  BY <1>2, <1>3, OneOrTwo, ConcatAssociative
<1>5. <<s[k]>> \o <<s[k + 1]>> = << s[k], s[k + 1] >>
  BY <1>2, <1>3, TwoJoined
<1> QED
  BY <1>2, <1>3, <1>4, <1>5

(* What is left of a command line once k arguments were taken. *)
LEMMA CutBehind ==
  ASSUME NEW s \in Seq(Argument), NEW k \in 1..Len(s) + 1
  PROVE  SubSeq(s, k, Len(s)) \in Seq(Argument)
<1>1. Len(s) \in Nat /\ k \in Int /\ \A j \in k..Len(s) : s[j] \in Argument
  BY LenProperties, ElementOfSeq
<1>2. Len(s) \in Int
  BY <1>1
<1> QED
  BY <1>1, <1>2, SubSeqProperties

(* A line without arguments. *)
LEMMA EmptyLine ==
  /\ \A S : <<>> \in Seq(S) /\ Len(<<>>) = 0
  /\ \A s \in Seq(Argument) : s \o <<>> = s /\ <<>> \o s = s
BY EmptySeq, ConcatEmptySeq

-----------------------------------------------------------------------------
(* The types hold at first, and every step keeps them. *)
LEMMA ArgsAtFirst == Init => TypeOK
<1> SUFFICES ASSUME Init PROVE TypeOK
  OBVIOUS
<1>1. args \in Seq(Argument)
  <2>1. PICK n \in 0..MaxArgs : args \in [1..n -> Argument]
    BY DEF Init, CommandLines
  <2>2. n \in Nat
    BY <2>1, ArgsAssumption
  <2> QED
    BY <2>1, <2>2, SeqDef
<1>2. Len(args) \in Nat
  BY <1>1, LenProperties
<1>3. 1 \in 1..Len(args) + 1
  BY <1>2
<1>4. outcome.do = "exit"
  BY DEF Init, Exit
<1> QED
  BY <1>1, <1>3, <1>4, EmptyLine, Zenon DEF Init, TypeOK

(* Reordering keeps the types. *)
LEMMA ReorderType ==
  ASSUME TypeOK, Reorder
  PROVE  TypeOK'
<1>1. /\ args \in Seq(Argument) /\ i \in 1..Len(args) + 1 /\ Len(args) \in Nat
      /\ flags \in Seq(Argument) /\ positional \in Seq(Argument)
  BY LenProperties DEF TypeOK
<1>2. UNCHANGED <<cmd, args, rest, opts, pc, outcome>>
  BY DEF Reorder
<1>3. /\ i' \in 1..Len(args) + 1 /\ flags' \in Seq(Argument)
      /\ positional' \in Seq(Argument)
  <2>1. CASE AtDashDash
    <3>1. Remaining \in Seq(Argument)
      BY <1>1, CutBehind DEF Remaining
    <3>2. positional \o Remaining \in Seq(Argument)
      BY <1>1, <3>1, ConcatProperties
    <3>3. positional' = positional \o Remaining /\ i' = Len(args) + 1 /\ flags' = flags
      BY <2>1 DEF AtDashDash, Remaining
    <3> QED
      BY <1>1, <3>2, <3>3
  <2>2. CASE FlagAndValue
    <3>1. /\ i < Len(args) /\ i' = i + 2 /\ flags' = flags \o << args[i], args[i + 1] >>
          /\ positional' = positional
      BY <2>2 DEF FlagAndValue, ValueFollows
    <3>2. << args[i], args[i + 1] >> \in Seq(Argument)
      <4>1. i \in 1..Len(args)
        BY <1>1, <3>1
      <4> QED
        BY <1>1, <3>1, <4>1, CutTwo, OneOrTwo
    <3>3. flags' \in Seq(Argument)
      BY <1>1, <3>1, <3>2, ConcatProperties
    <3> QED
      BY <1>1, <3>1, <3>3
  <2>3. CASE FlagAlone \/ Positional
    <3>1. i \in 1..Len(args) /\ i' = i + 1 /\ args[i] \in Argument
      BY <1>1, <2>3, ElementOfSeq DEF FlagAlone, Positional
    <3>2. \/ flags' = Append(flags, args[i]) /\ positional' = positional
          \/ flags' = flags /\ positional' = Append(positional, args[i])
      BY <2>3 DEF FlagAlone, Positional
    <3>3. /\ Append(flags, args[i]) \in Seq(Argument)
          /\ Append(positional, args[i]) \in Seq(Argument)
      BY <1>1, <3>1, AppendProperties, Zenon
    <3>4. i' \in 1..Len(args) + 1
      BY <1>1, <3>1
    <3> QED
      BY <1>1, <3>2, <3>3, <3>4, Zenon
  <2> QED
    BY <2>1, <2>2, <2>3 DEF Reorder
<1> QED
  BY <1>2, <1>3 DEF TypeOK

(* So does parsing; what is set is a flag. *)
LEMMA ParseType ==
  ASSUME TypeOK, Parse
  PROVE  TypeOK'
<1>1. rest \in Seq(Argument) /\ opts \in Seq(Flags \X Argument)
  BY DEF TypeOK
<1>2. UNCHANGED <<cmd, args, i, flags, positional>>
  BY DEF Parse
<1>3. ASSUME ~ Stops
      PROVE  /\ 1 \in 1..Len(rest) /\ rest[1] \in Argument /\ Tail(rest) \in Seq(Argument)
             /\ Len(rest) \in Nat
  <2>1. rest # <<>> /\ Len(rest) \in Nat \ {0}
    BY <1>1, <1>3, EmptySeq DEF Stops
  <2> QED
    BY <1>1, <2>1, ElementOfSeq, HeadTailProperties
<1>4. CASE Stops
  BY <1>2, <1>4 DEF Parse, TypeOK
<1>5. CASE ~ Stops /\ SetComplete
  <2>1. rest[1] \in Flags
    BY <1>5 DEF SetComplete, Flags
  <2>2. << rest[1], rest[1] >> \in Flags \X Argument
    BY <1>3, <1>5, <2>1
  <2>3. opts' \in Seq(Flags \X Argument) /\ rest' \in Seq(Argument)
    BY <1>1, <1>3, <1>5, <2>2, AppendProperties DEF SetComplete
  <2> QED
    BY <1>2, <1>5, <2>3 DEF SetComplete, TypeOK
<1>6. CASE ~ Stops /\ SetValued
  <2>1. rest[1] \in Flags /\ Len(rest) > 1
    BY <1>6 DEF SetValued, Flags, HasValue
  <2>2. Len(rest) \in Nat /\ 2 \in 1..Len(rest) /\ 3 \in 1..Len(rest) + 1
    BY <1>3, <1>6, <2>1
  <2>3. rest[2] \in Argument
    BY <1>1, <2>2, ElementOfSeq
  <2>4. << rest[1], rest[2] >> \in Flags \X Argument
    BY <2>1, <2>3
  <2>5. SubSeq(rest, 3, Len(rest)) \in Seq(Argument)
    BY <1>1, <2>2, CutBehind
  <2>6. opts' \in Seq(Flags \X Argument) /\ rest' \in Seq(Argument)
    BY <1>1, <1>6, <2>4, <2>5, AppendProperties DEF SetValued
  <2> QED
    BY <1>2, <1>6, <2>6 DEF SetValued, TypeOK
<1>7. CASE ~ Stops /\ ParseFails
  <2>1. outcome'.do = "exit"
    BY <1>7 DEF ParseFails, Exit
  <2> QED
    BY <1>2, <1>7, <2>1 DEF ParseFails, TypeOK
<1>8. CASE ~ Stops /\ EndOfFlags
  BY <1>2, <1>3, <1>8 DEF EndOfFlags, TypeOK
<1> QED
  BY <1>4, <1>5, <1>6, <1>7, <1>8 DEF Parse

(* What a command can do. *)
LEMMA CommandType ==
  ASSUME cmd \in {"serve", "pull", "list"}
  PROVE  /\ Command(opts, rest).do \in {"exit", "serve", "serve cwd", "pull", "list"}
         /\ Command(opts, rest).do = "serve cwd" =>
              cmd = "serve" /\ Given(opts, "rootDirs") = <<>>
<1>1. CASE cmd = "serve"
  BY <1>1 DEF Command, Serve, Exit
<1>2. CASE cmd # "serve"
  BY <1>2 DEF Command, Transfer, Exit
<1> QED
  BY <1>1, <1>2

(* So do all steps. *)
LEMMA ArgsTypeStep == TypeOK /\ [Next]_vars => TypeOK'
<1> SUFFICES ASSUME TypeOK, [Next]_vars PROVE TypeOK'
  OBVIOUS
<1>1. CASE Reordered
  <2>1. rest' \in Seq(Argument)
    BY <1>1, ConcatProperties DEF Reordered, Result, TypeOK
  <2> QED
    BY <1>1, <2>1 DEF Reordered, TypeOK
<1>2. CASE Dispatch
  <2>1. outcome'.do \in {"exit", "serve", "serve cwd", "pull", "list"}
    <3>1. outcome' = Command(opts, rest) /\ cmd \in {"serve", "pull", "list"}
      BY <1>2 DEF Dispatch, TypeOK
    <3>2. Command(opts, rest).do \in {"exit", "serve", "serve cwd", "pull", "list"}
      BY <3>1, CommandType
    <3> QED
      BY <3>1, <3>2, Zenon
  <2> QED
    BY <1>2, <2>1 DEF Dispatch, TypeOK
<1>3. CASE UNCHANGED vars
  BY <1>3 DEF vars, TypeOK
<1> QED
  BY <1>1, <1>2, <1>3, ReorderType, ParseType DEF Next

(* Every variable keeps its type, for lines of any length. *)
THEOREM ArgsTypesCorrect == Spec => []TypeOK
BY ArgsAtFirst, ArgsTypeStep, PTL DEF Spec
-----------------------------------------------------------------------------
(* How often an argument occurs in two lines, one behind the other. *)
Places(a, s) == { k \in 1..Len(s) : s[k] = a }

(* An argument occurs finitely often. *)
LEMMA PlacesFinite ==
  ASSUME NEW a, NEW s \in Seq(Argument)
  PROVE  /\ IsFiniteSet(Places(a, s)) /\ Times(a, s) = Cardinality(Places(a, s))
         /\ Times(a, s) \in Nat
<1>1. Len(s) \in Nat
  BY LenProperties
<1>2. IsFiniteSet(1..Len(s))
  BY <1>1, FS_Interval
<1>3. Places(a, s) \in SUBSET (1..Len(s))
  BY DEF Places
<1>4. IsFiniteSet(Places(a, s))
  BY <1>2, <1>3, FS_Subset
<1>5. Times(a, s) = Cardinality(Places(a, s))
  BY DEF Times, Places
<1> QED
  BY <1>4, <1>5, FS_CardinalityType

(* Joining two lines adds up how often it occurs. *)
LEMMA TimesJoin ==
  ASSUME NEW a, NEW s \in Seq(Argument), NEW t \in Seq(Argument)
  PROVE  Times(a, s \o t) = Times(a, s) + Times(a, t)
<1>1. PICK m \in Nat, n \in Nat : m = Len(s) /\ n = Len(t)
  BY LenProperties
<1> DEFINE u == s \o t
           I == Places(a, s)
           J == Places(a, t)
           K == { k \in Places(a, u) : k > m }
           f == [k \in J |-> m + k]
<1>2. /\ u \in Seq(Argument) /\ Len(u) = m + n
      /\ \A k \in 1..m + n : u[k] = IF k <= m THEN s[k] ELSE t[k - m]
  BY <1>1, ConcatProperties
<1> HIDE DEF u
<1>3. Places(a, u) = I \cup K
  <2>1. ASSUME NEW k \in 1..m PROVE k \in 1..m + n /\ u[k] = s[k]
    BY <1>2
  <2>2. ASSUME NEW k \in 1..m + n, ~ (k > m) PROVE k \in 1..m
    BY <2>2
  <2> QED
    BY <1>1, <1>2, <2>1, <2>2 DEF Places
<1>4. I \cap K = {}
  <2>1. \A k \in 1..m : ~ (k > m)
    OBVIOUS
  <2> QED
    BY <1>1, <2>1 DEF Places
<1>5. f \in Bijection(J, K)
  <2>1. ASSUME NEW k \in 1..n PROVE m + k \in 1..m + n /\ m + k > m /\ u[m + k] = t[k]
    <3>1. m + k \in 1..m + n /\ ~ (m + k <= m) /\ m + k - m = k /\ m + k > m
      OBVIOUS
    <3> QED
      BY <1>2, <3>1
  <2>2. \A k \in J : k \in 1..n /\ t[k] = a
    BY <1>1 DEF Places
  <2>3. \A k \in J : m + k \in K
    BY <1>2, <2>1, <2>2 DEF Places
  <2>4. ASSUME NEW k \in K PROVE k - m \in J /\ f[k - m] = k
    <3>1. k \in 1..m + n /\ k > m /\ u[k] = a
      BY <1>2 DEF Places
    <3>2. k - m \in 1..n /\ m + (k - m) = k
      BY <3>1
    <3>3. t[k - m] = a
      BY <2>1, <3>1, <3>2
    <3>4. k - m \in J
      BY <1>1, <3>2, <3>3 DEF Places
    <3> QED
      BY <3>2, <3>4
  <2>5. \A k, l \in J : f[k] = f[l] => k = l
    BY <2>2
  <2>6. f \in [J -> K]
    BY <2>3
  <2>7. f \in Injection(J, K)
    BY <2>5, <2>6 DEF Injection, IsInjective
  <2>8. f \in Surjection(J, K)
    BY <2>4, <2>6 DEF Surjection
  <2> QED
    BY <2>7, <2>8 DEF Bijection
<1> HIDE DEF I, J, K, f
<1>6. IsFiniteSet(I) /\ IsFiniteSet(J)
  BY PlacesFinite DEF I, J
<1>7. ExistsBijection(J, K)
  BY <1>5 DEF ExistsBijection
<1>8. IsFiniteSet(K) /\ Cardinality(K) = Cardinality(J)
  BY <1>6, <1>7, FS_Bijection
<1>9. Cardinality(I \cup K) = Cardinality(I) + Cardinality(K) - Cardinality(I \cap K)
  BY <1>6, <1>8, FS_Union
<1>10. Cardinality(I) \in Nat /\ Cardinality(K) \in Nat
  BY <1>6, <1>8, FS_CardinalityType
<1>11. Cardinality(I \cup K) = Cardinality(I) + Cardinality(J)
  <2>1. Cardinality(I \cap K) = 0
    BY <1>4, FS_EmptySet, Zenon
  <2> QED
    BY <1>8, <1>9, <1>10, <2>1
<1>12. /\ Times(a, u) = Cardinality(Places(a, u)) /\ Times(a, s) = Cardinality(I)
       /\ Times(a, t) = Cardinality(J)
  BY <1>2, PlacesFinite DEF I, J
<1> QED
  BY <1>3, <1>11, <1>12 DEF u

(* The four lines of a step: what is moved goes to the one or the other.    *)
LEMMA TimesMoved ==
  ASSUME NEW a, NEW f \in Seq(Argument), NEW p \in Seq(Argument), NEW m \in Seq(Argument),
         NEW r \in Seq(Argument)
  PROVE  /\ Times(a, (f \o m) \o p) + Times(a, r) = Times(a, f \o p) + Times(a, m \o r)
         /\ Times(a, f \o (p \o m)) + Times(a, r) = Times(a, f \o p) + Times(a, m \o r)
<1>1. f \o m \in Seq(Argument) /\ p \o m \in Seq(Argument)
  BY ConcatProperties
<1>2. /\ Times(a, (f \o m) \o p) = Times(a, f \o m) + Times(a, p)
      /\ Times(a, f \o (p \o m)) = Times(a, f) + Times(a, p \o m)
  BY <1>1, TimesJoin, Zenon
<1>3. /\ Times(a, f \o m) = Times(a, f) + Times(a, m)
      /\ Times(a, p \o m) = Times(a, p) + Times(a, m)
      /\ Times(a, f \o p) = Times(a, f) + Times(a, p)
      /\ Times(a, m \o r) = Times(a, m) + Times(a, r)
  BY TimesJoin, Zenon
<1>4. f \o p \in Seq(Argument) /\ m \o r \in Seq(Argument)
  BY ConcatProperties
<1>5. /\ Times(a, f) \in Nat /\ Times(a, p) \in Nat
      /\ Times(a, m) \in Nat /\ Times(a, r) \in Nat
      /\ Times(a, f \o m) \in Nat /\ Times(a, p \o m) \in Nat
      /\ Times(a, f \o p) \in Nat /\ Times(a, m \o r) \in Nat
  BY <1>1, <1>4, PlacesFinite, Zenon
<1> DEFINE tf == Times(a, f)           tp == Times(a, p)
           tm == Times(a, m)           tr == Times(a, r)
           tfm == Times(a, f \o m)     tpm == Times(a, p \o m)
           tfp == Times(a, f \o p)     tmr == Times(a, m \o r)
           tfmp == Times(a, (f \o m) \o p)
           tfpm == Times(a, f \o (p \o m))
<1>6. /\ tfmp = tfm + tp /\ tfpm = tf + tpm
      /\ tfm = tf + tm /\ tpm = tp + tm /\ tfp = tf + tp /\ tmr = tm + tr
      /\ tf \in Nat /\ tp \in Nat /\ tm \in Nat /\ tr \in Nat
  BY <1>2, <1>3, <1>5, Zenon
<1>7. tfmp + tr = tfp + tmr /\ tfpm + tr = tfp + tmr
  <2> HIDE DEF tf, tp, tm, tr, tfm, tpm, tfp, tmr, tfmp, tfpm
  <2> QED
    BY <1>6
<1> QED
  BY <1>7, Zenon

(* A step of the loop takes one or two arguments, or all, and moves them to *)
(* the end of the flags or of the positional arguments.                     *)
LEMMA ReorderMoves ==
  ASSUME TypeOK, Reorder
  PROVE  \E m \in Seq(Argument) :
           /\ Remaining = m \o Remaining' /\ Remaining' \in Seq(Argument)
           /\ \/ flags' = flags \o m /\ positional' = positional
              \/ flags' = flags /\ positional' = positional \o m
<1>1. /\ args \in Seq(Argument) /\ i \in 1..Len(args) + 1 /\ Len(args) \in Nat
      /\ flags \in Seq(Argument) /\ positional \in Seq(Argument) /\ args' = args
      /\ Remaining' = SubSeq(args, i', Len(args))
  BY LenProperties DEF TypeOK, Reorder, Remaining
<1>2. CASE AtDashDash
  <2>1. /\ positional' = positional \o Remaining /\ i' = Len(args) + 1 /\ flags' = flags
    BY <1>2 DEF AtDashDash, Remaining
  <2>2. Remaining \in Seq(Argument)
    BY <1>1, CutBehind DEF Remaining
  <2>3. Remaining' = <<>>
    <3>1. Len(args) + 1 \in Int /\ Len(args) \in Int /\ Len(args) < Len(args) + 1
      BY <1>1
    <3> QED
      BY <1>1, <2>1, <3>1, SubSeqEmpty
  <2>4. Remaining = Remaining \o Remaining' /\ Remaining' \in Seq(Argument)
    BY <2>2, <2>3, EmptyLine
  <2> QED
    BY <2>1, <2>2, <2>4
<1>3. CASE FlagAndValue
  <2>1. /\ i < Len(args) /\ i' = i + 2 /\ flags' = flags \o << args[i], args[i + 1] >>
        /\ positional' = positional
    BY <1>3 DEF FlagAndValue, ValueFollows
  <2>2. i \in 1..Len(args)
    BY <1>1, <2>1
  <2> DEFINE m == << args[i], args[i + 1] >>
  <2>3. /\ args[i] \in Argument /\ args[i + 1] \in Argument
        /\ SubSeq(args, i + 2, Len(args)) \in Seq(Argument)
        /\ Remaining = m \o SubSeq(args, i + 2, Len(args))
    BY <1>1, <2>1, <2>2, CutTwo DEF Remaining
  <2>4. m \in Seq(Argument)
    BY <2>3, OneOrTwo
  <2> HIDE DEF m
  <2>5. Remaining = m \o Remaining' /\ Remaining' \in Seq(Argument) /\ flags' = flags \o m
    BY <1>1, <2>1, <2>3 DEF m
  <2> QED
    BY <2>1, <2>4, <2>5
<1>4. CASE FlagAlone \/ Positional
  <2>1. i <= Len(args) /\ i' = i + 1
    BY <1>4 DEF FlagAlone, Positional
  <2>2. i \in 1..Len(args)
    BY <1>1, <2>1
  <2> DEFINE m == << args[i] >>
  <2>3. /\ args[i] \in Argument /\ SubSeq(args, i + 1, Len(args)) \in Seq(Argument)
        /\ Remaining = m \o SubSeq(args, i + 1, Len(args))
    BY <1>1, <2>2, CutOne DEF Remaining
  <2>4. m \in Seq(Argument)
    BY <2>3, OneOrTwo
  <2>5. /\ Append(flags, args[i]) = flags \o m
        /\ Append(positional, args[i]) = positional \o m
    BY <1>1, <2>3, AppendIsConcat
  <2>6. \/ flags' = flags \o m /\ positional' = positional
        \/ flags' = flags /\ positional' = positional \o m
    BY <1>4, <2>5 DEF FlagAlone, Positional
  <2> HIDE DEF m
  <2>7. Remaining = m \o Remaining' /\ Remaining' \in Seq(Argument)
    BY <1>1, <2>1, <2>3
  <2> QED
    BY <2>4, <2>6, <2>7
<1> QED
  BY <1>2, <1>3, <1>4 DEF Reorder

(* So no step of the loop loses an argument. *)
LEMMA NothingLostStep == TypeOK /\ NothingLost /\ [Next]_vars => NothingLost'
<1> SUFFICES ASSUME TypeOK, NothingLost, [Next]_vars, pc' = "reorder", NEW a \in Argument
             PROVE  Times(a, Result') + Times(a, Remaining') = Times(a, args')
  BY DEF NothingLost, Remaining
<1>1. ASSUME pc = "reorder"
      PROVE  Times(a, Result) + Times(a, Remaining) = Times(a, args)
  BY <1>1 DEF NothingLost, Remaining
<1>2. CASE Reorder
  <2>1. PICK m \in Seq(Argument) :
          /\ Remaining = m \o Remaining' /\ Remaining' \in Seq(Argument)
          /\ \/ flags' = flags \o m /\ positional' = positional
             \/ flags' = flags /\ positional' = positional \o m
    BY <1>2, ReorderMoves
  <2>2. flags \in Seq(Argument) /\ positional \in Seq(Argument)
    BY DEF TypeOK
  <2>3. Result = flags \o positional /\ Result' = flags' \o positional'
    BY DEF Result
  <2>4. Times(a, Result') + Times(a, Remaining') = Times(a, Result) + Times(a, Remaining)
    <3>0. PICK r \in Seq(Argument) : r = Remaining'
      BY <2>1
    <3>m. /\ Times(a, (flags \o m) \o positional) + Times(a, r)
               = Times(a, flags \o positional) + Times(a, m \o r)
          /\ Times(a, flags \o (positional \o m)) + Times(a, r)
               = Times(a, flags \o positional) + Times(a, m \o r)
      <4>1. ASSUME NEW f \in Seq(Argument), NEW p \in Seq(Argument)
            PROVE  /\ Times(a, (f \o m) \o p) + Times(a, r)
                        = Times(a, f \o p) + Times(a, m \o r)
                   /\ Times(a, f \o (p \o m)) + Times(a, r)
                        = Times(a, f \o p) + Times(a, m \o r)
        BY TimesMoved, SMTT(60)
      <4> QED
        BY <2>2, <4>1, Zenon
    <3>1. CASE flags' = flags \o m /\ positional' = positional
      <4>1. Result' = (flags \o m) \o positional
        BY <2>3, <3>1, Zenon
      <4> QED
        BY <2>1, <2>3, <3>0, <3>m, <4>1, Zenon
    <3>2. CASE flags' = flags /\ positional' = positional \o m
      <4>1. Result' = flags \o (positional \o m)
        BY <2>3, <3>2, Zenon
      <4> QED
        BY <2>1, <2>3, <3>0, <3>m, <4>1, Zenon
    <3> QED
      BY <2>1, <3>1, <3>2
  <2> QED
    BY <1>1, <1>2, <2>4 DEF Reorder
<1>3. CASE Reordered \/ Parse \/ Dispatch
  BY <1>3 DEF Reordered, Parse, SetComplete, SetValued, ParseFails, EndOfFlags, Dispatch
<1>4. CASE UNCHANGED vars
  BY <1>1, <1>4 DEF vars, Result, Remaining
<1> QED
  BY <1>2, <1>3, <1>4 DEF Next

(* reorderArgs neither drops an argument nor repeats one, however long the  *)
(* line and whatever flags there are.                                       *)
THEOREM NothingIsLost == Spec => []NothingLost
<1>1. Init => NothingLost
  <2>1. SUFFICES ASSUME Init, NEW a \in Argument
                 PROVE  Times(a, Result) + Times(a, SubSeq(args, i, Len(args)))
                          = Times(a, args)
    BY DEF NothingLost
  <2>2. args \in Seq(Argument) /\ i = 1 /\ flags = <<>> /\ positional = <<>>
    BY <2>1, ArgsAtFirst DEF TypeOK, Init
  <2>3. SubSeq(args, i, Len(args)) = args
    BY <2>2, SubSeqFull
  <2>4. Result = <<>> /\ <<>> \in Seq(Argument) /\ <<>> \o args = args
    BY <2>2, EmptyLine DEF Result
  <2>5. Times(a, <<>> \o args) = Times(a, <<>>) + Times(a, args)
    BY <2>2, <2>4, TimesJoin, Zenon
  <2> QED
    BY <2>3, <2>4, <2>5, Zenon
<1> QED
  BY <1>1, ArgsTypesCorrect, NothingLostStep, PTL DEF Spec
-----------------------------------------------------------------------------
(* Which roots are shared.  Up to a root with nothing before it that leads  *)
(* Parse astray, a line is moved and parsed flag by flag.                   *)
Clear(k) == args[k] \in RootFlags /\ \A j \in 1..k - 1 : ~ LeadsAstray(j)

(* In the first n of s a word is the value of the flag before it, and a     *)
(* string flag other than a root's has one.                                 *)
Sound(s, n) ==
  \A j \in 1..n :
    /\ s[j] \in Flags \/ (s[j] \in Words /\ j > 1 /\ s[j - 1] \in Valued)
    /\ s[j] \in StrFlags \ RootFlags => j < n /\ s[j + 1] \in Words

RootBehind(s, n) == n < Len(s) /\ s[n + 1] \in RootFlags /\ Sound(s, n)

RootGiven == \E k \in 1..Len(opts) : opts[k][1] \in RootFlags

(* s is what is left of t without its first d elements. *)
Suffix(s, t, d) ==
  Len(s) = Len(t) - d /\ \A k \in 1..Len(s) : s[k] = t[d + k]

(* Parse has come to a flag among the first n or right behind them. *)
AtFlag(n) ==
  \E d \in 0..n : Suffix(rest, Result, d) /\ flags[d + 1] \in Flags

Moved(k) ==
  /\ i <= k => Sound(flags, Len(flags))
  /\ i > k => \E n \in Nat : RootBehind(flags, n)

RootsInv ==
  /\ pc # "reorder" => i = Len(args) + 1
  /\ pc # "done" => outcome.do = "exit"
  /\ \A k \in 1..Len(args) : Clear(k) =>
       /\ Moved(k)
       /\ pc = "parse" => RootGiven \/ \E n \in Nat : RootBehind(flags, n) /\ AtFlag(n)
       /\ pc = "dispatch" => RootGiven
       /\ outcome.do # "serve cwd"

(* The loop of reorderArgs stands at a position of the command line. *)
LEMMA NextPosition ==
  ASSUME TypeOK, Reorder
  PROVE  i' \in Int
<1>1. TypeOK'
  BY ReorderType
<1>2. i' \in 1..Len(args') + 1
  BY <1>1 DEF TypeOK
<1> QED
  BY <1>2

(* The root flags are flags, and a flag tells a word from them. *)
LEMMA RootKinds ==
  \A a \in RootFlags : /\ a \in Flags /\ a \notin Words /\ a \notin Negatives
                       /\ LooksLikeFlag(a)
<1>1. RootFlags \subseteq Flags
  BY ArgsAssumption DEF RootFlags
<1> QED
  BY <1>1, Kinds

(* serve takes its working directory only if no root was set. *)
LEMMA NothingGivenNoRoot ==
  ASSUME opts \in Seq(Flags \X Argument), cmd = "serve", Given(opts, "rootDirs") = <<>>
  PROVE  ~ RootGiven
<1> DEFINE S == { k \in 1..Len(opts) : Sets[cmd][opts[k][1]] = "rootDirs" }
           mine == At(opts, S)
<1>1. Len(opts) \in Nat
  BY LenProperties
<1>2. IsFiniteSet(1..Len(opts)) /\ S \in SUBSET (1..Len(opts))
  BY <1>1, FS_Interval
<1>3. IsFiniteSet(S)
  BY <1>2, FS_Subset
<1>4. DOMAIN <<>> = {}
  BY EmptyLine
<1>5. DOMAIN mine = 1..Cardinality(S)
  BY DEF At, InOrder
<1>6. Given(opts, "rootDirs") = [ k \in DOMAIN mine |-> mine[k][2] ]
  BY DEF Given
<1>7. DOMAIN Given(opts, "rootDirs") = DOMAIN mine
  <2> HIDE DEF mine
  <2> QED
    BY <1>6
<1>8. 1..Cardinality(S) = {}
  BY <1>4, <1>5, <1>7
<1>9. \A k \in 1..Len(opts) : opts[k][1] \in RootFlags => k \in S
  BY DEF RootFlags
<1> HIDE DEF S
<1>10. Cardinality(S) \in Nat
  BY <1>3, FS_CardinalityType
<1>11. Cardinality(S) = 0
  <2>1. \A n \in Nat : n # 0 => 1 \in 1..n
    OBVIOUS
  <2> QED
    BY <1>8, <1>10, <2>1
<1>12. S = {}
  BY <1>3, <1>11, FS_EmptySet
<1> QED
  BY <1>9, <1>12 DEF RootGiven

(* Soundness of a beginning is kept when more is appended. *)
LEMMA SoundKept ==
  ASSUME NEW s, NEW t, NEW n \in Nat, \A j \in 1..n : t[j] = s[j], Sound(s, n)
  PROVE  Sound(t, n)
<1> SUFFICES ASSUME NEW j \in 1..n
             PROVE  /\ t[j] \in Flags \/ (t[j] \in Words /\ j > 1 /\ t[j - 1] \in Valued)
                    /\ t[j] \in StrFlags \ RootFlags => j < n /\ t[j + 1] \in Words
  BY DEF Sound
<1>1. (j > 1 => j - 1 \in 1..n) /\ (j < n => j + 1 \in 1..n)
  OBVIOUS
<1>2. /\ s[j] \in Flags \/ (s[j] \in Words /\ j > 1 /\ s[j - 1] \in Valued)
      /\ s[j] \in StrFlags \ RootFlags => j < n /\ s[j + 1] \in Words
  BY DEF Sound
<1>3. t[j] = s[j] /\ (j > 1 => t[j - 1] = s[j - 1]) /\ (j < n => t[j + 1] = s[j + 1])
  BY <1>1
<1> QED
  BY <1>2, <1>3

(* What is behind a sound beginning stays there. *)
LEMMA RootStaysBehind ==
  ASSUME NEW s \in Seq(Argument), NEW t \in Seq(Argument), Len(s) <= Len(t),
         \A j \in 1..Len(s) : t[j] = s[j], NEW n \in Nat, RootBehind(s, n)
  PROVE  RootBehind(t, n)
<1>1. PICK a \in Nat, b \in Nat : a = Len(s) /\ b = Len(t)
  BY LenProperties
<1>2. n < a /\ a <= b
  BY <1>1 DEF RootBehind
<1>3. n < b /\ n + 1 \in 1..a /\ \A j \in 1..n : j \in 1..a
  BY <1>2
<1>4. Sound(t, n)
  BY <1>1, <1>3, SoundKept DEF RootBehind
<1> QED
  BY <1>1, <1>3, <1>4 DEF RootBehind

(* A flag and its value at the end of those that were moved before. *)
LEMMA TwoBehind ==
  ASSUME NEW s \in Seq(Argument), NEW n \in Nat, n = Len(s),
         NEW x \in Argument, NEW y \in Argument
  PROVE  /\ s \o << x, y >> \in Seq(Argument)
         /\ Len(s \o << x, y >>) = n + 2
         /\ (s \o << x, y >>)[n + 1] = x /\ (s \o << x, y >>)[n + 2] = y
         /\ \A j \in 1..n : (s \o << x, y >>)[j] = s[j]
<1>1. << x, y >> \in Seq(Argument) /\ Len(<< x, y >>) = 2
  BY OneOrTwo
<1>2. /\ s \o << x, y >> \in Seq(Argument)
      /\ Len(s \o << x, y >>) = n + 2
      /\ \A j \in 1..n + 2 : (s \o << x, y >>)[j] = IF j <= n THEN s[j] ELSE << x, y >>[j - n]
  BY <1>1, ConcatProperties
<1>3. /\ \A j \in 1..n : j \in 1..n + 2 /\ j <= n
      /\ n + 1 \in 1..n + 2 /\ ~ (n + 1 <= n) /\ n + 1 - n = 1
      /\ n + 2 \in 1..n + 2 /\ ~ (n + 2 <= n) /\ n + 2 - n = 2
  OBVIOUS
<1>4. << x, y >>[1] = x /\ << x, y >>[2] = y
  OBVIOUS
<1> QED
  BY <1>2, <1>3, <1>4

(* reorderArgs only adds to the flags, and moves on. *)
LEMMA FlagsGrow ==
  ASSUME TypeOK, Reorder, NEW n \in Nat, n = Len(flags)
  PROVE  /\ flags' \in Seq(Argument) /\ n <= Len(flags')
         /\ \A j \in 1..n : flags'[j] = flags[j]
         /\ i' > i
<1>1. /\ args \in Seq(Argument) /\ i \in 1..Len(args) + 1 /\ Len(args) \in Nat
      /\ flags \in Seq(Argument)
  BY LenProperties DEF TypeOK
<1>2. i \in 1..Len(args) /\ args[i] \in Argument
  <2>1. i <= Len(args)
    BY DEF Reorder, AtDashDash, FlagAndValue, FlagAlone, Positional
  <2>2. i \in 1..Len(args)
    BY <1>1, <2>1
  <2> QED
    BY <1>1, <2>2, ElementOfSeq
<1>3. CASE FlagAndValue
  <2>1. i' = i + 2 /\ i < Len(args) /\ flags' = flags \o << args[i], args[i + 1] >>
    BY <1>3 DEF FlagAndValue, ValueFollows
  <2>2. PICK x \in Argument, y \in Argument : x = args[i] /\ y = args[i + 1]
    BY <1>1, <1>2, <2>1, CutTwo
  <2>3. /\ flags' \in Seq(Argument) /\ Len(flags') = n + 2
        /\ \A j \in 1..n : flags'[j] = flags[j]
    BY <1>1, <2>1, <2>2, TwoBehind
  <2>4. n <= n + 2 /\ i + 2 > i
    BY <1>1
  <2> QED
    BY <2>1, <2>3, <2>4
<1>4. CASE FlagAlone
  <2>1. i' = i + 1 /\ flags' = Append(flags, args[i])
    BY <1>4 DEF FlagAlone
  <2>2. /\ flags' \in Seq(Argument) /\ Len(flags') = n + 1
        /\ \A j \in 1..n : flags'[j] = flags[j]
    BY <1>1, <1>2, <2>1, AppendProperties
  <2>3. n <= n + 1 /\ i + 1 > i
    BY <1>1
  <2> QED
    BY <2>1, <2>2, <2>3
<1>5. CASE Positional \/ AtDashDash
  <2>1. flags' = flags /\ (i' = i + 1 \/ i' = Len(args) + 1)
    BY <1>5 DEF Positional, AtDashDash
  <2>2. i + 1 > i /\ Len(args) + 1 > i /\ n <= n
    BY <1>1, <1>2
  <2> QED
    BY <1>1, <2>1, <2>2
<1> QED
  BY <1>3, <1>4, <1>5 DEF Reorder

(* One step of reorderArgs leaves a sound beginning, or the root behind it. *)
LEMMA RootsReordered ==
  ASSUME TypeOK, Reorder, NEW k \in 1..Len(args), Clear(k), Moved(k)
  PROVE  Moved(k)'
<1>1. /\ args \in Seq(Argument) /\ i \in 1..Len(args) + 1 /\ Len(args) \in Nat
      /\ flags \in Seq(Argument) /\ args' = args
  BY LenProperties DEF TypeOK, Reorder
<1>2. PICK n \in Nat : n = Len(flags)
  BY <1>1, LenProperties
<1>3. i <= Len(args) /\ i \in 1..Len(args) /\ args[i] \in Argument
  <2>1. i <= Len(args)
    BY DEF Reorder, AtDashDash, FlagAndValue, FlagAlone, Positional
  <2>2. i \in 1..Len(args)
    BY <1>1, <2>1
  <2> QED
    BY <1>1, <2>1, <2>2, ElementOfSeq
<1>4. /\ flags' \in Seq(Argument) /\ n <= Len(flags')
      /\ \A j \in 1..n : flags'[j] = flags[j]
      /\ i' > i
  BY <1>1, <1>2, FlagsGrow
<1>5. CASE i > k
  <2>1. PICK m \in Nat : RootBehind(flags, m)
    BY <1>5 DEF Moved
  <2>2. RootBehind(flags', m)
    BY <1>1, <1>2, <1>4, <2>1, RootStaysBehind
  <2>3. i' \in Int /\ i' > k
    BY <1>1, <1>4, <1>5, NextPosition
  <2> QED
    BY <2>2, <2>3 DEF Moved
<1>6. CASE i = k
  <2>1. args[i] \in RootFlags /\ Sound(flags, n)
    BY <1>2, <1>6 DEF Clear, Moved
  <2>2. LooksLikeFlag(args[i]) /\ args[i] # DashDash
    BY <2>1, RootKinds, Kinds
  <2>3. n + 1 <= Len(flags') /\ flags'[n + 1] = args[i]
    <3>1. CASE FlagAndValue
      <4>1. i < Len(args) /\ flags' = flags \o << args[i], args[i + 1] >>
        BY <3>1 DEF FlagAndValue, ValueFollows
      <4>2. PICK x \in Argument, y \in Argument : x = args[i] /\ y = args[i + 1]
        BY <1>1, <1>3, <4>1, CutTwo
      <4>3. Len(flags') = n + 2 /\ flags'[n + 1] = x
        BY <1>1, <1>2, <4>1, <4>2, TwoBehind
      <4> QED
        BY <4>2, <4>3
    <3>2. CASE FlagAlone
      <4>1. flags' = Append(flags, args[i])
        BY <3>2 DEF FlagAlone
      <4>2. Len(flags') = n + 1 /\ flags'[n + 1] = args[i]
        BY <1>1, <1>2, <1>3, <4>1, AppendProperties
      <4> QED
        BY <4>2
    <3> QED
      BY <2>2, <3>1, <3>2 DEF Reorder, AtDashDash, Positional
  <2>4. Sound(flags', n)
    BY <1>4, <2>1, SoundKept
  <2>5. n < Len(flags')
    <3>1. Len(flags') \in Nat
      BY <1>4, LenProperties
    <3> QED
      BY <2>3, <3>1
  <2>6. RootBehind(flags', n)
    BY <2>1, <2>3, <2>4, <2>5 DEF RootBehind
  <2>7. i' \in Int /\ i' > k
    BY <1>1, <1>4, <1>6, NextPosition
  <2> QED
    BY <2>6, <2>7 DEF Moved
<1>7. CASE i < k
  <2>1. Sound(flags, n) /\ args[k] \in RootFlags /\ ~ LeadsAstray(i) /\ i < Len(args)
    <3>1. i \in 1..k - 1 /\ i <= k /\ i < Len(args)
      BY <1>1, <1>7
    <3> QED
      BY <1>2, <3>1 DEF Clear, Moved
  <2>2. /\ args[i] # Dash /\ args[i] # DashDash
        /\ args[i] \in Complete => args[i + 1] \notin Words
        /\ args[i] \in StrFlags \ RootFlags => args[i + 1] \notin Dashed
    BY <2>1 DEF LeadsAstray
  <2>3. args[i + 1] \in Argument
    BY <1>1, <1>3, <2>1, CutTwo
  <2>4. LooksLikeFlag(args[i]) => args[i] \in Flags
    BY <2>2 DEF LooksLikeFlag, isBareValue, Dashed
  <2>5. CASE FlagAndValue
    <3>1. PICK x \in Argument, y \in Argument : x = args[i] /\ y = args[i + 1]
      BY <1>3, <2>3
    <3>2. /\ i' = i + 2 /\ flags' = flags \o << x, y >> /\ x \in Flags /\ y \in Words
      BY <2>4, <2>5, <3>1, Kinds DEF FlagAndValue, ValueFollows
    <3>3. x \in Valued
      BY <2>2, <3>1, <3>2 DEF Flags
    <3>4. /\ Len(flags') = n + 2 /\ flags'[n + 1] = x /\ flags'[n + 2] = y
      BY <1>1, <1>2, <3>2, TwoBehind
    <3>5. y \notin Flags /\ y \notin StrFlags
      BY <3>2, Kinds DEF Flags, Valued
    <3>6. Sound(flags', n + 2)
      <4>1. SUFFICES ASSUME NEW j \in 1..n + 2
                     PROVE  /\ \/ flags'[j] \in Flags
                               \/ flags'[j] \in Words /\ j > 1 /\ flags'[j - 1] \in Valued
                            /\ flags'[j] \in StrFlags \ RootFlags =>
                                 j < n + 2 /\ flags'[j + 1] \in Words
        BY DEF Sound
      <4>2. j \in 1..n \/ j = n + 1 \/ j = n + 2
        OBVIOUS
      <4>3. CASE j \in 1..n
        <5>1. Sound(flags', n)
          BY <1>4, <2>1, SoundKept
        <5>2. j < n => j < n + 2
          OBVIOUS
        <5> QED
          BY <4>3, <5>1, <5>2 DEF Sound
      <4>4. CASE j = n + 1
        <5>1. n + 1 < n + 2 /\ n + 1 + 1 = n + 2
          OBVIOUS
        <5> QED
          BY <3>2, <3>4, <4>4, <5>1
      <4>5. CASE j = n + 2
        <5>1. n + 2 > 1 /\ n + 2 - 1 = n + 1
          OBVIOUS
        <5> QED
          BY <3>2, <3>3, <3>4, <3>5, <4>5, <5>1
      <4> QED
        BY <4>2, <4>3, <4>4, <4>5
    <3>7. i' <= k
      <4>1. i + 1 # k
        BY <2>1, <3>1, <3>2, RootKinds
      <4> QED
        BY <1>1, <1>7, <3>2, <4>1
    <3> QED
      BY <1>1, <3>2, <3>4, <3>6, <3>7 DEF Moved
  <2>6. CASE FlagAlone
    <3>1. PICK x \in Argument : x = args[i]
      BY <1>3
    <3>2. /\ i' = i + 1 /\ flags' = Append(flags, x) /\ x \in Flags
          /\ args[i + 1] \in Dashed
      BY <2>1, <2>4, <2>6, <3>1 DEF FlagAlone, ValueFollows
    <3>3. x \notin StrFlags \ RootFlags
      BY <2>2, <3>1, <3>2
    <3>4. Len(flags') = n + 1 /\ flags'[n + 1] = x
      BY <1>1, <1>2, <3>2, AppendProperties
    <3>5. Sound(flags', n + 1)
      <4>1. SUFFICES ASSUME NEW j \in 1..n + 1
                     PROVE  /\ \/ flags'[j] \in Flags
                               \/ flags'[j] \in Words /\ j > 1 /\ flags'[j - 1] \in Valued
                            /\ flags'[j] \in StrFlags \ RootFlags =>
                                 j < n + 1 /\ flags'[j + 1] \in Words
        BY DEF Sound
      <4>2. j \in 1..n \/ j = n + 1
        OBVIOUS
      <4>3. CASE j \in 1..n
        <5>1. Sound(flags', n)
          BY <1>4, <2>1, SoundKept
        <5>2. j < n => j < n + 1
          OBVIOUS
        <5> QED
          BY <4>3, <5>1, <5>2 DEF Sound
      <4>4. CASE j = n + 1
        BY <3>2, <3>3, <3>4, <4>4
      <4> QED
        BY <4>2, <4>3, <4>4
    <3>6. i' <= k
      BY <1>1, <1>7, <3>2
    <3> QED
      BY <1>1, <3>2, <3>4, <3>5, <3>6 DEF Moved
  <2>7. CASE Positional
    <3>1. i' = i + 1 /\ flags' = flags
      BY <2>7 DEF Positional
    <3>2. i' <= k
      BY <1>1, <1>7, <3>1
    <3> QED
      BY <1>2, <2>1, <3>1, <3>2 DEF Moved
  <2> QED
    BY <2>2, <2>5, <2>6, <2>7 DEF Reorder, AtDashDash
<1> QED
  BY <1>1, <1>5, <1>6, <1>7

(* Taking one or two arguments from the front of what is left. *)
LEMMA SuffixOne ==
  ASSUME NEW s \in Seq(Argument), NEW t \in Seq(Argument), NEW d \in Nat,
         d < Len(t), Suffix(s, t, d)
  PROVE  /\ s # <<>> /\ Len(s) \in Nat /\ 1 \in 1..Len(s) /\ s[1] = t[d + 1]
         /\ Tail(s) \in Seq(Argument) /\ Suffix(Tail(s), t, d + 1)
<1>1. PICK n \in Nat, m \in Nat : n = Len(s) /\ m = Len(t)
  BY LenProperties
<1>2. n = m - d /\ \A k \in 1..n : s[k] = t[d + k]
  BY <1>1 DEF Suffix
<1>3. d < m /\ n >= 1 /\ 1 \in 1..n
  BY <1>1, <1>2
<1>4. s # <<>>
  BY <1>1, <1>3, EmptySeq
<1>5. /\ Tail(s) \in Seq(Argument) /\ Len(Tail(s)) = n - 1
      /\ \A k \in 1..n - 1 : Tail(s)[k] = s[k + 1]
  BY <1>1, <1>4, HeadTailProperties
<1>6. \A k \in 1..n - 1 : k + 1 \in 1..n /\ d + (k + 1) = d + 1 + k
  BY <1>3
<1>7. \A k \in 1..n - 1 : Tail(s)[k] = t[d + 1 + k]
  <2> TAKE k \in 1..n - 1
  <2>1. s[k + 1] = t[d + (k + 1)]
    BY <1>2, <1>6
  <2> QED
    BY <1>5, <1>6, <2>1
<1>8. n - 1 = m - (d + 1)
  BY <1>2
<1>9. Suffix(Tail(s), t, d + 1)
  BY <1>1, <1>5, <1>7, <1>8 DEF Suffix
<1> QED
  BY <1>1, <1>2, <1>3, <1>4, <1>5, <1>9

(* Taking two. *)
LEMMA SuffixTwo ==
  ASSUME NEW s \in Seq(Argument), NEW t \in Seq(Argument), NEW d \in Nat,
         d < Len(t), Suffix(s, t, d), Len(s) > 1
  PROVE  /\ d + 1 < Len(t) /\ s[1] = t[d + 1] /\ s[2] = t[d + 2]
         /\ SubSeq(s, 3, Len(s)) \in Seq(Argument)
         /\ Suffix(SubSeq(s, 3, Len(s)), t, d + 2)
<1>1. PICK n \in Nat, m \in Nat : n = Len(s) /\ m = Len(t)
  BY LenProperties
<1>2. n = m - d /\ (\A k \in 1..n : s[k] = t[d + k]) /\ n > 1
  BY <1>1 DEF Suffix
<1>3. d + 1 < m /\ 1 \in 1..n /\ 2 \in 1..n /\ 3 \in 1..n + 1
  BY <1>2
<1> DEFINE u == SubSeq(s, 3, n)
<1>4. u \in Seq(Argument)
  BY <1>1, <1>3, CutBehind
<1>5. /\ Len(u) = IF 3 <= n THEN n - 3 + 1 ELSE 0
      /\ \A k \in 1..n - 3 + 1 : u[k] = s[3 + k - 1]
  <2>1. \A k \in 3..n : s[k] \in Argument
    <3>1. \A k \in 3..n : k \in 1..n
      OBVIOUS
    <3> QED
      BY <1>1, <3>1, ElementOfSeq
  <2>2. 3 \in Int /\ n \in Int
    OBVIOUS
  <2> QED
    BY <2>1, <2>2, SubSeqProperties
<1> HIDE DEF u
<1>6. Len(u) = n - 2
  BY <1>2, <1>5
<1>7. \A k \in 1..n - 2 : u[k] = t[d + 2 + k]
  <2> TAKE k \in 1..n - 2
  <2>1. k \in 1..n - 3 + 1 /\ 3 + k - 1 = k + 2 /\ k + 2 \in 1..n /\ d + (k + 2) = d + 2 + k
    BY <1>2
  <2>2. s[k + 2] = t[d + (k + 2)]
    BY <1>2, <2>1
  <2> QED
    BY <1>5, <2>1, <2>2
<1>8. n - 2 = m - (d + 2)
  BY <1>2
<1>9. Suffix(u, t, d + 2)
  BY <1>1, <1>6, <1>7, <1>8 DEF Suffix
<1>10. u = SubSeq(s, 3, Len(s))
  BY <1>1 DEF u
<1> QED
  BY <1>1, <1>2, <1>3, <1>4, <1>9, <1>10

(* Setting a flag keeps those that are set. *)
LEMMA RootStaysGiven ==
  ASSUME TypeOK, NEW s \in Flags \X Argument, opts' = Append(opts, s)
  PROVE  /\ RootGiven => RootGiven'
         /\ s[1] \in RootFlags => RootGiven'
<1>1. opts \in Seq(Flags \X Argument)
  BY DEF TypeOK
<1>2. PICK n \in Nat : n = Len(opts)
  BY <1>1, LenProperties
<1>3. /\ Len(opts') = n + 1 /\ opts'[n + 1] = s
      /\ \A k \in 1..n : opts'[k] = opts[k]
  BY <1>1, <1>2, AppendProperties
<1>4. n + 1 \in 1..n + 1 /\ \A k \in 1..n : k \in 1..n + 1
  OBVIOUS
<1> QED
  BY <1>2, <1>3, <1>4 DEF RootGiven

(* At a flag on the way to the root, Parse sets it and comes to the next    *)
(* one, or fails.                                                           *)
LEMMA RootsParsed ==
  ASSUME TypeOK, Parse, NEW n \in Nat, RootBehind(flags, n), AtFlag(n)
  PROVE  pc' = "done" \/ (pc' = "parse" /\ (RootGiven' \/ AtFlag(n)'))
<1>1. /\ rest \in Seq(Argument) /\ flags \in Seq(Argument) /\ positional \in Seq(Argument)
      /\ flags' = flags /\ positional' = positional /\ pc = "parse"
  BY DEF TypeOK, Parse
<1>2. PICK m \in Nat : m = Len(flags) /\ n < m
  BY <1>1, LenProperties DEF RootBehind
<1>3. /\ Result \in Seq(Argument) /\ Len(Result) \in Nat /\ m <= Len(Result)
      /\ \A k \in 1..m : Result[k] = flags[k]
      /\ Result' = Result
  <2>1. PICK p \in Nat : p = Len(positional)
    BY <1>1, LenProperties
  <2>2. /\ Result \in Seq(Argument) /\ Len(Result) = m + p
        /\ \A k \in 1..m + p : Result[k] = IF k <= m THEN flags[k] ELSE positional[k - m]
    BY <1>1, <1>2, <2>1, ConcatProperties DEF Result
  <2>3. m + p \in Nat /\ m <= m + p /\ \A k \in 1..m : k \in 1..m + p /\ k <= m
    OBVIOUS
  <2> QED
    BY <1>1, <2>2, <2>3 DEF Result
<1>4. PICK d \in 0..n : Suffix(rest, Result, d) /\ flags[d + 1] \in Flags
  BY DEF AtFlag
<1>5. d \in Nat /\ d < Len(Result) /\ d + 1 \in 1..m
  BY <1>2, <1>3, <1>4
<1>6. /\ rest # <<>> /\ rest[1] = flags[d + 1] /\ Tail(rest) \in Seq(Argument)
      /\ Suffix(Tail(rest), Result, d + 1)
  BY <1>1, <1>3, <1>4, <1>5, SuffixOne
<1>7. ~ Stops /\ rest[1] # DashDash /\ rest[1] \in Flags
  BY <1>4, <1>6, Kinds DEF Stops
<1>8. SetComplete \/ SetValued \/ pc' = "done"
  BY <1>7 DEF Parse, ParseFails, EndOfFlags
<1>9. flags[n + 1] \in RootFlags /\ flags[n + 1] \in Flags /\ Sound(flags, n)
  BY RootKinds DEF RootBehind
<1>10. ASSUME NEW e \in 1..n, flags[e] \notin Valued
       PROVE  flags[e + 1] \in Flags
  <2>1. CASE e = n
    BY <1>9, <2>1
  <2>2. CASE e # n
    <3>1. e + 1 \in 1..n /\ e + 1 - 1 = e
      BY <2>2
    <3> QED
      BY <1>9, <1>10, <3>1 DEF Sound
  <2> QED
    BY <2>1, <2>2
<1>11. CASE SetComplete
  <2>1. /\ opts' = Append(opts, << rest[1], rest[1] >>) /\ rest' = Tail(rest)
        /\ rest[1] \in Complete /\ pc' = "parse"
    BY <1>1, <1>11 DEF SetComplete
  <2>2. rest[1] \in RootFlags => RootGiven'
    <3>1. << rest[1], rest[1] >> \in Flags \X Argument /\ << rest[1], rest[1] >>[1] = rest[1]
      BY <1>7, Kinds
    <3> QED
      BY <2>1, <3>1, RootStaysGiven
  <2>3. ASSUME rest[1] \notin RootFlags PROVE AtFlag(n)'
    <3>1. d # n
      BY <1>6, <1>9, <2>3
    <3>2. d + 1 \in 1..n /\ d + 1 \in 0..n
      BY <3>1
    <3>3. flags[d + 1] \notin Valued
      BY <1>6, <2>1, Kinds
    <3>4. flags[d + 1 + 1] \in Flags
      BY <1>10, <3>2, <3>3
    <3> QED
      BY <1>1, <1>3, <1>6, <2>1, <3>2, <3>4 DEF AtFlag
  <2> QED
    BY <2>1, <2>2, <2>3
<1>12. CASE SetValued
  <2>1. /\ opts' = Append(opts, << rest[1], rest[2] >>) /\ rest' = SubSeq(rest, 3, Len(rest))
        /\ Len(rest) > 1 /\ Valid(rest[1], rest[2]) /\ rest[1] \in Valued /\ pc' = "parse"
    BY <1>1, <1>12 DEF SetValued, HasValue
  <2>2. /\ d + 1 < Len(Result) /\ rest[2] = Result[d + 2]
        /\ Suffix(SubSeq(rest, 3, Len(rest)), Result, d + 2)
    BY <1>1, <1>3, <1>4, <1>5, <2>1, SuffixTwo
  <2>3. rest[1] \in RootFlags => RootGiven'
    <3>1. 2 \in 1..Len(rest)
      BY <1>1, <2>1, LenProperties
    <3>2. rest[2] \in Argument
      BY <1>1, <3>1, ElementOfSeq
    <3>3. << rest[1], rest[2] >> \in Flags \X Argument /\ << rest[1], rest[2] >>[1] = rest[1]
      BY <1>7, <3>2
    <3> QED
      BY <2>1, <3>3, RootStaysGiven
  <2>4. ASSUME rest[1] \notin RootFlags PROVE AtFlag(n)'
    <3>1. d # n
      BY <1>6, <1>9, <2>4
    <3>2. d + 1 \in 1..n /\ d + 2 \in 1..m /\ d + 1 + 1 = d + 2
      BY <1>2, <3>1
    <3>3. rest[2] = flags[d + 2]
      BY <1>3, <2>2, <3>2
    <3>4. rest[2] \notin Flags
      <4>1. CASE rest[1] \in StrFlags
        <5>1. flags[d + 1] \in StrFlags \ RootFlags
          BY <1>6, <2>4, <4>1
        <5>2. flags[d + 1 + 1] \in Words
          BY <1>9, <3>2, <5>1 DEF Sound
        <5> QED
          BY <3>2, <3>3, <5>2, Kinds
      <4>2. CASE rest[1] \notin StrFlags
        BY <2>1, <4>2, Kinds, ArgsAssumption DEF Valid
      <4> QED
        BY <4>1, <4>2
    <3>5. d + 2 # n + 1
      BY <1>9, <3>3, <3>4
    <3>6. d + 2 \in 1..n /\ d + 2 \in 0..n
      BY <3>2, <3>5
    <3>7. flags[d + 2] \notin Valued
      BY <3>3, <3>4 DEF Flags
    <3>8. flags[d + 2 + 1] \in Flags
      BY <1>10, <3>6, <3>7
    <3> QED
      BY <1>1, <1>3, <2>1, <2>2, <3>6, <3>8 DEF AtFlag
  <2> QED
    BY <2>1, <2>3, <2>4
<1> QED
  BY <1>8, <1>11, <1>12

(* At first nothing is moved. *)
LEMMA RootsInit == Init => RootsInv
<1> SUFFICES ASSUME Init PROVE RootsInv
  OBVIOUS
<1>1. /\ i = 1 /\ flags = <<>> /\ pc = "reorder" /\ outcome.do = "exit"
  BY DEF Init, Exit
<1>2. Len(flags) = 0
  BY <1>1, EmptyLine
<1>3. Sound(flags, Len(flags))
  <2>1. 1..0 = {}
    OBVIOUS
  <2> QED
    BY <1>2, <2>1 DEF Sound
<1>4. ASSUME NEW k \in 1..Len(args) PROVE Moved(k)
  <2>1. ~ (i > k)
    BY <1>1
  <2> QED
    BY <1>3, <2>1 DEF Moved
<1> QED
  BY <1>1, <1>4 DEF RootsInv

(* Handing the line to Parse: it begins with a flag. *)
LEMMA RootsHanded ==
  ASSUME TypeOK, Reordered, NEW n \in Nat, RootBehind(flags, n)
  PROVE  AtFlag(n)'
<1>1. /\ rest' = Result /\ flags' = flags /\ positional' = positional
      /\ flags \in Seq(Argument) /\ positional \in Seq(Argument)
  BY DEF Reordered, TypeOK
<1>2. PICK m \in Nat : m = Len(Result)
  BY <1>1, LenProperties, ConcatProperties DEF Result
<1>3. Suffix(Result, Result, 0)
  <2>1. m - 0 = m /\ \A k \in 1..m : 0 + k = k
    OBVIOUS
  <2> QED
    BY <1>2, <2>1 DEF Suffix
<1>4. Result' = Result
  BY <1>1 DEF Result
<1>5. flags[0 + 1] \in Flags
  <2>1. CASE n = 0
    BY <2>1, RootKinds DEF RootBehind
  <2>2. CASE n # 0
    <3>1. 1 \in 1..n /\ ~ (1 > 1) /\ 0 + 1 = 1
      BY <2>2
    <3> QED
      BY <3>1 DEF RootBehind, Sound
  <2> QED
    BY <2>1, <2>2
<1>6. 0 \in 0..n
  OBVIOUS
<1> QED
  BY <1>1, <1>3, <1>4, <1>5, <1>6 DEF AtFlag

(* Every step keeps track of the roots. *)
LEMMA RootsStep == TypeOK /\ RootsInv /\ [Next]_vars => RootsInv'
<1> SUFFICES ASSUME TypeOK, RootsInv, [Next]_vars PROVE RootsInv'
  OBVIOUS
<1>1. ASSUME args' = args, NEW k \in 1..Len(args)
      PROVE  Clear(k)' <=> Clear(k)
  BY <1>1 DEF Clear, LeadsAstray
<1>2. ASSUME i' = i, flags' = flags, NEW k \in 1..Len(args), Moved(k)
      PROVE  Moved(k)'
  BY <1>2 DEF Moved
<1>3. CASE Reorder
  <2>1. /\ UNCHANGED <<args, opts, pc, outcome>> /\ pc = "reorder" /\ outcome.do = "exit"
    BY <1>3 DEF Reorder, RootsInv
  <2>2. ASSUME NEW k \in 1..Len(args), Clear(k) PROVE Moved(k)'
    BY <1>3, <2>2, RootsReordered DEF RootsInv
  <2> QED
    BY <1>1, <2>1, <2>2 DEF RootsInv
<1>4. CASE Reordered
  <2>1. /\ UNCHANGED <<args, i, flags, positional, opts, outcome>>
        /\ pc = "reorder" /\ pc' = "parse" /\ i > Len(args) /\ outcome.do = "exit"
    BY <1>4 DEF Reordered, RootsInv
  <2>2. i = Len(args) + 1 /\ Len(args) \in Nat
    <3>1. i \in 1..Len(args) + 1 /\ Len(args) \in Nat
      BY LenProperties DEF TypeOK
    <3> QED
      BY <2>1, <3>1
  <2>3. ASSUME NEW k \in 1..Len(args), Clear(k)
        PROVE  Moved(k)' /\ \E n \in Nat : RootBehind(flags', n) /\ AtFlag(n)'
    <3>1. Moved(k) /\ i > k
      <4>1. Moved(k)
        BY <2>3 DEF RootsInv
      <4>2. i > k
        BY <2>2
      <4> QED
        BY <4>1, <4>2
    <3>2. PICK n \in Nat : RootBehind(flags, n)
      BY <3>1 DEF Moved
    <3>3. AtFlag(n)'
      BY <1>4, <3>2, RootsHanded
    <3> QED
      BY <1>2, <2>1, <3>1, <3>2, <3>3
  <2> QED
    BY <1>1, <2>1, <2>2, <2>3 DEF RootsInv
<1>5. CASE Parse
  <2>1. UNCHANGED <<args, i, flags, positional>> /\ pc = "parse" /\ outcome.do = "exit"
    BY <1>5 DEF Parse, RootsInv
  <2>2. /\ pc' \in {"parse", "dispatch", "done"} /\ outcome'.do = "exit"
        /\ pc' = "dispatch" => opts' = opts
    BY <1>5, <2>1 DEF Parse, SetComplete, SetValued, ParseFails, EndOfFlags, Exit
  <2>3. RootGiven => RootGiven'
    <3>1. CASE opts' = opts
      BY <3>1 DEF RootGiven
    <3>2. CASE opts' # opts
      <4>1. SetComplete \/ SetValued
        BY <1>5, <3>2 DEF Parse, ParseFails, EndOfFlags
      <4>2. ~ Stops
        BY <1>5, <3>2 DEF Parse
      <4>3. PICK v \in Argument : opts' = Append(opts, << rest[1], v >>) /\ rest[1] \in Flags
        <5>1. rest \in Seq(Argument)
          BY DEF TypeOK
        <5>2. CASE SetComplete
          BY <5>2, Kinds DEF SetComplete, Flags
        <5>3. CASE SetValued
          <6>1. Len(rest) > 1 /\ Len(rest) \in Nat
            BY <5>1, <5>3, LenProperties DEF SetValued, HasValue
          <6>2. 2 \in 1..Len(rest)
            BY <6>1
          <6>3. rest[2] \in Argument
            BY <5>1, <6>2, ElementOfSeq
          <6> QED
            BY <5>3, <6>3 DEF SetValued, Flags
        <5> QED
          BY <4>1, <5>2, <5>3
      <4>4. << rest[1], v >> \in Flags \X Argument
        BY <4>3
      <4> QED
        BY <4>3, <4>4, RootStaysGiven
    <3> QED
      BY <3>1, <3>2
  <2>4. ASSUME NEW k \in 1..Len(args), Clear(k)
        PROVE  /\ Moved(k)'
               /\ pc' = "parse" =>
                    RootGiven' \/ \E n \in Nat : RootBehind(flags', n) /\ AtFlag(n)'
               /\ pc' = "dispatch" => RootGiven'
    <3>1. Moved(k) /\ (RootGiven \/ \E n \in Nat : RootBehind(flags, n) /\ AtFlag(n))
      BY <2>1, <2>4 DEF RootsInv
    <3>2. Moved(k)'
      BY <1>2, <2>1, <3>1
    <3>3. CASE RootGiven
      BY <2>3, <3>2, <3>3
    <3>4. CASE \E n \in Nat : RootBehind(flags, n) /\ AtFlag(n)
      <4>1. PICK n \in Nat : RootBehind(flags, n) /\ AtFlag(n)
        BY <3>4
      <4>2. pc' = "done" \/ (pc' = "parse" /\ (RootGiven' \/ AtFlag(n)'))
        BY <1>5, <4>1, RootsParsed
      <4>3. RootBehind(flags', n)
        BY <2>1, <4>1
      <4> QED
        BY <3>2, <4>2, <4>3
    <3> QED
      BY <3>1, <3>3, <3>4
  <2>5. i' = Len(args') + 1
    BY <2>1 DEF RootsInv
  <2>6. outcome'.do # "serve cwd"
    BY <2>2
  <2> QED
    BY <1>1, <2>1, <2>2, <2>4, <2>5, <2>6 DEF RootsInv
<1>6. CASE Dispatch
  <2>1. /\ UNCHANGED <<cmd, args, i, flags, positional, rest, opts>>
        /\ pc = "dispatch" /\ pc' = "done" /\ outcome' = Command(opts, rest)
    BY <1>6 DEF Dispatch
  <2>2. i' = Len(args') + 1
    BY <2>1 DEF RootsInv
  <2>3. ASSUME NEW k \in 1..Len(args), Clear(k)
        PROVE  Moved(k)' /\ outcome'.do # "serve cwd"
    <3>1. Moved(k) /\ RootGiven
      BY <2>1, <2>3 DEF RootsInv
    <3>2. ASSUME outcome'.do = "serve cwd" PROVE FALSE
      <4>1. cmd = "serve" /\ Given(opts, "rootDirs") = <<>>
        BY <2>1, <3>2, CommandType DEF TypeOK
      <4> QED
        BY <3>1, <4>1, NothingGivenNoRoot DEF TypeOK
    <3> QED
      BY <1>2, <2>1, <3>1, <3>2
  <2> QED
    BY <1>1, <2>1, <2>2, <2>3 DEF RootsInv
<1>7. CASE UNCHANGED vars
  <2>1. UNCHANGED <<cmd, args, i, flags, positional, rest, opts, pc, outcome>>
    BY <1>7 DEF vars
  <2>2. Result' = Result /\ RootGiven' = RootGiven
    BY <2>1 DEF Result, RootGiven
  <2>3. ASSUME NEW n \in Nat PROVE AtFlag(n)' <=> AtFlag(n)
    BY <2>1, <2>2 DEF AtFlag
  <2> QED
    BY <1>1, <1>2, <2>1, <2>2, <2>3 DEF RootsInv
<1> QED
  BY <1>3, <1>4, <1>5, <1>6, <1>7 DEF Next

(* serve shares its working directory although roots were named only if     *)
(* each of them comes after a "-", a "--", a word behind a complete flag or *)
(* a string flag without a value of its own.                                *)
THEOREM RootsAreHonoured == Spec => []RootsHonoured
<1>1. TypeOK /\ RootsInv => RootsHonoured
  <2> SUFFICES ASSUME RootsInv, outcome.do = "serve cwd",
                      NEW k \in 1..Len(args), args[k] \in RootFlags,
                      \A j \in 1..k - 1 : ~ LeadsAstray(j)
               PROVE  FALSE
    BY DEF RootsHonoured
  <2> QED
    BY DEF RootsInv, Clear
<1> QED
  BY <1>1, RootsInit, RootsStep, ArgsTypesCorrect, PTL DEF Spec
-----------------------------------------------------------------------------
(* What a plain command line means, a prefix of it at a time: where its     *)
(* first n arguments have flags and where they have words that are no       *)
(* values, and what every place would set, were it a flag.                  *)
FlagsOf(s, n) == { k \in 1..n : s[k] \in Flags }

WordsOf(n) == { k \in 1..n : args[k] \in Words /\ ~ IsValue(k) }

Settings(s) ==
  [ k \in 1..Len(s) |-> << s[k], IF s[k] \in Valued THEN s[k + 1] ELSE s[k] >> ]

(* What the first n of the moved flags set. *)
SetBy(n) == At(Settings(flags), FlagsOf(flags, n))

(* The moved flags are complete, or valued with a valid word behind. *)
WholeFlags ==
  \A j \in 1..Len(flags) :
    \/ flags[j] \in Complete \ Undefined
    \/ /\ flags[j] \in Valued \ Undefined /\ j < Len(flags)
       /\ flags[j + 1] \in Words /\ Valid(flags[j], flags[j + 1])
    \/ flags[j] \in Words /\ j > 1 /\ flags[j - 1] \in Valued

(* The places of the moved flags, in order. *)
FlagsInOrder ==
  \A k \in 1..Cardinality(FlagsOf(flags, Len(flags))) :
    InOrder(FlagsOf(flags, Len(flags)))[k] \in FlagsOf(flags, Len(flags))

(* reorderArgs keeps the meaning of what it has moved. *)
MeaningMoved ==
  /\ WholeFlags /\ FlagsInOrder
  /\ SetBy(Len(flags)) = At(Settings(args), FlagsOf(args, i - 1))
  /\ SetBy(Len(flags)) \in Seq(Flags \X Argument)
  /\ positional = At(args, WordsOf(i - 1))
  /\ \A j \in 1..Len(positional) : positional[j] \in Words

(* Parse has set the first d of the flags and comes to a flag or the words. *)
ParsedTo(d) ==
  /\ d <= Len(flags) /\ Suffix(rest, Result, d)
  /\ opts = SetBy(d)
  /\ d < Len(flags) => flags[d + 1] \in Flags

PlainInv ==
  /\ pc # "reorder" => i = Len(args) + 1
  /\ pc = "reorder" => opts = <<>>
  /\ Plain =>
       /\ MeaningMoved
       /\ pc = "reorder" => ~ IsValue(i)
       /\ pc = "parse" => \E d \in Nat : ParsedTo(d)
       /\ pc = "dispatch" => rest = positional /\ opts = SetBy(Len(flags))
       /\ pc = "done" => outcome = Meaning

Below(S, j) == { h \in S : h < j }

(* A place behind all others comes last. *)
LEMMA InOrderGrows ==
  ASSUME NEW S \in SUBSET Int, IsFiniteSet(S), NEW x \in Int, \A h \in S : h < x
  PROVE  /\ Cardinality(S) \in Nat /\ Cardinality(S \cup {x}) = Cardinality(S) + 1
         /\ \A k \in 1..Cardinality(S) : InOrder(S \cup {x})[k] = InOrder(S)[k]
         /\ InOrder(S \cup {x})[Cardinality(S) + 1] = x
<1>1. x \notin S /\ ~ (x < x)
  OBVIOUS
<1>2. Cardinality(S) \in Nat /\ Cardinality(S \cup {x}) = Cardinality(S) + 1
  BY <1>1, FS_CardinalityType, FS_AddElement
<1>3. PICK n \in Nat : n = Cardinality(S)
  BY <1>2
<1>4. ASSUME NEW j \in S
      PROVE  /\ Below(S \cup {x}, j) = Below(S, j)
             /\ Cardinality(Below(S, j)) \in Nat /\ Cardinality(Below(S, j)) < n
  <2>1. ~ (x < j) /\ ~ (j < j)
    OBVIOUS
  <2>2. Below(S \cup {x}, j) = Below(S, j)
    BY <2>1 DEF Below
  <2>3. Below(S, j) \in SUBSET S /\ Below(S, j) # S
    BY <2>1 DEF Below
  <2>4. IsFiniteSet(Below(S, j)) /\ Cardinality(Below(S, j)) <= n
        /\ Cardinality(Below(S, j)) # n
    BY <1>3, <2>3, FS_Subset
  <2>5. Cardinality(Below(S, j)) \in Nat
    BY <2>4, FS_CardinalityType
  <2> QED
    BY <2>2, <2>4, <2>5
<1>5. Below(S \cup {x}, x) = S
  BY <1>1 DEF Below
<1>6. ASSUME NEW k \in 1..n
      PROVE  InOrder(S \cup {x})[k] = InOrder(S)[k]
  <2>1. k \in 1..n + 1 /\ k - 1 # n
    OBVIOUS
  <2>2. InOrder(S)[k] = CHOOSE j \in S : Cardinality(Below(S, j)) = k - 1
    BY <1>3 DEF InOrder, Below
  <2>3. InOrder(S \cup {x})[k]
          = CHOOSE j \in S \cup {x} : Cardinality(Below(S \cup {x}, j)) = k - 1
    BY <1>2, <1>3, <2>1 DEF InOrder, Below
  <2>4. ASSUME NEW j
        PROVE  (j \in S /\ Cardinality(Below(S, j)) = k - 1)
                 <=> (j \in S \cup {x} /\ Cardinality(Below(S \cup {x}, j)) = k - 1)
    <3>1. CASE j \in S
      BY <1>4, <3>1
    <3>2. CASE j = x
      BY <1>1, <1>3, <1>5, <2>1, <3>2
    <3> QED
      BY <3>1, <3>2
  <2>5. (CHOOSE j \in S : Cardinality(Below(S, j)) = k - 1)
          = CHOOSE j \in S \cup {x} : Cardinality(Below(S \cup {x}, j)) = k - 1
    BY <2>4, Zenon
  <2> QED
    BY <2>2, <2>3, <2>5
<1>7. InOrder(S \cup {x})[n + 1] = x
  <2>1. PICK k \in 1..n + 1 : k = n + 1 /\ k - 1 = n
    OBVIOUS
  <2>2. InOrder(S \cup {x})[k]
          = CHOOSE j \in S \cup {x} : Cardinality(Below(S \cup {x}, j)) = k - 1
    BY <1>2, <1>3, <2>1 DEF InOrder, Below
  <2>3. \A j \in S \cup {x} : Cardinality(Below(S \cup {x}, j)) = k - 1 <=> j = x
    <3>1. Cardinality(Below(S \cup {x}, x)) = n
      BY <1>3, <1>5
    <3>2. \A j \in S : Cardinality(Below(S \cup {x}, j)) # n
      <4>1. \A c \in Nat : c < n => c # n
        OBVIOUS
      <4> QED
        BY <1>4, <4>1, Zenon
    <3> QED
      BY <2>1, <3>1, <3>2, Zenon
  <2>4. (CHOOSE j \in S \cup {x} : Cardinality(Below(S \cup {x}, j)) = k - 1) = x
    BY <2>3
  <2> QED
    BY <2>1, <2>2, <2>4
<1> QED
  BY <1>2, <1>3, <1>6, <1>7

(* What stands at these places then has one more at its end. *)
LEMMA AtGrows ==
  ASSUME NEW S \in SUBSET Int, IsFiniteSet(S), NEW x \in Int, \A h \in S : h < x,
         NEW T, NEW s, s[x] \in T, At(s, S) \in Seq(T)
  PROVE  At(s, S \cup {x}) = Append(At(s, S), s[x]) /\ At(s, S \cup {x}) \in Seq(T)
<1>1. /\ Cardinality(S) \in Nat /\ Cardinality(S \cup {x}) = Cardinality(S) + 1
      /\ \A k \in 1..Cardinality(S) : InOrder(S \cup {x})[k] = InOrder(S)[k]
      /\ InOrder(S \cup {x})[Cardinality(S) + 1] = x
  BY InOrderGrows
<1>2. PICK n \in Nat : n = Cardinality(S)
  BY <1>1
<1> DEFINE u == At(s, S)
           v == At(s, S \cup {x})
           w == Append(u, s[x])
<1>3. u = [ k \in 1..n |-> s[InOrder(S)[k]] ]
  BY <1>2 DEF At, InOrder
<1>4. v = [ k \in 1..n + 1 |-> s[InOrder(S \cup {x})[k]] ]
  BY <1>1, <1>2 DEF At, InOrder
<1>5. u \in Seq(T) /\ Len(u) = n
  <2>1. DOMAIN u = 1..n /\ DOMAIN u = 1..Len(u) /\ Len(u) \in Nat
    BY <1>3, LenProperties
  <2> HIDE DEF u
  <2>2. \A l \in Nat : 1..n = 1..l => l = n
    OBVIOUS
  <2> QED
    BY <2>1, <2>2 DEF u
<1>6. /\ w \in Seq(T) /\ Len(w) = n + 1 /\ w[n + 1] = s[x]
      /\ \A k \in 1..n : w[k] = u[k]
  <2> HIDE DEF u
  <2> QED
    BY <1>5, AppendProperties
<1>7. \A k \in 1..n + 1 : v[k] = w[k]
  <2>1. \A k \in 1..n + 1 : k \in 1..n \/ k = n + 1
    OBVIOUS
  <2>2. ASSUME NEW k \in 1..n PROVE v[k] = u[k]
    <3>1. k \in 1..n + 1
      OBVIOUS
    <3>2. u[k] = s[InOrder(S)[k]] /\ v[k] = s[InOrder(S \cup {x})[k]]
      BY <1>3, <1>4, <3>1, Zenon
    <3>3. InOrder(S \cup {x})[k] = InOrder(S)[k]
      BY <1>1, <1>2
    <3> QED
      BY <3>2, <3>3, Zenon
  <2>3. v[n + 1] = s[x]
    <3>1. n + 1 \in 1..n + 1
      OBVIOUS
    <3> QED
      BY <1>1, <1>2, <1>4, <3>1
  <2> HIDE DEF u, v, w
  <2> QED
    BY <1>6, <2>1, <2>2, <2>3
<1>8. w = [ k \in 1..n + 1 |-> w[k] ]
  <2> HIDE DEF w
  <2>1. w \in [1..Len(w) -> T]
    BY <1>6, LenProperties
  <2> QED
    BY <1>6, <2>1
<1>9. v = [ k \in 1..n + 1 |-> v[k] ]
  BY <1>4
<1> HIDE DEF v, w
<1>10. v = w
  BY <1>7, <1>8, <1>9, Zenon
<1> QED
  BY <1>6, <1>10 DEF v, w, u

(* What is taken from no place is nothing. *)
LEMMA AtNowhere ==
  ASSUME NEW s
  PROVE  At(s, {}) = <<>> /\ \A T : At(s, {}) \in Seq(T)
<1>1. Cardinality({}) = 0
  BY FS_EmptySet, Zenon
<1>2. 1..0 = {}
  OBVIOUS
<1>3. At(s, {}) = [ k \in {} |-> s[InOrder({})[k]] ]
  BY <1>1, <1>2 DEF At, InOrder
<1>4. At(s, {}) = <<>>
  BY <1>3
<1> QED
  BY <1>4, EmptyLine

(* Two lines that agree at some places. *)
LEMMA AtSame ==
  ASSUME NEW S, NEW s, NEW t, \A k \in S : s[k] = t[k],
         \A k \in 1..Cardinality(S) : InOrder(S)[k] \in S
  PROVE  At(s, S) = At(t, S)
<1> DEFINE f == InOrder(S)
<1>1. \A k \in DOMAIN f : f[k] \in S
  BY DEF InOrder
<1> HIDE DEF f
<1>2. \A k \in DOMAIN f : s[f[k]] = t[f[k]]
  BY <1>1
<1>3. At(s, S) = [ k \in DOMAIN f |-> s[f[k]] ] /\ At(t, S) = [ k \in DOMAIN f |-> t[f[k]] ]
  BY DEF At, f
<1> QED
  BY <1>2, <1>3

(* The places up to n, and one more. *)
LEMMA PlacesUpTo ==
  ASSUME NEW n \in Nat, NEW S \in SUBSET (1..n)
  PROVE  S \in SUBSET Int /\ IsFiniteSet(S) /\ \A x \in Int : n < x => \A h \in S : h < x
<1>1. IsFiniteSet(1..n)
  BY FS_Interval
<1>2. IsFiniteSet(S)
  BY <1>1, FS_Subset
<1>3. \A x \in Int : n < x => \A h \in 1..n : h \in Int /\ h < x
  OBVIOUS
<1>4. \A h \in 1..n : h \in Int
  OBVIOUS
<1> QED
  BY <1>2, <1>3, <1>4

(* What moving the flag x, alone or with its value, does to flags and i. *)
FlagMoved(x, w) ==
  /\ w \in {1, 2} /\ x = args[i] /\ x \in Flags \ Undefined /\ i + w <= Len(args) + 1
  /\ args' = args /\ cmd' = cmd /\ positional' = positional /\ i' = i + w
  /\ Len(flags') = Len(flags) + w /\ flags' \in Seq(Argument)
  /\ \A j \in 1..Len(flags) : flags'[j] = flags[j]
  /\ flags'[Len(flags) + 1] = x
  /\ w = 1 => x \in Complete
  /\ w = 2 => /\ x \in Valued /\ args[i + 1] \in Words /\ Valid(x, args[i + 1])
              /\ flags'[Len(flags) + 2] = args[i + 1]

(* The flags are still whole. *)
LEMMA WholeFlagsMoved ==
  ASSUME TypeOK, WholeFlags, NEW x, NEW w, FlagMoved(x, w)
  PROVE  WholeFlags'
<1>1. PICK n \in Nat : n = Len(flags)
  BY LenProperties DEF TypeOK
<1>2. /\ Len(flags') = n + w /\ flags'[n + 1] = x /\ w \in {1, 2}
      /\ \A j \in 1..n : flags'[j] = flags[j]
      /\ x \in Flags \ Undefined
      /\ w = 1 => x \in Complete
      /\ w = 2 => x \in Valued /\ flags'[n + 2] \in Words /\ Valid(x, flags'[n + 2])
      /\ Undefined' = Undefined
  BY <1>1 DEF FlagMoved, Undefined
<1>3. ASSUME NEW j \in 1..n
      PROVE  \/ flags'[j] \in Complete \ Undefined
             \/ /\ flags'[j] \in Valued \ Undefined /\ j < n + w
                /\ flags'[j + 1] \in Words /\ Valid(flags'[j], flags'[j + 1])
             \/ flags'[j] \in Words /\ j > 1 /\ flags'[j - 1] \in Valued
  <2>1. /\ j < n => j + 1 \in 1..n /\ j < n + w
        /\ j > 1 => j - 1 \in 1..n
    BY <1>2
  <2>2. \/ flags[j] \in Complete \ Undefined
        \/ /\ flags[j] \in Valued \ Undefined /\ j < n
           /\ flags[j + 1] \in Words /\ Valid(flags[j], flags[j + 1])
        \/ flags[j] \in Words /\ j > 1 /\ flags[j - 1] \in Valued
    BY <1>1 DEF WholeFlags
  <2> QED
    BY <1>2, <2>1, <2>2
<1>4. CASE w = 1
  <2>1. \A j \in 1..n + 1 : j \in 1..n \/ j = n + 1
    OBVIOUS
  <2> QED
    BY <1>2, <1>3, <1>4, <2>1 DEF WholeFlags, Valid
<1>5. CASE w = 2
  <2>1. /\ \A j \in 1..n + 2 : j \in 1..n \/ j = n + 1 \/ j = n + 2
        /\ n + 1 < n + 2 /\ n + 1 + 1 = n + 2 /\ n + 2 > 1 /\ n + 2 - 1 = n + 1
    OBVIOUS
  <2>2. /\ flags'[n + 1] \in Valued \ Undefined /\ n + 1 < n + 2
        /\ flags'[n + 1 + 1] \in Words /\ Valid(flags'[n + 1], flags'[n + 1 + 1])
    BY <1>2, <1>5, <2>1
  <2>3. flags'[n + 2] \in Words /\ n + 2 > 1 /\ flags'[n + 2 - 1] \in Valued
    BY <1>2, <1>5, <2>1
  <2> QED
    BY <1>2, <1>3, <1>5, <2>1, <2>2, <2>3 DEF WholeFlags, Valid
<1> QED
  BY <1>2, <1>4, <1>5

(* The moved flag sets what the flag sets where it stood. *)
LEMMA MeaningOfFlagMoved ==
  ASSUME TypeOK, i <= Len(args), MeaningMoved, NEW x, NEW w, FlagMoved(x, w)
  PROVE  MeaningMoved' /\ ~ IsValue(i)'
<1>1. PICK n \in Nat, l \in Nat : n = Len(flags) /\ l = Len(args)
  BY LenProperties DEF TypeOK
<1>2. /\ flags \in Seq(Argument) /\ args \in Seq(Argument) /\ i \in 1..l
  <2>1. flags \in Seq(Argument) /\ args \in Seq(Argument) /\ i \in 1..l + 1 /\ i <= l
    BY <1>1, Zenon DEF TypeOK
  <2> QED
    BY <2>1
<1>3. /\ Len(flags') = n + w /\ flags'[n + 1] = x /\ w \in {1, 2}
      /\ \A j \in 1..n : flags'[j] = flags[j]
      /\ x \in Flags /\ x = args[i] /\ i + w <= l + 1
      /\ w = 1 => x \notin Valued
      /\ w = 2 => x \in Valued /\ args[i + 1] \in Words /\ flags'[n + 2] = args[i + 1]
      /\ args' = args /\ positional' = positional /\ i' = i + w
  BY <1>1, Kinds DEF FlagMoved
<1> DEFINE G == FlagsOf(flags, n)
           F == FlagsOf(args, i - 1)
<1>4. FlagsOf(flags', n + w) = G \cup {n + 1}
  <2>1. /\ \A j \in 1..n + w : j \in 1..n \/ j = n + 1 \/ (w = 2 /\ j = n + 2)
        /\ \A j \in 1..n : j \in 1..n + w
        /\ n + 1 \in 1..n + w
    BY <1>3
  <2>2. w = 2 => flags'[n + 2] \notin Flags
    BY <1>3, Kinds
  <2> QED
    BY <1>3, <2>1, <2>2 DEF FlagsOf
<1>5. FlagsOf(args, i + w - 1) = F \cup {i}
  <2>1. /\ \A j \in 1..i + w - 1 : j \in 1..i - 1 \/ j = i \/ (w = 2 /\ j = i + 1)
        /\ \A j \in 1..i - 1 : j \in 1..i + w - 1
        /\ i \in 1..i + w - 1
    BY <1>2, <1>3
  <2>2. w = 2 => args[i + 1] \notin Flags
    BY <1>3, Kinds
  <2> QED
    BY <1>3, <2>1, <2>2 DEF FlagsOf
<1>6. WordsOf(i + w - 1) = WordsOf(i - 1)
  <2>1. /\ \A j \in 1..i + w - 1 : j \in 1..i - 1 \/ j = i \/ (w = 2 /\ j = i + 1)
        /\ \A j \in 1..i - 1 : j \in 1..i + w - 1
    BY <1>2, <1>3
  <2>2. i + 1 > 1 /\ (i + 1) - 1 = i
    BY <1>2
  <2>3. args[i] \notin Words /\ (w = 2 => IsValue(i + 1))
    <3>1. args[i] \notin Words
      BY <1>3, Kinds
    <3>2. PICK k : k = i + 1 /\ k > 1 /\ k - 1 = i
      BY <2>2, Zenon
    <3>3. w = 2 => IsValue(k)
      BY <1>3, <3>2 DEF IsValue
    <3> QED
      BY <3>1, <3>2, <3>3, Zenon
  <2> QED
    BY <2>1, <2>3 DEF WordsOf
<1>7. /\ G \in SUBSET Int /\ IsFiniteSet(G) /\ n + 1 \in Int /\ \A h \in G : h < n + 1
      /\ F \in SUBSET Int /\ IsFiniteSet(F) /\ i \in Int /\ \A h \in F : h < i
  <2>1. /\ n < n + 1 /\ n + 1 \in Int /\ i - 1 \in Nat /\ i - 1 < i /\ i \in Int
    BY <1>2
  <2>2. G \in SUBSET (1..n) /\ F \in SUBSET (1..i - 1)
    BY DEF FlagsOf
  <2> HIDE DEF G, F
  <2> QED
    BY <2>1, <2>2, PlacesUpTo
<1>8. /\ FlagsInOrder => \A k \in 1..Cardinality(G) : InOrder(G)[k] \in G
      /\ SetBy(Len(flags)) = At(Settings(flags), G)
  BY <1>1 DEF FlagsInOrder, SetBy
<1>9. /\ FlagsInOrder' = \A k \in 1..Cardinality(G \cup {n + 1}) :
                           InOrder(G \cup {n + 1})[k] \in G \cup {n + 1}
      /\ SetBy(Len(flags))' = At(Settings(flags'), G \cup {n + 1})
  BY <1>3, <1>4 DEF FlagsInOrder, SetBy
<1>10. Settings(flags')[n + 1] = Settings(args)[i]
       /\ Settings(args)[i] \in Flags \X Argument
  <2>1. /\ n + 1 \in 1..n + w /\ n + 1 + 1 = n + 2 /\ i \in 1..l
    BY <1>2, <1>3
  <2>2. Settings(flags')[n + 1] = << x, IF x \in Valued THEN flags'[n + 2] ELSE x >>
    BY <1>3, <2>1 DEF Settings
  <2>3. Settings(args)[i] = << x, IF x \in Valued THEN args[i + 1] ELSE x >>
    BY <1>1, <1>3, <2>1 DEF Settings
  <2>4. x \in Argument /\ (w = 2 => args[i + 1] \in Argument)
    BY <1>3, Kinds DEF Argument
  <2> QED
    BY <1>3, <2>2, <2>3, <2>4
<1>11. ASSUME NEW k \in G PROVE Settings(flags)[k] = Settings(flags')[k]
  <2>1. k \in 1..n /\ flags[k] \in Flags
    BY DEF FlagsOf
  <2>2. k \in 1..n + w /\ (k < n => k + 1 \in 1..n)
    BY <1>3, <2>1
  <2>3. flags[k] \in Valued => k < n
    BY <1>1, <2>1, Kinds DEF MeaningMoved, WholeFlags
  <2>4. Settings(flags)[k] = << flags[k], IF flags[k] \in Valued THEN flags[k + 1] ELSE flags[k] >>
    BY <1>1, <2>1 DEF Settings
  <2>5. Settings(flags')[k]
          = << flags'[k], IF flags'[k] \in Valued THEN flags'[k + 1] ELSE flags'[k] >>
    BY <1>3, <2>2 DEF Settings
  <2> QED
    BY <1>3, <2>1, <2>2, <2>3, <2>4, <2>5
<1> HIDE DEF G, F
<1>12. \A k \in 1..Cardinality(G) : InOrder(G)[k] \in G
  BY <1>8 DEF MeaningMoved
<1>13. At(Settings(flags'), G) = At(Settings(flags), G)
  <2>1. PICK s, t : s = Settings(flags) /\ t = Settings(flags')
    OBVIOUS
  <2>2. At(s, G) = At(t, G)
    BY <1>11, <1>12, <2>1, AtSame
  <2> QED
    BY <2>1, <2>2, Zenon
<1>14. /\ At(Settings(flags'), G) = At(Settings(args), F)
       /\ At(Settings(args), F) \in Seq(Flags \X Argument)
  BY <1>8, <1>13 DEF MeaningMoved, F
<1>15. At(Settings(flags'), G \cup {n + 1}) = At(Settings(args), F \cup {i})
       /\ At(Settings(args), F \cup {i}) \in Seq(Flags \X Argument)
  <2>1. PICK s, t, T : s = Settings(args) /\ t = Settings(flags') /\ T = Flags \X Argument
    OBVIOUS
  <2>2. /\ s[i] \in T /\ t[n + 1] = s[i] /\ t[n + 1] \in T
        /\ At(t, G) = At(s, F) /\ At(s, F) \in Seq(T) /\ At(t, G) \in Seq(T)
    BY <1>10, <1>14, <2>1, Zenon
  <2>3. /\ At(s, F \cup {i}) = Append(At(s, F), s[i])
        /\ At(s, F \cup {i}) \in Seq(T)
    BY <1>7, <2>2, AtGrows, Zenon
  <2>4. At(t, G \cup {n + 1}) = Append(At(t, G), t[n + 1])
    <3>1. PICK z : z = n + 1
      OBVIOUS
    <3>2. /\ z \in Int /\ (\A h \in G : h < z) /\ t[z] \in T
          /\ G \in SUBSET Int /\ IsFiniteSet(G) /\ At(t, G) \in Seq(T)
      BY <1>7, <2>2, <3>1, Zenon
    <3>3. At(t, G \cup {z}) = Append(At(t, G), t[z])
      BY <3>2, AtGrows, Zenon
    <3> QED
      BY <3>1, <3>3, Zenon
  <2> QED
    BY <2>1, <2>2, <2>3, <2>4, Zenon
<1>16. \A k \in 1..Cardinality(G \cup {n + 1}) :
         InOrder(G \cup {n + 1})[k] \in G \cup {n + 1}
  <2>1. /\ Cardinality(G) \in Nat /\ Cardinality(G \cup {n + 1}) = Cardinality(G) + 1
        /\ \A k \in 1..Cardinality(G) : InOrder(G \cup {n + 1})[k] = InOrder(G)[k]
        /\ InOrder(G \cup {n + 1})[Cardinality(G) + 1] = n + 1
    BY <1>7, InOrderGrows
  <2>2. \A c \in Nat : \A k \in 1..c + 1 : k \in 1..c \/ k = c + 1
    OBVIOUS
  <2> QED
    BY <1>12, <2>1, <2>2
<1>17. WholeFlags'
  BY WholeFlagsMoved DEF MeaningMoved
<1>p. i' - 1 = i + w - 1 /\ args' = args
  BY <1>2, <1>3
<1>18. /\ SetBy(Len(flags))' = At(Settings(args), FlagsOf(args, i - 1))'
       /\ SetBy(Len(flags))' \in Seq(Flags \X Argument)
       /\ FlagsInOrder'
  <2>1. At(Settings(args), FlagsOf(args, i - 1))' = At(Settings(args), F \cup {i})
    <3>1. FlagsOf(args, i - 1)' = F \cup {i}
      BY <1>p, <1>5, Zenon DEF FlagsOf
    <3>2. Settings(args)' = Settings(args)
      BY <1>p DEF Settings
    <3> QED
      BY <3>1, <3>2, Zenon
  <2> QED
    BY <1>9, <1>15, <1>16, <2>1, Zenon
<1>19. positional' = At(args, WordsOf(i - 1))'
  <2>1. WordsOf(i - 1)' = WordsOf(i + w - 1)
    BY <1>p, Zenon DEF WordsOf, IsValue
  <2>2. At(args, WordsOf(i - 1))' = At(args, WordsOf(i - 1))
    BY <1>3, <1>6, <2>1, Zenon DEF At
  <2> QED
    BY <1>3, <2>2 DEF MeaningMoved
<1>20. ~ IsValue(i)'
  <2>1. w = 1 => i + w - 1 = i
    BY <1>2
  <2>2. w = 2 => i + w - 1 = i + 1
    BY <1>2
  <2>3. args[i + w - 1] \notin Valued
    BY <1>3, <2>1, <2>2, Kinds DEF Flags
  <2>4. args'[i' - 1] \notin Valued
    BY <1>p, <2>3, Zenon
  <2> QED
    BY <2>4, Zenon DEF IsValue
<1> QED
  BY <1>3, <1>17, <1>18, <1>19, <1>20 DEF MeaningMoved

(* A word that is no value joins the words. *)
LEMMA MeaningOfWordMoved ==
  ASSUME TypeOK, i <= Len(args), MeaningMoved, args[i] \in Words, ~ IsValue(i),
         args' = args, cmd' = cmd, flags' = flags, i' = i + 1,
         positional' = Append(positional, args[i])
  PROVE  MeaningMoved' /\ ~ IsValue(i)'
<1>1. PICK m \in Nat, l \in Nat : m = Len(positional) /\ l = Len(args)
  BY LenProperties DEF TypeOK
<1>2. positional \in Seq(Argument) /\ i \in 1..l
  <2>1. positional \in Seq(Argument) /\ i \in 1..l + 1 /\ i <= l
    BY <1>1, Zenon DEF TypeOK
  <2> QED
    BY <2>1
<1>3. /\ i' - 1 = i /\ i - 1 \in Nat /\ i - 1 < i /\ i \in Int
      /\ \A j \in 1..i : j \in 1..i - 1 \/ j = i
      /\ \A j \in 1..i - 1 : j \in 1..i
      /\ i \in 1..i
  BY <1>2
<1> DEFINE W == WordsOf(i - 1)
<1>4. WordsOf(i) = W \cup {i}
  BY <1>3 DEF WordsOf
<1>5. FlagsOf(args, i) = FlagsOf(args, i - 1)
  BY <1>3, Kinds DEF FlagsOf
<1>6. W \in SUBSET Int /\ IsFiniteSet(W) /\ \A h \in W : h < i
  <2>1. W \in SUBSET (1..i - 1)
    BY DEF WordsOf
  <2> HIDE DEF W
  <2> QED
    BY <1>3, <2>1, PlacesUpTo
<1>7. args[i] \in Argument
  BY DEF Argument
<1> HIDE DEF W
<1>8. At(args, W \cup {i}) = Append(positional, args[i])
  <2>1. positional = At(args, W)
    BY DEF MeaningMoved, W
  <2>2. /\ args[i] \in Argument /\ At(args, W) \in Seq(Argument) /\ i \in Int
        /\ W \in SUBSET Int /\ IsFiniteSet(W) /\ \A h \in W : h < i
    BY <1>2, <1>3, <1>6, <1>7, <2>1
  <2>3. At(args, W \cup {i}) = Append(At(args, W), args[i])
    BY <2>2, AtGrows, Zenon
  <2> QED
    BY <2>1, <2>3, Zenon
<1>9. positional' = At(args, WordsOf(i - 1))'
  <2>1. WordsOf(i - 1)' = WordsOf(i)
    BY <1>3, Zenon DEF WordsOf, IsValue
  <2>2. At(args, WordsOf(i - 1))' = At(args, WordsOf(i))
    BY <2>1, Zenon DEF At
  <2> QED
    BY <1>4, <1>8, <2>2, Zenon
<1>10. \A j \in 1..Len(positional') : positional'[j] \in Words
  <2>1. /\ Len(positional') = m + 1 /\ positional'[m + 1] = args[i]
        /\ \A j \in 1..m : positional'[j] = positional[j]
    BY <1>1, <1>2, <1>7, AppendProperties
  <2>2. \A j \in 1..m + 1 : j \in 1..m \/ j = m + 1
    OBVIOUS
  <2> QED
    BY <1>1, <2>1, <2>2 DEF MeaningMoved
<1>11. At(Settings(args), FlagsOf(args, i - 1))' = At(Settings(args), FlagsOf(args, i - 1))
  <2>1. FlagsOf(args, i - 1)' = FlagsOf(args, i - 1)
    BY <1>3, <1>5, Zenon DEF FlagsOf
  <2>2. Settings(args)' = Settings(args)
    BY Zenon DEF Settings
  <2> QED
    BY <2>1, <2>2, Zenon
<1>12. /\ SetBy(Len(flags))' = SetBy(Len(flags))
       /\ (FlagsInOrder <=> FlagsInOrder')
  BY Zenon DEF SetBy, Settings, FlagsOf, FlagsInOrder
<1>13. ~ IsValue(i)'
  <2>1. args[i] \notin Valued
    BY Kinds DEF Flags
  <2> QED
    BY <1>3, <2>1, Zenon DEF IsValue
<1>14. WholeFlags'
  BY DEF MeaningMoved, WholeFlags, Valid, Undefined
<1> QED
  BY <1>9, <1>10, <1>11, <1>12, <1>13, <1>14 DEF MeaningMoved

(* So every step of reorderArgs keeps the meaning of a plain line. *)
LEMMA MeaningReordered ==
  ASSUME TypeOK, Plain, MeaningMoved, ~ IsValue(i), Reorder
  PROVE  MeaningMoved' /\ ~ IsValue(i)'
<1>1. PICK n \in Nat, l \in Nat : n = Len(flags) /\ l = Len(args)
  BY LenProperties DEF TypeOK
<1>2. /\ args \in Seq(Argument) /\ flags \in Seq(Argument) /\ i \in 1..l + 1
      /\ args' = args /\ cmd' = cmd
  BY <1>1, Zenon DEF TypeOK, Reorder
<1>3. i <= l
  BY <1>1, Zenon DEF Reorder, AtDashDash, FlagAndValue, FlagAlone, Positional
<1>4. i \in 1..l /\ (i < l => i + 1 \in 1..l) /\ (i < l => i \in 1..l - 1)
      /\ i + 1 <= l + 1 /\ (i < l => i + 2 <= l + 1)
  BY <1>2, <1>3
<1>5. /\ args[i] \in Argument /\ args[i] \notin Negatives \cup {Dash, DashDash} \cup Undefined
      /\ args[i] \in Valued =>
           i < l /\ args[i + 1] \in Words /\ Valid(args[i], args[i + 1])
      /\ args[i] \in Complete /\ i < l => args[i + 1] \notin Words
  BY <1>1, <1>2, <1>4, ElementOfSeq DEF Plain, Stray
<1>6. LooksLikeFlag(args[i]) => args[i] \in Flags
  BY <1>5 DEF LooksLikeFlag, isBareValue, Dashed, Argument
<1>7. ~ LooksLikeFlag(args[i]) => args[i] \in Words
  BY <1>5, Kinds DEF LooksLikeFlag, isBareValue
<1>8. CASE FlagAndValue
  <2>1. /\ i < l /\ args[i + 1] \notin Dashed /\ args[i] \in Flags /\ i' = i + 2
        /\ flags' = flags \o << args[i], args[i + 1] >> /\ positional' = positional
    BY <1>1, <1>6, <1>8 DEF FlagAndValue, ValueFollows
  <2>2. args[i + 1] \in Argument
    BY <1>1, <1>2, <1>4, <2>1, ElementOfSeq
  <2>3. args[i + 1] \in Words /\ args[i] \in Valued
    BY <1>5, <2>1, <2>2, Kinds DEF Flags
  <2>4. PICK x \in Argument, y \in Argument : x = args[i] /\ y = args[i + 1]
    BY <1>5, <2>2
  <2>5. /\ << x, y >> \in Seq(Argument) /\ Len(<< x, y >>) = 2
        /\ << x, y >>[1] = x /\ << x, y >>[2] = y
    BY OneOrTwo
  <2>6. /\ flags' \in Seq(Argument) /\ Len(flags') = n + 2
        /\ \A j \in 1..n + 2 : flags'[j] = IF j <= n THEN flags[j] ELSE << x, y >>[j - n]
    BY <1>1, <1>2, <2>1, <2>4, <2>5, ConcatProperties
  <2>7. /\ \A j \in 1..n : j \in 1..n + 2 /\ j <= n
        /\ n + 1 \in 1..n + 2 /\ ~ (n + 1 <= n) /\ (n + 1) - n = 1
        /\ n + 2 \in 1..n + 2 /\ ~ (n + 2 <= n) /\ (n + 2) - n = 2
    OBVIOUS
  <2>8. /\ \A j \in 1..n : flags'[j] = flags[j]
        /\ flags'[n + 1] = x /\ flags'[n + 2] = y
    BY <2>5, <2>6, <2>7
  <2>9. FlagMoved(x, 2)
    BY <1>1, <1>2, <1>4, <1>5, <2>1, <2>3, <2>4, <2>6, <2>8 DEF FlagMoved
  <2> QED
    BY <1>1, <1>3, <2>9, MeaningOfFlagMoved
<1>9. CASE FlagAlone
  <2>1. PICK x \in Argument : x = args[i]
    BY <1>5
  <2>2. /\ x \in Flags /\ i' = i + 1 /\ flags' = Append(flags, x) /\ positional' = positional
        /\ i < l => args[i + 1] \in Dashed
    BY <1>1, <1>6, <1>9, <2>1 DEF FlagAlone, ValueFollows
  <2>3. x \in Complete
    BY <1>5, <2>1, <2>2, Kinds DEF Flags
  <2>4. /\ flags' \in Seq(Argument) /\ Len(flags') = n + 1 /\ flags'[n + 1] = x
        /\ \A j \in 1..n : flags'[j] = flags[j]
    BY <1>1, <1>2, <2>2, AppendProperties
  <2>5. FlagMoved(x, 1)
    BY <1>1, <1>2, <1>4, <1>5, <2>1, <2>2, <2>3, <2>4 DEF FlagMoved
  <2> QED
    BY <1>1, <1>3, <2>5, MeaningOfFlagMoved
<1>10. CASE Positional
  <2>1. /\ args[i] \in Words /\ flags' = flags /\ i' = i + 1
        /\ positional' = Append(positional, args[i])
    BY <1>7, <1>10 DEF Positional
  <2> QED
    BY <1>1, <1>2, <1>3, <2>1, MeaningOfWordMoved
<1> QED
  BY <1>5, <1>8, <1>9, <1>10 DEF Reorder, AtDashDash

(* The first zero arguments mean nothing. *)
LEMMA PlainInit == Init => PlainInv
<1> SUFFICES ASSUME Init PROVE PlainInv
  OBVIOUS
<1>1. /\ i = 1 /\ flags = <<>> /\ positional = <<>> /\ opts = <<>> /\ pc = "reorder"
  BY DEF Init
<1>2. Len(flags) = 0 /\ Len(positional) = 0
  BY <1>1, EmptyLine
<1>3. 1..0 = {} /\ i - 1 = 0 /\ ~ (1 > 1)
  BY <1>1
<1>4. FlagsOf(flags, Len(flags)) = {} /\ FlagsOf(args, i - 1) = {} /\ WordsOf(i - 1) = {}
  BY <1>2, <1>3 DEF FlagsOf, WordsOf
<1>5. Cardinality({}) = 0
  BY FS_EmptySet, Zenon
<1>6. FlagsInOrder
  BY <1>3, <1>4, <1>5, Zenon DEF FlagsInOrder
<1>7. /\ SetBy(Len(flags)) = <<>> /\ At(Settings(args), FlagsOf(args, i - 1)) = <<>>
      /\ At(args, WordsOf(i - 1)) = <<>>
  BY <1>4, AtNowhere, Zenon DEF SetBy
<1>8. <<>> \in Seq(Flags \X Argument)
  BY EmptyLine
<1>9. WholeFlags /\ \A j \in 1..Len(positional) : positional[j] \in Words
  BY <1>2, <1>3 DEF WholeFlags
<1>10. MeaningMoved
  BY <1>1, <1>6, <1>7, <1>8, <1>9 DEF MeaningMoved
<1>11. ~ IsValue(i)
  BY <1>1, <1>3 DEF IsValue
<1> QED
  BY <1>1, <1>10, <1>11 DEF PlainInv

(* The line Parse is given: first the flags, then the words. *)
LEMMA ResultParts ==
  ASSUME TypeOK
  PROVE  /\ Result \in Seq(Argument) /\ Len(Result) = Len(flags) + Len(positional)
         /\ Len(flags) \in Nat /\ Len(positional) \in Nat
         /\ \A j \in 1..Len(flags) : Result[j] = flags[j]
         /\ \A j \in 1..Len(positional) : Result[Len(flags) + j] = positional[j]
<1>1. PICK n \in Nat, m \in Nat : n = Len(flags) /\ m = Len(positional)
  BY LenProperties DEF TypeOK
<1>2. flags \in Seq(Argument) /\ positional \in Seq(Argument)
  BY DEF TypeOK
<1>3. /\ Result \in Seq(Argument) /\ Len(Result) = n + m
      /\ \A k \in 1..n + m : Result[k] = IF k <= n THEN flags[k] ELSE positional[k - n]
  BY <1>1, <1>2, ConcatProperties DEF Result
<1>4. /\ \A j \in 1..n : j \in 1..n + m /\ j <= n
      /\ \A j \in 1..m : n + j \in 1..n + m /\ ~ (n + j <= n) /\ (n + j) - n = j
  OBVIOUS
<1> QED
  BY <1>1, <1>3, <1>4

(* Once the flags are parsed, the words are what is left. *)
LEMMA WordsLeft ==
  ASSUME TypeOK, Suffix(rest, Result, Len(flags))
  PROVE  rest = positional
<1>1. PICK n \in Nat, m \in Nat : n = Len(flags) /\ m = Len(positional)
  BY ResultParts
<1>2. rest \in Seq(Argument) /\ positional \in Seq(Argument)
  BY DEF TypeOK
<1>3. /\ Len(rest) = (n + m) - n /\ \A k \in 1..Len(rest) : rest[k] = Result[n + k]
      /\ \A j \in 1..m : Result[n + j] = positional[j]
  BY <1>1, ResultParts DEF Suffix
<1>4. (n + m) - n = m
  OBVIOUS
<1>5. Len(rest) = Len(positional) /\ \A k \in 1..Len(rest) : rest[k] = positional[k]
  BY <1>1, <1>3, <1>4
<1> QED
  BY <1>2, <1>5, SeqEqual

(* Behind what the first d flags set comes what the next one sets. *)
LEMMA OneMoreSet ==
  ASSUME TypeOK, NEW d \in Nat, NEW w \in {1, 2}, d + w <= Len(flags),
         flags[d + 1] \in Flags, w = 2 => flags[d + 2] \notin Flags,
         NEW s \in Flags \X Argument, s = Settings(flags)[d + 1],
         SetBy(d) \in Seq(Flags \X Argument)
  PROVE  SetBy(d + w) = Append(SetBy(d), s)
<1> DEFINE G == FlagsOf(flags, d)
<1>1. /\ \A j \in 1..d + w : j \in 1..d \/ j = d + 1 \/ (w = 2 /\ j = d + 2)
      /\ \A j \in 1..d : j \in 1..d + w
      /\ d + 1 \in 1..d + w /\ d + 1 \in Int /\ d < d + 1
  OBVIOUS
<1>2. FlagsOf(flags, d + w) = G \cup {d + 1}
  BY <1>1 DEF FlagsOf
<1>3. G \in SUBSET Int /\ IsFiniteSet(G) /\ \A h \in G : h < d + 1
  <2>1. G \in SUBSET (1..d)
    BY DEF FlagsOf
  <2> HIDE DEF G
  <2> QED
    BY <1>1, <2>1, PlacesUpTo
<1>4. PICK x, t, T : x = d + 1 /\ t = Settings(flags) /\ T = Flags \X Argument
  OBVIOUS
<1>5. SetBy(d) = At(t, G) /\ SetBy(d + w) = At(t, G \cup {x})
  BY <1>2, <1>4 DEF SetBy
<1> HIDE DEF G
<1>6. /\ x \in Int /\ (\A h \in G : h < x) /\ t[x] \in T /\ At(t, G) \in Seq(T)
      /\ G \in SUBSET Int /\ IsFiniteSet(G)
  BY <1>1, <1>3, <1>4, <1>5, Zenon
<1>7. At(t, G \cup {x}) = Append(At(t, G), t[x])
  BY <1>6, AtGrows, Zenon
<1> QED
  BY <1>4, <1>5, <1>7, Zenon

(* Parse sets the flags one by one and stops at the words. *)
LEMMA MeaningParsed ==
  ASSUME TypeOK, MeaningMoved, Parse, NEW d \in Nat, ParsedTo(d)
  PROVE  \/ pc' = "parse" /\ \E e \in Nat : ParsedTo(e)'
         \/ pc' = "dispatch" /\ rest' = positional /\ opts' = SetBy(Len(flags))
<1>1. PICK n \in Nat, m \in Nat : n = Len(flags) /\ m = Len(positional)
  BY ResultParts
<1>2. /\ rest \in Seq(Argument) /\ flags \in Seq(Argument) /\ positional \in Seq(Argument)
      /\ opts \in Seq(Flags \X Argument)
      /\ pc = "parse" /\ flags' = flags /\ positional' = positional
  BY DEF TypeOK, Parse
<1>3. /\ Result \in Seq(Argument) /\ Len(Result) = n + m
      /\ \A j \in 1..n : Result[j] = flags[j]
      /\ \A j \in 1..m : Result[n + j] = positional[j]
      /\ Result' = Result
  BY <1>1, <1>2, ResultParts DEF Result
<1>4. /\ d <= n /\ Suffix(rest, Result, d) /\ opts = SetBy(d)
      /\ d < n => flags[d + 1] \in Flags
  BY <1>1 DEF ParsedTo
<1>5. CASE d = n
  <2>1. rest = positional
    BY <1>1, <1>4, <1>5, WordsLeft
  <2>2. Stops
    <3>1. CASE m = 0
      BY <1>1, <1>2, <2>1, <3>1, EmptySeq DEF Stops
    <3>2. CASE m # 0
      <4>1. 1 \in 1..m
        BY <3>2
      <4> QED
        BY <1>1, <2>1, <4>1 DEF MeaningMoved, Stops
    <3> QED
      BY <3>1, <3>2
  <2> QED
    BY <1>1, <1>4, <1>5, <2>1, <2>2 DEF Parse
<1>6. CASE d < n
  <2>1. /\ d < n + m /\ d + 1 \in 1..n /\ d + 1 <= n /\ d + 1 \in Nat /\ d + 2 \in Nat
        /\ (d + 1) + 1 = d + 2 /\ (d + 2) + 1 = d + 3 /\ (d + 2) - 1 = d + 1
        /\ (d + 3) - 1 = d + 2
        /\ d + 1 < n => d + 2 \in 1..n /\ d + 2 <= n
        /\ d + 2 < n => d + 3 \in 1..n
    BY <1>6
  <2>2. /\ rest # <<>> /\ rest[1] = flags[d + 1] /\ flags[d + 1] \in Flags
        /\ Suffix(Tail(rest), Result, d + 1)
    <3>1. d < Len(Result)
      BY <1>3, <2>1
    <3> QED
      BY <1>2, <1>3, <1>4, <1>6, <2>1, <3>1, SuffixOne
  <2>3. ~ Stops /\ rest[1] # DashDash /\ rest[1] \notin Negatives
    BY <2>2, Kinds DEF Stops
  <2>4. Settings(flags)[d + 1]
          = << rest[1], IF rest[1] \in Valued THEN flags[d + 2] ELSE rest[1] >>
    BY <1>1, <2>1, <2>2 DEF Settings
  <2>a. \A j \in 1..n :
          \/ flags[j] \in Complete \ Undefined
          \/ /\ flags[j] \in Valued \ Undefined /\ j < n
             /\ flags[j + 1] \in Words /\ Valid(flags[j], flags[j + 1])
          \/ flags[j] \in Words /\ j > 1 /\ flags[j - 1] \in Valued
    BY <1>1 DEF MeaningMoved, WholeFlags
  <2>b. SetBy(d) \in Seq(Flags \X Argument)
    BY <1>2, <1>4
  <2>c. \A e \in Nat : SetBy(e)' = SetBy(e)
    BY <1>2 DEF SetBy, Settings, FlagsOf
  <2>5. CASE rest[1] \in Complete
    <3>1. rest[1] \notin Valued /\ rest[1] \notin Undefined
      BY <2>1, <2>2, <2>a, <2>5, Kinds
    <3>2. /\ opts' = Append(opts, << rest[1], rest[1] >>) /\ rest' = Tail(rest) /\ pc' = pc
      BY <2>3, <2>5, <3>1 DEF Parse, SetComplete, SetValued, ParseFails, EndOfFlags
    <3>3. SetBy(d + 1) = Append(SetBy(d), << rest[1], rest[1] >>)
      <4>1. << rest[1], rest[1] >> \in Flags \X Argument
        BY <2>2, Kinds
      <4>2. << rest[1], rest[1] >> = Settings(flags)[d + 1]
        BY <2>4, <3>1
      <4>3. d + 1 <= Len(flags) /\ 1 \in {1, 2} /\ 1 # 2
        BY <1>1, <2>1
      <4> QED
        BY <2>2, <2>b, <4>1, <4>2, <4>3, OneMoreSet
    <3>4. d + 1 < n => flags[d + 2] \in Flags
      <4>1. ASSUME d + 1 < n, flags[d + 2] \in Words PROVE FALSE
        <5>1. d + 2 \in 1..n /\ flags[d + 2] \notin Flags
          BY <2>1, <4>1, Kinds
        <5>2. flags[(d + 2) - 1] \in Valued
          BY <2>a, <5>1 DEF Flags
        <5> QED
          BY <2>1, <2>2, <3>1, <5>2
      <4> QED
        BY <2>1, <2>a, <4>1 DEF Flags
    <3>5. opts' = SetBy(d + 1)
      BY <1>4, <3>2, <3>3, Zenon
    <3>6. ParsedTo(d + 1)'
      BY <1>1, <1>2, <1>3, <2>1, <2>2, <2>c, <3>2, <3>4, <3>5 DEF ParsedTo
    <3> QED
      BY <1>2, <2>1, <3>2, <3>6
  <2>6. CASE rest[1] \in Valued
    <3>1. /\ rest[1] \notin Complete /\ rest[1] \notin Undefined /\ d + 1 < n
          /\ flags[d + 2] \in Words /\ Valid(rest[1], flags[d + 2])
      BY <2>1, <2>2, <2>a, <2>6, Kinds
    <3>2. Len(rest) > 1
      <4>1. Len(rest) = (n + m) - d
        BY <1>3, <1>4 DEF Suffix
      <4> QED
        BY <1>6, <3>1, <4>1
    <3>3. rest[2] = flags[d + 2] /\ Suffix(SubSeq(rest, 3, Len(rest)), Result, d + 2)
      <4>1. d < Len(Result)
        BY <1>3, <2>1
      <4>2. rest[2] = Result[d + 2] /\ Suffix(SubSeq(rest, 3, Len(rest)), Result, d + 2)
        BY <1>2, <1>3, <1>4, <3>2, <4>1, SuffixTwo
      <4> QED
        BY <1>3, <2>1, <3>1, <4>2
    <3>4. HasValue
      BY <3>1, <3>2, <3>3 DEF HasValue
    <3>5. /\ opts' = Append(opts, << rest[1], rest[2] >>)
          /\ rest' = SubSeq(rest, 3, Len(rest)) /\ pc' = pc
      BY <2>3, <3>1, <3>4 DEF Parse, SetComplete, SetValued, ParseFails, EndOfFlags
    <3>6. SetBy(d + 2) = Append(SetBy(d), << rest[1], rest[2] >>)
      <4>1. << rest[1], rest[2] >> \in Flags \X Argument
        BY <2>2, <3>1, <3>3 DEF Argument
      <4>2. << rest[1], rest[2] >> = Settings(flags)[d + 1]
        BY <2>4, <2>6, <3>3
      <4>3. flags[d + 2] \notin Flags
        BY <3>1, Kinds
      <4> QED
        BY <1>1, <2>1, <2>2, <2>b, <3>1, <4>1, <4>2, <4>3, OneMoreSet
    <3>7. d + 2 < n => flags[d + 3] \in Flags
      <4>1. flags[d + 2] \notin Valued
        BY <3>1, Kinds DEF Flags
      <4>2. ASSUME d + 2 < n, flags[d + 3] \in Words PROVE FALSE
        <5>1. d + 3 \in 1..n /\ flags[d + 3] \notin Flags
          BY <2>1, <4>2, Kinds
        <5>2. flags[(d + 3) - 1] \in Valued
          BY <2>a, <5>1 DEF Flags
        <5> QED
          BY <2>1, <4>1, <5>2
      <4> QED
        BY <2>1, <2>a, <4>2 DEF Flags
    <3>8. opts' = SetBy(d + 2)
      BY <1>4, <3>5, <3>6, Zenon
    <3>9. ParsedTo(d + 2)'
      BY <1>1, <1>2, <1>3, <2>1, <3>1, <2>c, <3>3, <3>5, <3>7, <3>8 DEF ParsedTo
    <3> QED
      BY <1>2, <2>1, <3>5, <3>9
  <2> QED
    BY <2>2, <2>5, <2>6 DEF Flags
<1> QED
  BY <1>4, <1>5, <1>6

(* Parse begins before the first flag. *)
LEMMA ParseBegins ==
  ASSUME TypeOK, MeaningMoved, opts = <<>>, Reordered
  PROVE  ParsedTo(0)'
<1>1. PICK n \in Nat, m \in Nat : n = Len(flags) /\ m = Len(Result)
  BY ResultParts, LenProperties
<1>2. /\ rest' = Result /\ UNCHANGED <<flags, positional, opts>>
  BY DEF Reordered
<1>3. /\ 1..0 = {} /\ 0 <= n /\ m - 0 = m /\ \A k \in 1..m : 0 + k = k
      /\ 0 + 1 = 1 /\ ~ (1 > 1) /\ (0 < n => 1 \in 1..n)
  OBVIOUS
<1>4. SetBy(0)' = <<>>
  <2>1. FlagsOf(flags, 0)' = {}
    BY <1>3 DEF FlagsOf
  <2>2. SetBy(0)' = At(Settings(flags'), {})
    BY <2>1, Zenon DEF SetBy
  <2> QED
    BY <2>2, AtNowhere, Zenon
<1>5. Suffix(Result, Result, 0)
  BY <1>1, <1>3 DEF Suffix
<1>6. Suffix(rest, Result, 0)'
  BY <1>2, <1>5 DEF Result
<1>7. 0 < n => flags[1] \in Flags
  BY <1>1, <1>3 DEF MeaningMoved, WholeFlags, Flags
<1> QED
  BY <1>1, <1>2, <1>3, <1>4, <1>6, <1>7 DEF ParsedTo

(* Every step keeps what a plain line means. *)
LEMMA PlainStep == TypeOK /\ PlainInv /\ [Next]_vars => PlainInv'
<1> SUFFICES ASSUME TypeOK, PlainInv, [Next]_vars PROVE PlainInv'
  OBVIOUS
<1>1. args' = args /\ cmd' = cmd
  BY DEF Next, Reorder, Reordered, Parse, Dispatch, vars
<1>2. Plain' = Plain
  BY <1>1 DEF Plain, Stray, Undefined, Valid
<1>3. CASE Reorder
  <2>1. pc = "reorder" /\ pc' = "reorder" /\ opts' = opts /\ opts = <<>>
    BY <1>3 DEF Reorder, PlainInv
  <2>2. Plain => MeaningMoved' /\ ~ IsValue(i)'
    BY <1>3, <2>1, MeaningReordered DEF PlainInv
  <2> QED
    BY <1>2, <2>1, <2>2 DEF PlainInv
<1>4. ASSUME UNCHANGED <<i, flags, positional>>
      PROVE  /\ MeaningMoved' = MeaningMoved /\ Meaning' = Meaning
             /\ SetBy(Len(flags))' = SetBy(Len(flags))
  <2>1. /\ UNCHANGED <<args, cmd, i, flags, positional>>
    BY <1>1, <1>4
  <2>2. Settings(args)' = Settings(args) /\ Settings(flags)' = Settings(flags)
    BY <2>1 DEF Settings
  <2>3. MeaningMoved' = MeaningMoved
    <3>1. WholeFlags' = WholeFlags
      BY <2>1 DEF WholeFlags, Undefined, Valid
    <3>2. FlagsInOrder' = FlagsInOrder
      BY <2>1 DEF FlagsInOrder, FlagsOf
    <3>3. SetBy(Len(flags))' = SetBy(Len(flags))
      BY <2>1, <2>2, Zenon DEF SetBy, FlagsOf
    <3>4. FlagsOf(args, i - 1)' = FlagsOf(args, i - 1) /\ WordsOf(i - 1)' = WordsOf(i - 1)
      BY <2>1, Zenon DEF FlagsOf, WordsOf, IsValue
    <3>5. At(Settings(args), FlagsOf(args, i - 1))' = At(Settings(args), FlagsOf(args, i - 1))
          /\ At(args, WordsOf(i - 1))' = At(args, WordsOf(i - 1))
      BY <2>1, <2>2, <3>4, Zenon
    <3> QED
      BY <2>1, <3>1, <3>2, <3>3, <3>5 DEF MeaningMoved
  <2>4. SetBy(Len(flags))' = SetBy(Len(flags))
    BY <2>1, <2>2, Zenon DEF SetBy, FlagsOf, At
  <2>5. Meaning' = Meaning
    <3> DEFINE P == At([ k \in 1..Len(args) |-> Setting(k) ],
                       { k \in 1..Len(args) : args[k] \in Flags })
               Q == At(args, { k \in 1..Len(args) : args[k] \in Words /\ ~ IsValue(k) })
    <3>1. P' = P /\ Q' = Q
      BY <2>1, Zenon DEF Setting, IsValue
    <3> QED
      <4> HIDE DEF P, Q
      <4>1. ASSUME NEW v PROVE Given(P, v)' = Given(P, v)
        BY <2>1, <3>1, Zenon DEF Given
      <4>s. Scalars' = Scalars
        BY <2>1, Zenon DEF Scalars
      <4>c. Config(P)' = Config(P)
        <5>1. ASSUME NEW v PROVE Latest(Given(P, v))' = Latest(Given(P, v))
          <6>1. Given(P, v)' = Given(P, v)
            BY <4>1
          <6> QED
            BY <6>1, Zenon
        <5> QED
          BY <4>s, <5>1, Zenon DEF Config
      <4>r. Serve(P)' = Serve(P)
        <5>1. Given(P, "rootDirs")' = Given(P, "rootDirs")
          BY <4>1
        <5> QED
          BY <4>c, <5>1 DEF Serve
      <4>2. Transfer(P, Q)' = Transfer(P, Q)
        BY <2>1, <3>1, <4>s, <4>c, Zenon DEF Transfer
      <4>3. Command(P, Q)' = Command(P, Q)
        BY <2>1, <4>r, <4>2, Zenon DEF Command
      <4> QED
        BY <4>3, Zenon DEF Meaning, P, Q
  <2> QED
    BY <2>3, <2>4, <2>5
<1>5. CASE Reordered
  <2>1. /\ UNCHANGED <<i, flags, positional>> /\ pc = "reorder" /\ pc' = "parse"
        /\ i > Len(args)
    BY <1>5 DEF Reordered
  <2>2. i = Len(args) + 1
    <3>1. i \in 1..Len(args) + 1 /\ Len(args) \in Nat
      BY LenProperties, Zenon DEF TypeOK
    <3> QED
      BY <2>1, <3>1
  <2>3. Plain => MeaningMoved /\ ParsedTo(0)'
    BY <1>5, <2>1, ParseBegins DEF PlainInv
  <2>4. i' = Len(args') + 1
    BY <1>1, <2>1, <2>2
  <2>5. Plain => MeaningMoved' /\ \E d \in Nat : ParsedTo(d)'
    BY <1>4, <2>1, <2>3
  <2> QED
    BY <1>2, <2>1, <2>4, <2>5 DEF PlainInv
<1>6. CASE Parse
  <2>1. UNCHANGED <<i, flags, positional>> /\ pc = "parse" /\ i = Len(args) + 1
    BY <1>6 DEF Parse, PlainInv
  <2>2. ASSUME Plain
        PROVE  \/ pc' = "parse" /\ \E e \in Nat : ParsedTo(e)'
               \/ pc' = "dispatch" /\ rest' = positional' /\ opts' = SetBy(Len(flags))'
    <3>1. PICK d \in Nat : ParsedTo(d)
      BY <2>1, <2>2 DEF PlainInv
    <3>2. MeaningMoved
      BY <2>2 DEF PlainInv
    <3> QED
      BY <1>4, <1>6, <2>1, <3>1, <3>2, MeaningParsed
  <2>3. Plain => MeaningMoved'
    BY <1>4, <2>1 DEF PlainInv
  <2>4. pc' # "reorder"
    BY <1>6, <2>1 DEF Parse, SetComplete, SetValued, ParseFails, EndOfFlags
  <2>5. i' = Len(args') + 1
    BY <1>1, <2>1
  <2> QED
    BY <1>2, <2>2, <2>3, <2>4, <2>5 DEF PlainInv
<1>7. CASE Dispatch
  <2>1. /\ UNCHANGED <<i, flags, positional>> /\ pc = "dispatch" /\ pc' = "done"
        /\ i = Len(args) + 1 /\ outcome' = Command(opts, rest)
    BY <1>7 DEF Dispatch, PlainInv
  <2>2. ASSUME Plain PROVE outcome' = Meaning
    <3>1. rest = positional /\ opts = SetBy(Len(flags)) /\ MeaningMoved
      BY <2>1, <2>2 DEF PlainInv
    <3>2. i - 1 = Len(args)
      <4>1. Len(args) \in Nat
        BY LenProperties DEF TypeOK
      <4> QED
        BY <2>1, <4>1
    <3>3. /\ opts = At(Settings(args), FlagsOf(args, Len(args)))
          /\ rest = At(args, WordsOf(Len(args)))
      BY <3>1, <3>2, Zenon DEF MeaningMoved
    <3>4. Settings(args) = [ k \in 1..Len(args) |-> Setting(k) ]
      BY DEF Settings, Setting
    <3>5. Meaning = Command(At(Settings(args), FlagsOf(args, Len(args))),
                            At(args, WordsOf(Len(args))))
      BY <3>4, Zenon DEF Meaning, FlagsOf, WordsOf
    <3> QED
      BY <2>1, <3>3, <3>5, Zenon
  <2>3. Plain => MeaningMoved' /\ outcome' = Meaning'
    BY <1>4, <2>1, <2>2 DEF PlainInv
  <2>4. i' = Len(args') + 1
    BY <1>1, <2>1
  <2> QED
    BY <1>2, <2>1, <2>3, <2>4 DEF PlainInv
<1>8. CASE UNCHANGED vars
  <2>1. UNCHANGED <<cmd, args, i, flags, positional, rest, opts, pc, outcome>>
    BY <1>8 DEF vars
  <2>2. /\ MeaningMoved' = MeaningMoved /\ Meaning' = Meaning
        /\ SetBy(Len(flags))' = SetBy(Len(flags))
    BY <1>4, <2>1
  <2>3. \A d \in Nat : ParsedTo(d)' = ParsedTo(d)
    BY <2>1 DEF ParsedTo, Suffix, Result, SetBy, Settings, FlagsOf
  <2>4. IsValue(i)' = IsValue(i)
    BY <2>1 DEF IsValue
  <2> QED
    BY <1>2, <2>1, <2>2, <2>3, <2>4 DEF PlainInv
<1> QED
  BY <1>3, <1>5, <1>6, <1>7, <1>8 DEF Next

(* Wherever its flags stand among its words, a plain command line of any    *)
(* length is run as it reads.                                               *)
THEOREM PlainLinesMeanWhatTheySay == Spec => []PlainMeansWhatItSays
<1>1. PlainInv => PlainMeansWhatItSays
  BY DEF PlainInv, PlainMeansWhatItSays
<1> QED
  BY <1>1, PlainInit, PlainStep, ArgsTypesCorrect, PTL DEF Spec
=============================================================================
