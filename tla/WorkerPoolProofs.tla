-------------------------- MODULE WorkerPoolProofs --------------------------
(***************************************************************************)
(* The worker pool for every number of files, every concurrency and every  *)
(* number of pieces to a chunk.                                            *)
(***************************************************************************)
EXTENDS WorkerPool, FiniteSetTheorems, TLAPS

(* What ties the counters to the workers: the channel holds one token per   *)
(* worker past it, the WaitGroup one count per goroutine not yet gone, and  *)
(* a goroutine records its result before it lets go of either; a write is    *)
(* only begun when a piece is left.                                         *)
PoolInv ==
  /\ TypeOK
  /\ sem = Cardinality(Holding) /\ sem <= slots
  /\ wg = Cardinality(Running)
  /\ \A f \in File : pc[f] = "none" <=> f \in unspawned
  /\ \A f \in File : pc[f] \in {"release", "done", "gone"} => result[f] # "unset"
  /\ \A f \in File : pc[f] = "copy" => piece[f] < Pieces
  /\ main # "spawn" => unspawned = {}
  /\ main = "returned" => wg = 0

LEMMA FileSubsets ==
  ASSUME NEW S \in SUBSET File
  PROVE  IsFiniteSet(S) /\ Cardinality(S) \in Nat
BY PoolAssumption, FS_Subset, FS_CardinalityType

(* Counting after one worker enters, leaves or stays in a set of workers.   *)
LEMMA Counting ==
  ASSUME NEW S \in SUBSET File, NEW f \in File
  PROVE  /\ f \notin S => Cardinality(S \cup {f}) = Cardinality(S) + 1
         /\ f \in S => Cardinality(S \ {f}) = Cardinality(S) - 1
BY FileSubsets, FS_AddElement, FS_RemoveElement

LEMMA PoolInit == Init => PoolInv
<1> SUFFICES ASSUME Init PROVE PoolInv
  OBVIOUS
<1>1. Holding = {} /\ Running = {}
  BY DEF Init, Holding, Running
<1>2. TypeOK
  BY PoolAssumption DEF Init, TypeOK
<1> QED
  BY <1>1, <1>2, FS_EmptySet, PoolAssumption DEF Init, PoolInv

LEMMA PoolStep == PoolInv /\ [Next]_vars => PoolInv'
<1> SUFFICES ASSUME PoolInv, [Next]_vars PROVE PoolInv'
  OBVIOUS
<1> USE DEF PoolInv, TypeOK
<1>s. Holding \in SUBSET File /\ Running \in SUBSET File
  BY DEF Holding, Running
<1>n. Cardinality(Holding) \in Nat /\ Cardinality(Running) \in Nat
  BY <1>s, FileSubsets
<1>1. ASSUME NEW f \in File, Spawn(f) PROVE PoolInv'
  <2>1. f \notin Running /\ Running' = Running \cup {f} /\ Holding' = Holding
    BY <1>1 DEF Spawn, Running, Holding
  <2>2. Cardinality(Running') = Cardinality(Running) + 1
    BY <2>1, <1>s, Counting
  <2> QED
    BY <1>1, <2>1, <2>2 DEF Spawn
<1>2. CASE StartWaiting
  <2>1. Running' = Running /\ Holding' = Holding
    BY <1>2 DEF StartWaiting, Running, Holding
  <2> QED
    BY <1>2, <2>1 DEF StartWaiting
<1>3. CASE Return
  <2>1. Running' = Running /\ Holding' = Holding
    BY <1>3 DEF Return, Running, Holding
  <2> QED
    BY <1>3, <2>1 DEF Return
<1>4. ASSUME NEW f \in File, Acquire(f) PROVE PoolInv'
  <2>1. f \notin Holding /\ Holding' = Holding \cup {f} /\ Running' = Running
    BY <1>4 DEF Acquire, Running, Holding
  <2>2. Cardinality(Holding') = Cardinality(Holding) + 1
    BY <2>1, <1>s, Counting
  <2>3. sem' <= slots'
    BY <1>4, <1>n, PoolAssumption DEF Acquire, SlotFree
  <2> QED
    BY <1>4, <2>1, <2>2, <2>3 DEF Acquire
<1>5. ASSUME NEW f \in File, BeginWrite(f) PROVE PoolInv'
  <2>1. Running' = Running /\ Holding' = Holding
    BY <1>5 DEF BeginWrite, Running, Holding
  <2> QED
    BY <1>5, <2>1 DEF BeginWrite
<1>6. ASSUME NEW f \in File, EndWrite(f) PROVE PoolInv'
  <2>1. Running' = Running /\ Holding' = Holding
    BY <1>6 DEF EndWrite, Running, Holding
  <2> QED
    BY <1>6, <2>1, PoolAssumption DEF EndWrite
<1>7. ASSUME NEW f \in File, Record(f) PROVE PoolInv'
  <2>1. Running' = Running /\ Holding' = Holding
    BY <1>7 DEF Record, Running, Holding
  <2> QED
    BY <1>7, <2>1 DEF Record
<1>8. ASSUME NEW f \in File, Release(f) PROVE PoolInv'
  <2>1. f \in Holding /\ Holding' = Holding \ {f} /\ Running' = Running
    BY <1>8 DEF Release, Running, Holding
  <2>2. Cardinality(Holding') = Cardinality(Holding) - 1
    BY <2>1, <1>s, Counting
  <2>3. sem' \in Nat /\ sem' <= slots'
    BY <1>8, <1>s, <2>1, <2>2, FileSubsets, PoolAssumption DEF Release
  <2> QED
    BY <1>8, <2>1, <2>2, <2>3 DEF Release
<1>9. ASSUME NEW f \in File, Done(f) PROVE PoolInv'
  <2>1. f \in Running /\ Running' = Running \ {f} /\ Holding' = Holding
    BY <1>9 DEF Done, Running, Holding
  <2>2. Cardinality(Running') = Cardinality(Running) - 1
    BY <2>1, <1>s, Counting
  <2>3. wg' \in Nat /\ main # "returned"
    BY <1>9, <1>s, <2>1, <2>2, FileSubsets DEF Done
  <2> QED
    BY <1>9, <2>1, <2>2, <2>3 DEF Done
<1>10. CASE UNCHANGED vars
  <2>1. Running' = Running /\ Holding' = Holding
    BY <1>10 DEF vars, Running, Holding
  <2> QED
    BY <1>10, <2>1 DEF vars
<1> QED
  BY <1>1, <1>2, <1>3, <1>4, <1>5, <1>6, <1>7, <1>8, <1>9, <1>10
  DEF Next, Main, Worker

LEMMA PoolInvariant == Spec => []PoolInv
BY PoolInit, PoolStep, PTL DEF Spec

(* SendFiles' loop, its workers, the semaphore and the WaitGroup keep their  *)
(* types: neither counter is ever negative.                                 *)
THEOREM PoolTypesCorrect == Spec => []TypeOK
<1>1. PoolInv => TypeOK  BY DEF PoolInv
<1> QED  BY <1>1, PoolInvariant, PTL

(* At most the configured number of workers are in SendFile at once.        *)
THEOREM PoolIsBounded == Spec => []AtMostConcurrencySend
<1>1. PoolInv => AtMostConcurrencySend
  BY DEF PoolInv, AtMostConcurrencySend
<1> QED
  BY <1>1, PoolInvariant, PTL

(* SendFiles returns only after the last worker is gone, with a result for  *)
(* every file: nobody writes to the connection behind the caller's back.    *)
THEOREM PoolReturnsAfterAll == Spec => []ReturnsAfterAll
<1>1. PoolInv => ReturnsAfterAll
  <2> SUFFICES ASSUME PoolInv, main = "returned"
               PROVE  Running = {} /\ \A f \in File : result[f] # "unset"
    BY DEF ReturnsAfterAll
  <2>1. Running \in SUBSET File /\ Cardinality(Running) = 0
    BY DEF PoolInv, Running
  <2>2. Running = {}
    BY <2>1, FileSubsets, FS_EmptySet
  <2>3. \A f \in File : pc[f] = "gone"
    BY <2>2 DEF Running, PoolInv, TypeOK
  <2> QED
    BY <2>2, <2>3 DEF PoolInv
<1> QED
  BY <1>1, PoolInvariant, PTL

-----------------------------------------------------------------------------
(* The pieces written so far: the writer's count is their number, so the    *)
(* buffer has room for the next one.                                        *)
Written == { w \in File \X (0..Pieces - 1) : w[2] < piece[w[1]] }

Capacity == Cardinality(File) * Pieces

(* The last piece[f] places of the buffer hold what f has written. *)
OwnTail(f) ==
  /\ piece[f] <= n
  /\ \A p \in 0..Pieces - 1 : p < piece[f] => buf[n - piece[f] + p] = <<f, p>>
  /\ pc[f] = "copy" => at[f] = n

(* All of f's chunk lies below every write in progress. *)
Settled(f) ==
  \E i \in 0..n :
    /\ i + Pieces <= n
    /\ \A p \in 0..Pieces - 1 : buf[i + p] = <<f, p>>
    /\ \A g \in File : pc[g] = "copy" => i + Pieces <= at[g]

(* A write in progress copies to a place below the count; with one slot it   *)
(* is the only one, at the end of what is buffered, and every chunk sent     *)
(* stands whole below it.                                                   *)
ChunkInv ==
  /\ buf = [i \in 0..Capacity |-> buf[i]]
  /\ n = Cardinality(Written)
  /\ \A f \in File : pc[f] = "copy" => at[f] <= n
  /\ \A f \in File : pc[f] \in {"none", "acquire"} => piece[f] = 0
  /\ \A f \in File : result[f] = "sent" => pc[f] \in {"release", "done", "gone"}
  /\ slots = 1 =>
       /\ \A f \in File : pc[f] \in {"send", "copy"} => OwnTail(f)
       /\ \A f \in File : result[f] = "sent" => Settled(f)

(* With one slot a worker past the semaphore is alone there. *)
LEMMA OneHolder ==
  ASSUME PoolInv, slots = 1, NEW f \in Holding
  PROVE  Holding = {f}
<1>1. Holding \in SUBSET File /\ f \in File /\ Cardinality(Holding) <= 1
  BY DEF PoolInv, TypeOK, Holding
<1>2. PICK c \in Nat : c = Cardinality(Holding)
  BY <1>1, FileSubsets
<1>3. Cardinality(Holding \ {f}) = c - 1
  BY <1>1, <1>2, Counting
<1>4. Holding \ {f} \in SUBSET File /\ Cardinality(Holding \ {f}) \in Nat
  BY <1>1, FileSubsets
<1>5. Cardinality(Holding \ {f}) = 0
  BY <1>1, <1>2, <1>3, <1>4
<1>6. Holding \ {f} = {}
  BY <1>4, <1>5, FileSubsets, FS_EmptySet
<1> QED
  BY <1>6

LEMMA CapacityType == Capacity \in Nat
BY FS_CardinalityType, PoolAssumption DEF Capacity

LEMMA WrittenFits ==
  ASSUME TypeOK
  PROVE  /\ IsFiniteSet(Written)
         /\ Cardinality(Written) \in Nat /\ Cardinality(Written) <= Capacity
         /\ \A f \in File : piece[f] < Pieces => Cardinality(Written) < Capacity
<1>1. /\ IsFiniteSet(0..Pieces - 1) /\ Cardinality(0..Pieces - 1) = Pieces
  BY FS_Interval, PoolAssumption
<1>2. /\ IsFiniteSet(File \X (0..Pieces - 1))
      /\ Cardinality(File \X (0..Pieces - 1)) = Capacity
  BY <1>1, FS_Product, PoolAssumption DEF Capacity
<1>3. Written \in SUBSET (File \X (0..Pieces - 1))
  BY DEF Written
<1>4. /\ IsFiniteSet(Written)
      /\ Cardinality(Written) \in Nat /\ Cardinality(Written) <= Capacity
      /\ Cardinality(Written) = Capacity => Written = File \X (0..Pieces - 1)
  BY <1>2, <1>3, FS_Subset, FS_CardinalityType
<1>5. ASSUME NEW f \in File, piece[f] < Pieces PROVE Written # File \X (0..Pieces - 1)
  <2>1. <<f, piece[f]>> \in File \X (0..Pieces - 1) /\ <<f, piece[f]>> \notin Written
    BY <1>5, PoolAssumption DEF Written, TypeOK
  <2> QED
    BY <2>1
<1> QED
  BY <1>4, <1>5, CapacityType

LEMMA OneMoreWritten ==
  ASSUME TypeOK, NEW f \in File, piece[f] < Pieces, piece' = [piece EXCEPT ![f] = @ + 1]
  PROVE  Cardinality(Written') = Cardinality(Written) + 1
<1>1. Written' = Written \cup {<<f, piece[f]>>}
  <2>1. ASSUME NEW w \in File \X (0..Pieces - 1)
        PROVE  w \in Written' <=> w \in Written \/ w = <<f, piece[f]>>
    <3>1. CASE w[1] # f
      <4>1. piece'[w[1]] = piece[w[1]]
        BY <2>1, <3>1 DEF TypeOK
      <4> QED
        BY <2>1, <3>1, <4>1 DEF Written
    <3>2. CASE w[1] = f
      <4>1. piece'[w[1]] = piece[f] + 1 /\ piece[f] \in Nat /\ w[2] \in Nat
        BY <2>1, <3>2, PoolAssumption DEF TypeOK
      <4>2. w[2] < piece[f] + 1 <=> w[2] < piece[f] \/ w[2] = piece[f]
        BY <4>1
      <4>3. w = <<f, w[2]>>
        BY <2>1, <3>2
      <4> QED
        BY <2>1, <3>2, <4>1, <4>2, <4>3 DEF Written
    <3> QED
      BY <3>1, <3>2
  <2>2. <<f, piece[f]>> \in File \X (0..Pieces - 1)
    BY PoolAssumption DEF TypeOK
  <2> QED
    BY <2>1, <2>2 DEF Written
<1>2. <<f, piece[f]>> \notin Written
  BY DEF Written, TypeOK
<1>3. IsFiniteSet(Written)
  BY WrittenFits
<1> QED
  BY <1>1, <1>2, <1>3, FS_AddElement

LEMMA ChunkInit == Init => ChunkInv
<1> SUFFICES ASSUME Init PROVE ChunkInv
  OBVIOUS
<1>1. Written = {}
  BY DEF Init, Written
<1>2. Holding = {}
  BY DEF Init, Holding
<1>3. buf = [i \in 0..Capacity |-> buf[i]]
  BY DEF Init, Capacity
<1> QED
  BY <1>1, <1>2, <1>3, FS_EmptySet DEF Init, ChunkInv

(* A write below a settled chunk does not happen, one above it leaves it.   *)
LEMMA SettledKept ==
  ASSUME PoolInv, ChunkInv, NEW f \in File, Settled(f), n' \in Nat, n <= n',
         \A g \in File : pc'[g] = "copy" =>
           at'[g] = n \/ (pc[g] = "copy" /\ at'[g] = at[g]),
         \/ buf' = buf
         \/ \E g \in File :
              pc[g] = "copy" /\ buf' = [buf EXCEPT ![at[g]] = <<g, piece[g]>>]
  PROVE  Settled(f)'
<1> USE DEF PoolInv, TypeOK
<1>1. PICK i \in 0..n :
        /\ i + Pieces <= n
        /\ \A p \in 0..Pieces - 1 : buf[i + p] = <<f, p>>
        /\ \A g \in File : pc[g] = "copy" => i + Pieces <= at[g]
  BY DEF Settled
<1>2. i \in 0..n' /\ i + Pieces <= n'
  BY <1>1, PoolAssumption
<1>3. \A p \in 0..Pieces - 1 : buf'[i + p] = <<f, p>>
  <2>1. CASE buf' = buf
    BY <1>1, <2>1
  <2>2. CASE buf' # buf
    <3>1. PICK g \in File :
                 pc[g] = "copy" /\ buf' = [buf EXCEPT ![at[g]] = <<g, piece[g]>>]
      BY <2>2
    <3>2. i + Pieces <= at[g] /\ at[g] \in Nat
      BY <1>1, <3>1
    <3>3. ASSUME NEW p \in 0..Pieces - 1 PROVE buf'[i + p] = buf[i + p]
      <4>1. n <= Capacity
        BY WrittenFits DEF ChunkInv
      <4>2. i + p # at[g] /\ i + p \in 0..Capacity
        BY <1>1, <3>2, <4>1, CapacityType, PoolAssumption
      <4> QED
        BY <3>1, <4>2 DEF ChunkInv
    <3> QED
      BY <1>1, <3>3
  <2> QED
    BY <2>1, <2>2
<1>4. \A g \in File : pc'[g] = "copy" => i + Pieces <= at'[g]
  BY <1>1
<1> QED
  BY <1>2, <1>3, <1>4 DEF Settled

(* The steps that write nothing. *)
LEMMA QuietKeeps ==
  ASSUME PoolInv, PoolInv', ChunkInv, UNCHANGED <<slots, piece, buf, n, at>>,
         \A f \in File : pc'[f] = "copy" => pc[f] = "copy",
         \A f \in File : pc'[f] \in {"none", "acquire"} => pc[f] \in {"none", "acquire"},
         \A f \in File : result'[f] = "sent" =>
           /\ pc'[f] \in {"release", "done", "gone"}
           /\ slots = 1 => Settled(f),
         slots = 1 => \A f \in File : pc'[f] \in {"send", "copy"} => OwnTail(f)
  PROVE  ChunkInv'
<1> USE DEF PoolInv, TypeOK
<1>1. Written' = Written
  BY DEF Written
<1>2. buf' = [i \in 0..Capacity |-> buf'[i]] /\ n' = Cardinality(Written')
  BY <1>1 DEF ChunkInv
<1>3. ASSUME slots = 1, NEW f \in File, pc'[f] \in {"send", "copy"}
      PROVE  OwnTail(f)'
  <2>1. OwnTail(f)
    BY <1>3
  <2> QED
    BY <2>1 DEF OwnTail
<1>4. ASSUME slots = 1, NEW f \in File, result'[f] = "sent"
      PROVE  Settled(f)'
  <2>1. Settled(f)
    BY <1>4
  <2> QED
    BY <2>1, SettledKept
<1> QED
  BY <1>2, <1>3, <1>4 DEF ChunkInv

LEMMA ChunkStep ==
  ASSUME PoolInv, PoolInv', ChunkInv, [Next]_vars
  PROVE  ChunkInv'
<1> USE DEF PoolInv, TypeOK
<1>1. ASSUME NEW f \in File, Spawn(f) PROVE ChunkInv'
  <2>1. /\ UNCHANGED <<slots, piece, buf, n, at, result>>
        /\ pc[f] = "none" /\ pc' = [pc EXCEPT ![f] = "acquire"]
    BY <1>1 DEF Spawn
  <2> QED
    BY <2>1, QuietKeeps DEF ChunkInv
<1>2. CASE UNCHANGED <<slots, pc, piece, at, buf, n, result>>
  BY <1>2, QuietKeeps DEF ChunkInv
<1>3. ASSUME NEW f \in File, Acquire(f) PROVE ChunkInv'
  <2>1. /\ UNCHANGED <<slots, piece, buf, n, at, result>>
        /\ pc[f] = "acquire" /\ pc' = [pc EXCEPT ![f] = "send"]
    BY <1>3 DEF Acquire
  <2>2. OwnTail(f)
    BY <2>1 DEF OwnTail, ChunkInv
  <2>3. slots = 1 => \A g \in File : pc'[g] \in {"send", "copy"} => OwnTail(g)
    BY <2>1, <2>2 DEF ChunkInv
  <2> QED
    BY <2>1, <2>3, QuietKeeps DEF ChunkInv
<1>4. ASSUME NEW f \in File, Record(f) PROVE ChunkInv'
  <2>1. /\ UNCHANGED <<slots, piece, buf, n, at>>
        /\ pc[f] = "send" /\ pc' = [pc EXCEPT ![f] = "release"]
        /\ \/ piece[f] = Pieces /\ result' = [result EXCEPT ![f] = "sent"]
           \/ result' = [result EXCEPT ![f] = "error"]
    BY <1>4 DEF Record
  <2>2. ASSUME slots = 1, piece[f] = Pieces PROVE Settled(f)
    <3>1. OwnTail(f) /\ Holding = {f}
      BY <2>1, <2>2, OneHolder DEF ChunkInv, Holding
    <3>2. \A g \in File : pc[g] # "copy"
      BY <2>1, <3>1 DEF Holding
    <3>3. n - Pieces \in 0..n /\ (n - Pieces) + Pieces <= n
      BY <2>2, <3>1, PoolAssumption DEF OwnTail
    <3>4. \A p \in 0..Pieces - 1 : buf[(n - Pieces) + p] = <<f, p>>
      BY <2>2, <3>1, PoolAssumption DEF OwnTail
    <3> QED
      BY <3>2, <3>3, <3>4 DEF Settled
  <2> QED
    BY <2>1, <2>2, QuietKeeps DEF ChunkInv
<1>5. ASSUME NEW f \in File, Release(f) \/ Done(f) PROVE ChunkInv'
  <2>1. /\ UNCHANGED <<slots, piece, buf, n, at, result>>
        /\ \/ pc[f] = "release" /\ pc' = [pc EXCEPT ![f] = "done"]
           \/ pc[f] = "done" /\ pc' = [pc EXCEPT ![f] = "gone"]
    BY <1>5 DEF Release, Done
  <2> QED
    BY <2>1, QuietKeeps DEF ChunkInv
<1>6. ASSUME NEW f \in File, BeginWrite(f) PROVE ChunkInv'
  <2>1. /\ UNCHANGED <<slots, piece, buf, n, result>>
        /\ pc[f] = "send" /\ piece[f] < Pieces
        /\ pc' = [pc EXCEPT ![f] = "copy"] /\ at' = [at EXCEPT ![f] = n]
    BY <1>6 DEF BeginWrite
  <2>2. Holding' = Holding /\ Written' = Written
    BY <2>1 DEF Holding, Written
  <2>3. \A g \in File : pc'[g] = "copy" =>
          at'[g] = n \/ (pc[g] = "copy" /\ at'[g] = at[g])
    BY <2>1
  <2>4. ASSUME slots = 1, NEW g \in File, pc'[g] \in {"send", "copy"}
        PROVE  OwnTail(g)'
    <3>1. OwnTail(g)
      BY <2>1, <2>4 DEF ChunkInv
    <3>2. pc'[g] = "copy" => at'[g] = n
      BY <2>3, <3>1 DEF OwnTail
    <3> QED
      BY <2>1, <3>1, <3>2 DEF OwnTail
  <2>5. ASSUME slots = 1, NEW g \in File, result[g] = "sent" PROVE Settled(g)'
    <3>1. Settled(g)
      BY <2>5 DEF ChunkInv
    <3> QED
      BY <2>1, <2>3, <3>1, SettledKept
  <2>6. \A g \in File : pc'[g] = "copy" => at'[g] <= n'
    BY <2>1, <2>3 DEF ChunkInv
  <2> QED
    BY <2>1, <2>2, <2>4, <2>5, <2>6 DEF ChunkInv
<1>7. ASSUME NEW f \in File, EndWrite(f) PROVE ChunkInv'
  <2>1. /\ UNCHANGED <<slots, at, result>>
        /\ pc[f] = "copy" /\ pc' = [pc EXCEPT ![f] = "send"]
        /\ piece' = [piece EXCEPT ![f] = @ + 1] /\ n' = n + 1
        /\ buf' = [buf EXCEPT ![at[f]] = <<f, piece[f]>>]
        /\ piece[f] < Pieces
    BY <1>7 DEF EndWrite
  <2>2. Holding' = Holding /\ f \in Holding
    BY <2>1 DEF Holding
  <2>3. n' = Cardinality(Written')
    BY <2>1, OneMoreWritten DEF ChunkInv
  <2>4. n < Capacity
    BY <2>1, WrittenFits DEF ChunkInv
  <2>5. buf' = [i \in 0..Capacity |-> buf'[i]]
    BY <2>1 DEF ChunkInv
  <2>6. ASSUME slots = 1, NEW g \in File, pc'[g] \in {"send", "copy"}
        PROVE  OwnTail(g)'
    <3>1. g = f
      BY <2>1, <2>2, <2>6, OneHolder DEF Holding
    <3>2. OwnTail(f) /\ at[f] = n
      BY <2>1, <2>6, <3>1 DEF ChunkInv, OwnTail
    <3>3. piece'[f] = piece[f] + 1 /\ n' = n + 1 /\ pc'[f] = "send"
      BY <2>1
    <3>4. PICK k \in Nat : k = piece[f] /\ k <= n
      BY <3>2 DEF OwnTail
    <3>5. ASSUME NEW p \in 0..Pieces - 1, p < k + 1
          PROVE  buf'[(n + 1) - (k + 1) + p] = <<f, p>>
      <4>1. (n + 1) - (k + 1) + p = n - k + p
        BY <3>4
      <4>2. CASE p = k
        <5>1. n - k + p = n /\ n \in 0..Capacity
          BY <2>4, <3>4, <4>2, CapacityType
        <5>2. buf'[n] = <<f, k>>
          BY <2>1, <3>2, <3>4, <5>1 DEF ChunkInv
        <5> QED
          BY <4>1, <4>2, <5>1, <5>2
      <4>3. CASE p # k
        <5>1. p < k /\ n - k + p \in 0..Capacity /\ n - k + p # n
          BY <2>4, <3>4, <3>5, <4>3, CapacityType, PoolAssumption
        <5>2. buf[n - k + p] = <<f, p>>
          BY <3>2, <3>4, <5>1 DEF OwnTail
        <5>3. buf'[n - k + p] = buf[n - k + p]
          BY <2>1, <3>2, <5>1 DEF ChunkInv
        <5> QED
          BY <4>1, <5>2, <5>3
      <4> QED
        BY <4>2, <4>3
    <3>6. k + 1 <= n + 1
      BY <3>4
    <3> QED
      BY <3>1, <3>3, <3>4, <3>5, <3>6 DEF OwnTail
  <2>7. ASSUME slots = 1, NEW g \in File, result[g] = "sent" PROVE Settled(g)'
    <3>1. Settled(g)
      BY <2>7 DEF ChunkInv
    <3>2. n' \in Nat /\ n <= n'
      BY <2>1
    <3>3. \A h \in File : pc'[h] = "copy" => pc[h] = "copy" /\ at'[h] = at[h]
      BY <2>1
    <3> QED
      BY <2>1, <3>1, <3>2, <3>3, SettledKept
  <2>8. \A g \in File : pc'[g] = "copy" => at'[g] <= n'
    BY <2>1 DEF ChunkInv
  <2>9. \A g \in File : pc'[g] \in {"none", "acquire"} => piece'[g] = 0
    BY <2>1 DEF ChunkInv
  <2>10. \A g \in File : result'[g] = "sent" => pc'[g] \in {"release", "done", "gone"}
    BY <2>1 DEF ChunkInv
  <2> QED
    BY <2>1, <2>2, <2>3, <2>5, <2>6, <2>7, <2>8, <2>9, <2>10 DEF ChunkInv
<1> QED
  BY <1>1, <1>2, <1>3, <1>4, <1>5, <1>6, <1>7
  DEF Next, Main, Worker, StartWaiting, Return, vars

(* The encoder has no lock, yet with one slot every chunk that was sent is   *)
(* in the buffer in one piece: for every set of files, every number of       *)
(* writes to a chunk and every schedule of the workers.                     *)
THEOREM OneSlotIsEnough == Spec => []OneSlotKeepsChunksWhole
<1>1. PoolInv /\ PoolInv' /\ ChunkInv /\ [Next]_vars => ChunkInv'
  BY ChunkStep
<1>2. ChunkInv => OneSlotKeepsChunksWhole
  BY DEF ChunkInv, OneSlotKeepsChunksWhole, Settled
<1> QED
  BY <1>1, <1>2, PoolInvariant, ChunkInit, PTL DEF Spec
=============================================================================
