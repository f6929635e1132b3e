----------------------------- MODULE WorkerPool -----------------------------
(***************************************************************************)
(* Engine.SendFiles: one goroutine per file, throttled by a semaphore      *)
(* channel, all of them writing chunks through one unlocked Encoder; the   *)
(* caller waits for a WaitGroup and then reads the results.                *)
(*                                                                         *)
(* WalkConcurrent has the same shape around Checksum, which shares nothing *)
(* between workers: it is this module with an empty SendFile.              *)
(***************************************************************************)
EXTENDS Integers, Sequences, FiniteSets

CONSTANTS
  File,           \* the entries that are not directories
  Concurrencies,  \* the values of --concurrency
  Pieces          \* buffer writes per chunk (type, length, path, ...)

ASSUME PoolAssumption ==
  /\ IsFiniteSet(File)
  /\ Concurrencies \subseteq Nat
  /\ Pieces \in Nat

VARIABLES
  slots,    \* capacity of the semaphore channel
  main,     \* SendFiles itself: "spawn", "wait" or "returned"
  unspawned,\* files the loop has not reached
  wg,       \* the WaitGroup's counter
  sem,      \* tokens in the channel
  pc,       \* per file: its goroutine
  piece,    \* per file: pieces of its chunk written so far
  at,       \* per file: the position its write in progress copies to
  buf,      \* the shared bufio.Writer: position -> piece
  n,        \* that writer's count of buffered bytes
  result    \* per file: "unset", "sent" or "error"

vars == <<slots, main, unspawned, wg, sem, pc, piece, at, buf, n, result>>

Stale == <<"stale">>   \* what an earlier use left in the buffer

Init ==
  /\ slots \in Concurrencies
  /\ main = "spawn"
  /\ unspawned = File
  /\ wg = 0
  /\ sem = 0
  /\ pc = [f \in File |-> "none"]
  /\ piece = [f \in File |-> 0]
  /\ at = [f \in File |-> 0]
  /\ buf = [i \in 0..(Cardinality(File) * Pieces) |-> Stale]
  /\ n = 0
  /\ result = [f \in File |-> "unset"]

-----------------------------------------------------------------------------
(* wg.Add(1) and the go statement; directories get their result here and    *)
(* no goroutine.                                                            *)
SpawnWithoutAdd(f) ==                            \* Mutant: no wg.Add
  /\ main = "spawn" /\ f \in unspawned
  /\ unspawned' = unspawned \ {f}
  /\ pc' = [pc EXCEPT ![f] = "acquire"]
  /\ UNCHANGED <<slots, main, wg, sem, piece, at, buf, n, result>>

Spawn(f) ==
  /\ main = "spawn" /\ f \in unspawned
  /\ unspawned' = unspawned \ {f}
  /\ wg' = wg + 1
  /\ pc' = [pc EXCEPT ![f] = "acquire"]
  /\ UNCHANGED <<slots, main, sem, piece, at, buf, n, result>>

StartWaiting ==
  /\ main = "spawn" /\ unspawned = {}
  /\ main' = "wait"
  /\ UNCHANGED <<slots, unspawned, wg, sem, pc, piece, at, buf, n, result>>

Return ==
  /\ main = "wait" /\ wg = 0
  /\ main' = "returned"
  /\ UNCHANGED <<slots, unspawned, wg, sem, pc, piece, at, buf, n, result>>

(* The workers between taking a token and returning it. *)
Holding == { f \in File : pc[f] \in {"send", "copy", "release"} }

SlotFreeOffByOne == sem <= slots                 \* Mutant

SlotFree == sem < slots

SendWithoutToken(f) ==                           \* Mutant: no sem <- struct{}{}
  /\ pc[f] = "acquire"
  /\ pc' = [pc EXCEPT ![f] = "send"]
  /\ UNCHANGED <<slots, main, unspawned, wg, sem, piece, at, buf, n, result>>

Acquire(f) ==
  /\ pc[f] = "acquire"
  /\ SlotFree
  /\ sem' = sem + 1
  /\ pc' = [pc EXCEPT ![f] = "send"]
  /\ UNCHANGED <<slots, main, unspawned, wg, piece, at, buf, n, result>>

(* bufio.Writer.Write copies to buf[n:] and then adds to n; without a lock  *)
(* another goroutine may do the same in between.                            *)
BeginWrite(f) ==
  /\ pc[f] = "send" /\ piece[f] < Pieces
  /\ at' = [at EXCEPT ![f] = n]
  /\ pc' = [pc EXCEPT ![f] = "copy"]
  /\ UNCHANGED <<slots, main, unspawned, wg, sem, piece, buf, n, result>>

EndWrite(f) ==
  /\ pc[f] = "copy"
  /\ buf' = [buf EXCEPT ![at[f]] = <<f, piece[f]>>]
  /\ n' = n + 1
  /\ piece' = [piece EXCEPT ![f] = @ + 1]
  /\ pc' = [pc EXCEPT ![f] = "send"]
  /\ UNCHANGED <<slots, main, unspawned, wg, sem, at, result>>

(* SendFile returns; an open or a read may have failed before the chunk or  *)
(* after it (the connection itself is taken to hold).                       *)
Record(f) ==
  /\ pc[f] = "send" /\ piece[f] \in {0, Pieces}
  /\ \/ piece[f] = Pieces /\ result' = [result EXCEPT ![f] = "sent"]
     \/ result' = [result EXCEPT ![f] = "error"]
  /\ pc' = [pc EXCEPT ![f] = "release"]
  /\ UNCHANGED <<slots, main, unspawned, wg, sem, piece, at, buf, n>>

(* The deferred calls, last one first. *)
ReleaseForgotten(f) ==                           \* Mutant: the token is kept
  /\ pc[f] = "release"
  /\ pc' = [pc EXCEPT ![f] = "done"]
  /\ UNCHANGED <<slots, main, unspawned, wg, sem, piece, at, buf, n, result>>

Release(f) ==
  /\ pc[f] = "release"
  /\ sem' = sem - 1
  /\ pc' = [pc EXCEPT ![f] = "done"]
  /\ UNCHANGED <<slots, main, unspawned, wg, piece, at, buf, n, result>>

Done(f) ==
  /\ pc[f] = "done"
  /\ wg' = wg - 1
  /\ pc' = [pc EXCEPT ![f] = "gone"]
  /\ UNCHANGED <<slots, main, unspawned, sem, piece, at, buf, n, result>>

Worker(f) ==
  Acquire(f) \/ BeginWrite(f) \/ EndWrite(f) \/ Record(f) \/ Release(f) \/ Done(f)

Main == StartWaiting \/ Return \/ \E f \in File : Spawn(f)

Next ==
  \/ Main
  \/ \E f \in File : Worker(f)
  \/ main = "returned" /\ UNCHANGED vars

Spec == Init /\ [][Next]_vars

(* The caller and every worker keep being scheduled.  Weak fairness is      *)
(* enough for the semaphore: each worker passes it once.                    *)
FairSpec == Spec /\ WF_vars(Main) /\ \A f \in File : WF_vars(Worker(f))

-----------------------------------------------------------------------------
Running == { f \in File : pc[f] \notin {"none", "gone"} }

TypeOK ==
  /\ slots \in Nat
  /\ main \in {"spawn", "wait", "returned"}
  /\ unspawned \in SUBSET File
  /\ wg \in Nat
  /\ sem \in Nat
  /\ pc \in [File -> {"none", "acquire", "send", "copy", "release", "done", "gone"}]
  /\ piece \in [File -> 0..Pieces]
  /\ at \in [File -> Nat]
  /\ n \in Nat
  /\ result \in [File -> {"unset", "sent", "error"}]

(* The semaphore channel counts the workers past it: no more of them are in *)
(* SendFile at once than the configured concurrency.                        *)
AtMostConcurrencySend == Cardinality(Holding) <= slots

(* When SendFiles has returned, no goroutine is left that could still write *)
(* to the connection, and every file has its result.                        *)
ReturnsAfterAll ==
  main = "returned" => Running = {} /\ \A f \in File : result[f] # "unset"

(* The encoder has no lock: only the semaphore keeps two workers out of it. *)
(* With --concurrency 1 it does, however the workers are scheduled and      *)
(* whichever of them fail: every chunk that was sent is in the buffer in    *)
(* one piece.  With two slots TLC finds chunks mixed and overwritten.       *)
OneSlotKeepsChunksWhole ==
  slots = 1 =>
    \A f \in File : result[f] = "sent" =>
      \E i \in 0..n : i + Pieces <= n /\ \A p \in 0..Pieces - 1 : buf[i + p] = <<f, p>>

(* SendFiles returns, whatever the order the workers run in. *)
SendFilesReturns == <>(main = "returned")
=============================================================================
