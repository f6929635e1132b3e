-------------------------- MODULE LifecycleProofs --------------------------
(***************************************************************************)
(* Proofs about Lifecycle, for any set of connections: its variables keep  *)
(* their types, neither server's goroutine blocks on errCh, and a session  *)
(* takes up at most one message after the cancellation.                    *)
(***************************************************************************)
EXTENDS Lifecycle, TLAPS

Count(sent) == IF sent THEN 1 ELSE 0

(* The channel holds no more results than were sent. *)
QueuedWereSent == queued <= Count(tcpSent) + Count(httpSent)

(* After its late message a session handles it, looks at the context, and   *)
(* ends: it does not wait for another.                                      *)
LateOnlyOnce ==
  \A c \in Conn :
    \/ late[c] = 0
    \/ late[c] = 1 /\ ctxDone /\ session[c] \in {"handle", "check", "ended"}

LifeInv == LifeTypeOK /\ QueuedWereSent /\ LateOnlyOnce

-----------------------------------------------------------------------------
(* The initial state of both servers satisfies the invariant. *)
LEMMA LifeInitially == LifeInit => LifeInv
<1> SUFFICES ASSUME LifeInit PROVE LifeInv
  OBVIOUS
<1>1. TcpTypeOK  BY DEF LifeInit, TcpInit, TcpTypeOK
<1>2. LifeTypeOK
  <2>1. queued \in 0..ErrCap  BY DEF LifeInit, ErrCap
  <2> QED  BY <1>1, <2>1, Zenon DEF LifeInit, LifeTypeOK
<1>3. QueuedWereSent
  <2>1. Count(tcpSent) = 0 /\ Count(httpSent) = 0  BY DEF LifeInit, Count
  <2> QED  BY <2>1 DEF LifeInit, QueuedWereSent
<1>4. LateOnlyOnce  BY DEF LifeInit, TcpInit, LateOnlyOnce
<1> QED  BY <1>2, <1>3, <1>4 DEF LifeInv

(* What ServeStep and CloseListener do to the sessions: one that is pending *)
(* is taken up or dropped; none of these had a late message.                *)
LEMMA ServeKeepsInv ==
  ASSUME LifeInv, ServeStep \/ CloseListener, UNCHANGED <<httpVars, mainVars>>
  PROVE  LifeInv'
<1> USE DEF LifeInv, LifeTypeOK, TcpTypeOK, QueuedWereSent, LateOnlyOnce, tcpVars,
            httpVars, mainVars
<1>1. CASE Listen           BY <1>1 DEF Listen
<1>2. CASE ListenFails      BY <1>2 DEF ListenFails
<1>3. CASE AcceptRetries    BY <1>3 DEF AcceptRetries
<1>4. CASE AcceptEnds       BY <1>4 DEF AcceptEnds
<1>5. CASE AcceptFailsLate  BY <1>5 DEF AcceptFailsLate
<1>6. CASE \E c \in Conn : Accept(c)
  <2> PICK c \in Conn : Accept(c)  BY <1>6
  <2> QED  BY DEF Accept
<1>7. CASE CloseListener    BY <1>7 DEF CloseListener
<1> QED  BY <1>1, <1>2, <1>3, <1>4, <1>5, <1>6, <1>7 DEF ServeStep

(* A session that looks at the context after the cancellation ends, and one *)
(* that decodes a message has had no late one yet.                          *)
LEMMA SessionKeepsInv ==
  ASSUME LifeInv, NEW c \in Conn, UNCHANGED <<httpVars, mainVars>>,
         SessionStep(c) \/ Connect(c) \/ Decode(c) \/ Hangup(c)
  PROVE  LifeInv'
<1> USE DEF LifeInv, LifeTypeOK, TcpTypeOK, QueuedWereSent, LateOnlyOnce, httpVars,
            mainVars
<1>1. CASE CheckContext(c)   BY <1>1 DEF CheckContext
<1>2. CASE HandleReturns(c)  BY <1>2 DEF HandleReturns
<1>3. CASE HandleFails(c)    BY <1>3 DEF HandleFails
<1>4. CASE Connect(c)        BY <1>4 DEF Connect
<1>5. CASE Decode(c)         BY <1>5 DEF Decode
<1>6. CASE Hangup(c)         BY <1>6 DEF Hangup
<1> QED  BY <1>1, <1>2, <1>3, <1>4, <1>5, <1>6 DEF SessionStep

(* The HTTP server, the channel and runServe leave the sessions alone. *)
LEMMA MainKeepsInv ==
  ASSUME LifeInv,
         HttpStep \/ SendTcp \/ SendHttp \/ Signal \/ Select \/ Exit
  PROVE  LifeInv'
<1> USE DEF LifeInv, LifeTypeOK, TcpTypeOK, QueuedWereSent, LateOnlyOnce, tcpVars,
            httpVars, mainVars, Count, ErrCap
<1>1. CASE HttpStep
  <2>1. CASE HttpListen      BY <2>1 DEF HttpListen
  <2>2. CASE HttpClose       BY <2>2 DEF HttpClose
  <2>3. CASE HttpServeEnds   BY <2>3 DEF HttpServeEnds
  <2>4. CASE HttpServeFails  BY <2>4 DEF HttpServeFails
  <2> QED  BY <1>1, <2>1, <2>2, <2>3, <2>4 DEF HttpStep
<1>2. CASE SendTcp   BY <1>2 DEF SendTcp
<1>3. CASE SendHttp  BY <1>3 DEF SendHttp
<1>4. CASE Signal    BY <1>4 DEF Signal
<1>5. CASE Select    BY <1>5 DEF Select
<1>6. CASE Exit      BY <1>6 DEF Exit
<1> QED  BY <1>1, <1>2, <1>3, <1>4, <1>5, <1>6

(* Every step of the process keeps the invariant. *)
LEMMA LifeStep == LifeInv /\ [LifeNext]_lifeVars => LifeInv'
<1> SUFFICES ASSUME LifeInv, [LifeNext]_lifeVars PROVE LifeInv'
  OBVIOUS
<1>1. CASE TcpStep
  BY <1>1, ServeKeepsInv, SessionKeepsInv DEF TcpStep, TcpNext, ClientStep
<1>2. CASE HttpStep \/ SendTcp \/ SendHttp \/ Signal \/ Select \/ Exit
  BY <1>2, MainKeepsInv
<1>3. CASE UNCHANGED lifeVars
  BY <1>3 DEF lifeVars, tcpVars, httpVars, mainVars, LifeInv, LifeTypeOK, TcpTypeOK,
              QueuedWereSent, LateOnlyOnce
<1> QED  BY <1>1, <1>2, <1>3 DEF LifeNext

(* The invariant holds of the whole process's life. *)
LEMMA LifeInvariant == LifeSpec => []LifeInv
  BY LifeInitially, LifeStep, PTL DEF LifeSpec

-----------------------------------------------------------------------------
(* runServe, both servers and every session: each variable keeps its type,  *)
(* so errCh never holds more than its two places.                           *)
THEOREM LifeTypesCorrect == LifeSpec => []LifeTypeOK
<1>1. LifeInv => LifeTypeOK  BY DEF LifeInv
<1> QED  BY <1>1, LifeInvariant, PTL

(* A server's goroutine that has its result and has not sent it finds room  *)
(* in errCh (main.go:206), since only the other's can be there.             *)
THEOREM ErrChHasRoom == LifeSpec => []NobodyBlocksOnErrCh
<1>1. LifeInv => NobodyBlocksOnErrCh
  BY SMT DEF LifeInv, LifeTypeOK, QueuedWereSent, Count, NobodyBlocksOnErrCh, ErrCap
<1> QED  BY <1>1, LifeInvariant, PTL

(* Session.Handle looks at the context before each message, so of those     *)
(* that arrive after the cancellation it takes up one, if it was waiting.   *)
THEOREM OneLateMessage == LifeSpec => []AtMostOneLateMessage
<1>1. LifeInv => AtMostOneLateMessage
  <2> SUFFICES ASSUME LifeInv, NEW c \in Conn PROVE late[c] <= 1
    BY DEF AtMostOneLateMessage
  <2>1. late[c] = 0 \/ late[c] = 1  BY DEF LifeInv, LateOnlyOnce
  <2> QED  BY <2>1
<1> QED  BY <1>1, LifeInvariant, PTL
=============================================================================
