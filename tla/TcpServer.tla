----------------------------- MODULE TcpServer -----------------------------
(***************************************************************************)
(* tcp.Server: the accept loop, the goroutine that closes the listener     *)
(* when the context is cancelled, and one goroutine per connection running *)
(* Session.Handle, of which only the loop around the messages is kept.     *)
(***************************************************************************)
EXTENDS Naturals

CONSTANT Conn     \* connections that clients may open

VARIABLES
  ctxDone,    \* the context is cancelled
  serve,      \* ListenAndServe: "listen", "accept", "ok" or "error"
  listener,   \* "none", "open" or "closed"
  closer,     \* the goroutine that waits for the context: "off", "wait", "gone"
  session,    \* per connection
  late        \* history: messages a session took up after the cancellation

tcpVars == <<serve, listener, closer, session, late>>

TcpInit ==
  /\ serve = "listen"
  /\ listener = "none"
  /\ closer = "off"
  /\ session = [c \in Conn |-> "none"]
  /\ late = [c \in Conn |-> 0]

-----------------------------------------------------------------------------
(* ListenAndServe.  An address without a host name is listened on without   *)
(* a look at the context, be it cancelled or not; with one, or if the       *)
(* address is taken, listening fails.                                       *)
Listen ==
  /\ serve = "listen"
  /\ serve' = "accept"
  /\ listener' = "open"
  /\ closer' = "wait"
  /\ UNCHANGED <<ctxDone, session, late>>

ListenFails ==
  /\ serve = "listen"
  /\ serve' = "error"
  /\ UNCHANGED <<ctxDone, listener, closer, session, late>>

(* A connection that the kernel completed before the listener was closed    *)
(* may still be accepted.                                                   *)
Accept(c) ==
  /\ serve = "accept" /\ listener = "open"
  /\ session[c] = "pending"
  /\ session' = [session EXCEPT ![c] = "check"]
  /\ UNCHANGED <<ctxDone, serve, listener, closer, late>>

(* Accept fails for some other reason: the loop tries again.                *)
AcceptRetries ==
  /\ serve = "accept" /\ ~ctxDone
  /\ UNCHANGED <<ctxDone, tcpVars>>

(* Accept fails on the closed listener, or for some other reason after the  *)
(* cancellation: ListenAndServe returns nil.                                *)
AcceptEnds ==
  /\ serve = "accept" /\ ctxDone /\ listener = "closed"
  /\ serve' = "ok"
  /\ UNCHANGED <<ctxDone, listener, closer, session, late>>

AcceptFailsLate ==
  /\ serve = "accept" /\ ctxDone /\ listener = "open"
  /\ serve' = "ok"
  /\ UNCHANGED <<ctxDone, listener, closer, session, late>>

CloseListener ==
  /\ closer = "wait" /\ ctxDone
  /\ closer' = "gone"
  /\ listener' = "closed"
  /\ session' = [c \in Conn |-> IF session[c] = "pending" THEN "ended" ELSE session[c]]
  /\ UNCHANGED <<ctxDone, serve, late>>

-----------------------------------------------------------------------------
(* Session.Handle's loop: look at the context, wait for a message, handle   *)
(* it.  handleConn closes the connection on every way out.                  *)
CheckNeverEnds(c) ==                       \* Mutant: the context is not looked at
  /\ session[c] = "check"
  /\ session' = [session EXCEPT ![c] = "decode"]
  /\ UNCHANGED <<ctxDone, serve, listener, closer, late>>

CheckContext(c) ==
  /\ session[c] = "check"
  /\ session' = [session EXCEPT ![c] = IF ctxDone THEN "ended" ELSE "decode"]
  /\ UNCHANGED <<ctxDone, serve, listener, closer, late>>

HandleReturns(c) ==
  /\ session[c] = "handle"
  /\ session' = [session EXCEPT ![c] = "check"]
  /\ UNCHANGED <<ctxDone, serve, listener, closer, late>>

(* A reply could not be written, or a panic was recovered in handleConn.    *)
HandleFails(c) ==
  /\ session[c] = "handle"
  /\ session' = [session EXCEPT ![c] = "ended"]
  /\ UNCHANGED <<ctxDone, serve, listener, closer, late>>

(* The clients: they connect, send requests and go away as they like.       *)
Connect(c) ==
  /\ session[c] = "none" /\ listener = "open"
  /\ session' = [session EXCEPT ![c] = "pending"]
  /\ UNCHANGED <<ctxDone, serve, listener, closer, late>>

Decode(c) ==
  /\ session[c] = "decode"
  /\ session' = [session EXCEPT ![c] = "handle"]
  /\ late' = [late EXCEPT ![c] = IF ctxDone THEN @ + 1 ELSE @]
  /\ UNCHANGED <<ctxDone, serve, listener, closer>>

Hangup(c) ==
  /\ session[c] = "decode"
  /\ session' = [session EXCEPT ![c] = "ended"]
  /\ UNCHANGED <<ctxDone, serve, listener, closer, late>>

ServeStep ==
  \/ Listen \/ ListenFails \/ AcceptRetries \/ AcceptEnds \/ AcceptFailsLate
  \/ \E c \in Conn : Accept(c)

SessionStep(c) == CheckContext(c) \/ HandleReturns(c) \/ HandleFails(c)

ClientStep == \E c \in Conn : Connect(c) \/ Decode(c) \/ Hangup(c)

TcpNext ==
  \/ ServeStep \/ CloseListener
  \/ \E c \in Conn : SessionStep(c)
  \/ ClientStep

-----------------------------------------------------------------------------
TcpTypeOK ==
  /\ ctxDone \in BOOLEAN
  /\ serve \in {"listen", "accept", "ok", "error"}
  /\ listener \in {"none", "open", "closed"}
  /\ closer \in {"off", "wait", "gone"}
  /\ session \in [Conn -> {"none", "pending", "check", "decode", "handle", "ended"}]
  /\ late \in [Conn -> Nat]

(* However busy its client, a session takes up at most one message after    *)
(* the context was cancelled: the one it was already waiting for.           *)
AtMostOneLateMessage == \A c \in Conn : late[c] <= 1
=============================================================================
