----------------------------- MODULE Lifecycle -----------------------------
(***************************************************************************)
(* runServe: the TCP server and the HTTP server under one context that a   *)
(* signal cancels, the channel their results arrive on, and the process    *)
(* that ends, with every goroutine in it, when runServe returns.           *)
(***************************************************************************)
EXTENDS TcpServer

VARIABLES
  main,       \* runServe: "select", "cancel" or "exited"
  queued,     \* results in errCh
  tcpSent,    \* the goroutine around tcpServer.ListenAndServe is done
  http,       \* httpServer.ListenAndServe: "listen", "serve", "ok" or "error"
  httpClosed, \* srv.Close has been called
  httpSent    \* the goroutine around it is done

httpVars  == <<http, httpClosed>>
mainVars  == <<main, queued, tcpSent, httpSent>>
lifeVars  == <<ctxDone, tcpVars, httpVars, mainVars>>

LifeInit ==
  /\ TcpInit
  /\ ctxDone = FALSE
  /\ main = "select"
  /\ queued = 0
  /\ tcpSent = FALSE /\ httpSent = FALSE
  /\ http = "listen" /\ httpClosed = FALSE

-----------------------------------------------------------------------------
(* http.Server.ListenAndServe.  The listener is opened without the context; *)
(* Serve on a server already closed returns ErrServerClosed at once, which  *)
(* becomes nil.                                                             *)
HttpListen ==
  /\ http = "listen"
  /\ http' \in {"serve", "error"}
  /\ UNCHANGED <<ctxDone, tcpVars, httpClosed, mainVars>>

HttpClose ==
  /\ http = "serve" /\ ctxDone /\ ~httpClosed
  /\ httpClosed' = TRUE
  /\ UNCHANGED <<ctxDone, tcpVars, http, mainVars>>

HttpServeEnds ==
  /\ http = "serve" /\ httpClosed
  /\ http' = "ok"
  /\ UNCHANGED <<ctxDone, tcpVars, httpClosed, mainVars>>

HttpServeFails ==
  /\ http = "serve" /\ ~httpClosed
  /\ http' = "error"
  /\ UNCHANGED <<ctxDone, tcpVars, httpClosed, mainVars>>

HttpStep == HttpListen \/ HttpClose \/ HttpServeEnds \/ HttpServeFails

-----------------------------------------------------------------------------
(* errCh <- ...ListenAndServe(...)                                          *)
ErrCapOne == 1                             \* Mutant

ErrCap == 2

SendTcp ==
  /\ serve \in {"ok", "error"} /\ ~tcpSent
  /\ queued < ErrCap
  /\ queued' = queued + 1
  /\ tcpSent' = TRUE
  /\ UNCHANGED <<ctxDone, tcpVars, httpVars, main, httpSent>>

SendHttp ==
  /\ http \in {"ok", "error"} /\ ~httpSent
  /\ queued < ErrCap
  /\ queued' = queued + 1
  /\ httpSent' = TRUE
  /\ UNCHANGED <<ctxDone, tcpVars, httpVars, main, tcpSent>>

(* runServe's select, then cancel and return. *)
SelectSignalOnly ==                        \* Mutant: errCh is not received from
  /\ main = "select" /\ ctxDone
  /\ main' = "cancel"
  /\ UNCHANGED <<ctxDone, tcpVars, httpVars, queued, tcpSent, httpSent>>

Select ==
  /\ main = "select"
  /\ \/ queued > 0 /\ queued' = queued - 1
     \/ ctxDone /\ UNCHANGED queued
  /\ main' = "cancel"
  /\ UNCHANGED <<ctxDone, tcpVars, httpVars, tcpSent, httpSent>>

ExitAfterSessions ==                       \* Mutant: waits for the sessions first
  /\ main = "cancel"
  /\ \A c \in Conn : session[c] \in {"none", "ended"}
  /\ ctxDone' = TRUE
  /\ main' = "exited"
  /\ UNCHANGED <<tcpVars, httpVars, queued, tcpSent, httpSent>>

Exit ==
  /\ main = "cancel"
  /\ ctxDone' = TRUE
  /\ main' = "exited"
  /\ UNCHANGED <<tcpVars, httpVars, queued, tcpSent, httpSent>>

Signal ==
  /\ ~ctxDone
  /\ ctxDone' = TRUE
  /\ UNCHANGED <<tcpVars, httpVars, mainVars>>

TcpStep == TcpNext /\ UNCHANGED <<httpVars, mainVars>>

LifeNext ==
  \/ main # "exited" /\ (TcpStep \/ HttpStep \/ SendTcp \/ SendHttp \/ Signal)
  \/ Select \/ Exit
  \/ main = "exited" /\ UNCHANGED lifeVars

Alive(A) == main # "exited" /\ A

(* The process's goroutines are scheduled as long as it lives. *)
LifeSpec ==
  /\ LifeInit /\ [][LifeNext]_lifeVars
  /\ WF_lifeVars(Select \/ Exit)
  /\ WF_lifeVars(Alive(SendTcp)) /\ WF_lifeVars(Alive(SendHttp))
  /\ WF_lifeVars(Alive((Listen \/ ListenFails \/ AcceptEnds \/ CloseListener)
                         /\ UNCHANGED <<httpVars, mainVars>>))
  /\ WF_lifeVars(Alive(HttpListen \/ HttpClose \/ HttpServeEnds))

-----------------------------------------------------------------------------
LifeTypeOK ==
  /\ TcpTypeOK
  /\ main \in {"select", "cancel", "exited"}
  /\ queued \in 0..ErrCap
  /\ tcpSent \in BOOLEAN /\ httpSent \in BOOLEAN
  /\ http \in {"listen", "serve", "ok", "error"}
  /\ httpClosed \in BOOLEAN

(* A server that cannot listen or serve takes the process down with it: the *)
(* other one does not go on serving alone.  (An Accept of the TCP server    *)
(* that fails is tried again, for ever if need be, and counts as neither.)  *)
FailureStopsBoth == (serve = "error" \/ http = "error") ~> main = "exited"

(* A signal ends the process, whatever the servers and sessions are doing.  *)
SignalStops == ctxDone ~> main = "exited"

(* errCh holds both results, so neither server's goroutine can be left      *)
(* blocked on it, whichever of them runServe had time to receive.           *)
NobodyBlocksOnErrCh ==
  /\ serve \in {"ok", "error"} /\ ~tcpSent => queued < ErrCap
  /\ http \in {"ok", "error"} /\ ~httpSent => queued < ErrCap
=============================================================================
