---------------------------- MODULE JsUserAgent ----------------------------
(* The user agent of JsSIP (module UA of jssip.js) with its transport and its
   registration. JavaScript runs one callback at a time: an action is a call of
   the application, an event of the WebSocket, a message or a timer, with every
   callback that runs within it. *)
EXTENDS JsTransport, JsRegistrator

CONSTANTS
  ConfigRegister,  \* configuration.register
  MaxCSeq          \* bound: REGISTER requests of a behaviour

ASSUME UserAgentAssumption == ConfigRegister \in BOOLEAN /\ MaxCSeq \in Nat

VARIABLES
  uaStatus,        \* _status of the user agent
  closeTimer,      \* _closeTimer
  dynRegister      \* _dynConfiguration.register

vars == <<transport, registrator, bound, uaStatus, closeTimer, dynRegister>>

TypeOK ==
  /\ transport \in TransportType
  /\ registrator \in RegistratorType
  /\ bound \in BOOLEAN
  /\ uaStatus \in {"init", "ready", "closed", "notReady"}
  /\ closeTimer \in BOOLEAN
  /\ dynRegister \in BOOLEAN

Init ==
  /\ TransportInit
  /\ RegistratorInit
  /\ uaStatus = "init"
  /\ closeTimer = FALSE
  /\ dynRegister = FALSE

Open == CanSend(transport)
Closed == uaStatus = "closed"
InBounds == registrator'.cseq <= MaxCSeq

\* onTransportDisconnect: what was under way fails; the registrar may have got part of it.
Lost == {bound} \cup {registrator.requests[i].wants : i \in Unanswered(registrator)}
AfterLoss(status) == IF status = "closed" THEN "closed" ELSE "notReady"
onTransportDisconnect(r) == registrator' = onTransportClosed(r) /\ bound' \in Lost

(***************************************************************************)
(* The calls of the application.                                            *)
(***************************************************************************)
start ==
  /\ dynRegister' = ConfigRegister
  /\ closeTimer' = FALSE
  /\ \/ /\ uaStatus = "init" \/ (Closed /\ ~closeTimer)
        /\ uaStatus' = "init"
        /\ transport' = connect(transport)
        /\ UNCHANGED <<registrator, bound>>
     \/ /\ Closed /\ closeTimer
        /\ uaStatus' = "init"
        /\ transport' = connect(disconnect(transport))
        /\ onTransportDisconnect(registrator)
     \/ /\ uaStatus \in {"ready", "notReady"}
        /\ UNCHANGED <<uaStatus, transport, registrator, bound>>

Register ==
  /\ dynRegister' = TRUE
  /\ registrator' = register(registrator, Open, Closed)
  /\ InBounds
  /\ UNCHANGED <<transport, bound, uaStatus, closeTimer>>

Unregister ==
  /\ dynRegister' = FALSE
  /\ registrator' = unregister(registrator, Open, Closed)
  /\ InBounds
  /\ UNCHANGED <<transport, bound, uaStatus, closeTimer>>

\* busy: a session, or a transaction other than a REGISTER, is there.
StopAtOnce(r, busy) == Quiet(r) /\ ~busy
stop(busy) ==
  /\ dynRegister' = FALSE
  /\ IF Closed THEN UNCHANGED <<transport, registrator, bound, uaStatus, closeTimer>>
     ELSE LET r == close(registrator, Open)
          IN /\ uaStatus' = "closed"
             /\ IF StopAtOnce(r, busy)
                THEN /\ transport' = disconnect(transport)
                     /\ onTransportDisconnect(r)
                     /\ UNCHANGED closeTimer
                ELSE /\ closeTimer' = TRUE
                     /\ registrator' = r
                     /\ UNCHANGED <<transport, bound>>
  /\ InBounds

(***************************************************************************)
(* Timers.                                                                  *)
(***************************************************************************)
CloseTimer ==
  /\ closeTimer
  /\ closeTimer' = FALSE
  /\ transport' = disconnect(transport)
  /\ onTransportDisconnect(registrator)
  /\ uaStatus' = AfterLoss(uaStatus)
  /\ UNCHANGED dynRegister

RecoveryTimer ==
  /\ transport.recovery_timer
  /\ transport' \in Reconnected(transport)
  /\ UNCHANGED <<registrator, bound, uaStatus, closeTimer, dynRegister>>

RegistrationTimer ==
  /\ registrator.timer
  /\ registrator' = Expiring(registrator, Open, Closed)
  /\ InBounds
  /\ UNCHANGED <<transport, bound, uaStatus, closeTimer, dynRegister>>

RequestTimer ==
  /\ ~Quiet(registrator)
  /\ registrator' = TimedOut(registrator)
  /\ UNCHANGED <<transport, bound, uaStatus, closeTimer, dynRegister>>

(***************************************************************************)
(* The events of the WebSockets, and the messages.                          *)
(***************************************************************************)
\* onTransportConnect, which does nothing in a user agent that was stopped.
WsOpen(s) ==
  /\ transport.ws[s] = "connecting"
  /\ transport' = _onConnect(transport, s)
  /\ IF Closed THEN UNCHANGED <<uaStatus, registrator>>
     ELSE /\ uaStatus' = "ready"
          /\ registrator' = IF dynRegister THEN register(registrator, CanSend(transport'), FALSE) ELSE registrator
  /\ InBounds
  /\ UNCHANGED <<bound, closeTimer, dynRegister>>

WsClosing(s) ==
  /\ transport.ws[s] = "open"
  /\ transport' = Closing(transport, s)
  /\ UNCHANGED <<registrator, bound, uaStatus, closeTimer, dynRegister>>

WsClose(s) ==
  /\ transport.ws[s] \in {"connecting", "open", "closing"}
  /\ transport' = _onDisconnect(transport, s)
  /\ onTransportDisconnect(registrator)
  /\ uaStatus' = AfterLoss(uaStatus)
  /\ UNCHANGED <<closeTimer, dynRegister>>

Reached == transport.status = "connected"

Answer(answer) ==
  /\ Reached
  /\ Registrar(answer)
  /\ UNCHANGED <<transport, uaStatus, closeTimer, dynRegister>>

Ringing(i) ==
  /\ Reached
  /\ registrator' = Provisional(registrator, registrator.requests[i])
  /\ UNCHANGED <<transport, bound, uaStatus, closeTimer, dynRegister>>

Receive(i) ==
  /\ Reached
  /\ registrator.requests[i].answer # "none"
  /\ registrator' = _receiveResponse(registrator, i, Open, Closed)
  /\ InBounds
  /\ UNCHANGED <<transport, bound, uaStatus, closeTimer, dynRegister>>

Next ==
  \/ start \/ Register \/ Unregister
  \/ \E busy \in BOOLEAN : stop(busy)
  \/ CloseTimer \/ RecoveryTimer \/ RegistrationTimer \/ RequestTimer
  \/ \E s \in Sockets : WsOpen(s) \/ WsClosing(s) \/ WsClose(s)
  \/ \E answer \in Answers : Answer(answer)
  \/ \E i \in DOMAIN registrator.requests : Ringing(i) \/ Receive(i)

\* A timer of the event loop runs out.
Fairness == WF_vars(CloseTimer) /\ WF_vars(RecoveryTimer) /\ WF_vars(RequestTimer)
Spec == Init /\ [][Next]_vars /\ Fairness

(***************************************************************************)
(* Properties.                                                              *)
(***************************************************************************)
(* The user agent and its transport agree: it is ready exactly while the
   transport is connected and nobody stopped it, and once it is stopped and the
   close timer is over there is no connection, no recovery to come and no
   registration that renews itself. *)
StatusFollows ==
  /\ uaStatus = "ready" <=> transport.status = "connected" /\ ~Closed
  /\ Closed /\ ~closeTimer =>
       /\ transport.close_requested /\ transport.status = "disconnected" /\ ~transport.recovery_timer
       /\ Quiet(registrator) /\ ~registrator.registered

(* Attempt the registration again immediately: when 423 Interval Too Brief answers
   the last REGISTER, a new one is sent while the connection is there. *)
AttemptsAgain ==
  [][\A i \in DOMAIN registrator.requests :
       LET q == registrator.requests[i]
       IN Receive(i) /\ Open /\ q.wants /\ q.answer = "423" /\ Counts(registrator, q)
            => \E j \in DOMAIN registrator'.requests : registrator'.requests[j].cseq > q.cseq]_vars

(* A registration under way comes to its end - the answer, a failure or timer F -
   so that a later register() is not refused for ever as one in progress. (Not
   after a 423, see AttemptsAgain; nor when register() was called over a request
   that was not answered: if that is challenged, it adds one to _cseq, and the
   answer to the REGISTER counts as old.) *)
RegistrationSettles == registrator.registering ~> ~registrator.registering \/ registrator.crossed

\* A WebSocket whose next event moves the transport, and one that was never made.
Awaited == transport.ws[transport.socket] \in {"connecting", "open", "closing"}
Refused == transport.status = "connecting" /\ transport.socket \in transport.refused

\* A connection that was lost is tried again: a WebSocket is made, unless the
\* browser refuses it or the user agent is stopped.
Reconnects == (uaStatus = "notReady" /\ ~Awaited) ~> (Awaited \/ Refused \/ Closed)

\* A user agent that was stopped closes its connection, whatever holds it.
StopCloses == Closed ~> (transport.close_requested \/ ~Closed)

(* No order of calls, losses and timers leaves a user agent without a WebSocket that
   connects, or a stopped one that keeps its connection (onTransportDisconnect,
   _reconnect, stop, start). The one exception is a constructor that throws: it is
   only logged, and the transport stays "connecting" for a WebSocket nobody made. *)
ConnectionSettles == Reconnects /\ StopCloses
=============================================================================
