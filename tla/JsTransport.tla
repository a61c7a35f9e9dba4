---------------------------- MODULE JsTransport ----------------------------
(* The transport of JsSIP (modules Transport and WebSocketInterface of
   jssip.js): one WebSocket at a time out of a list of servers, opened again
   after a delay when it is lost. The operators give the transport after a call
   or an event; the user agent, whose callbacks run within, composes them. *)
EXTENDS Naturals, FiniteSets

CONSTANTS
  Sockets,       \* the servers of the configuration
  Weight,        \* their weights
  Refusals       \* the sets of servers the browser may refuse (the constructor throws)

ASSUME SocketsAssumption ==
  /\ Sockets # {} /\ IsFiniteSet(Sockets)
  /\ Weight \in [Sockets -> Nat]
  /\ Refusals \subseteq SUBSET Sockets

VARIABLE
  transport      \* status, socket, failed (status ERROR), ws (_ws of each), close_requested, recovery_timer; refused: see Refusals

Readiness == {"none", "connecting", "open", "closing", "closed"}
TransportType ==
  [status : {"disconnected", "connecting", "connected"}, socket : Sockets, failed : SUBSET Sockets,
   ws : [Sockets -> Readiness], close_requested : BOOLEAN, recovery_timer : BOOLEAN, refused : SUBSET Sockets]

\* _getSocket: one of the heaviest that have not failed; all of them when all have.
Usable(failed) == IF failed = Sockets THEN Sockets ELSE Sockets \ failed
Heaviest(failed) == {s \in Usable(failed) : \A r \in Usable(failed) : Weight[r] <= Weight[s]}
Picked(t, s) == [t EXCEPT !.socket = s, !.failed = IF @ = Sockets THEN {} ELSE @]

TransportInit ==
  \E s \in Heaviest({}), refused \in Refusals :
    transport = [status |-> "disconnected", socket |-> s, failed |-> {}, ws |-> [r \in Sockets |-> "none"],
                 close_requested |-> FALSE, recovery_timer |-> FALSE, refused |-> refused]

CanSend(t) == t.status = "connected" /\ t.ws[t.socket] = "open"

\* WebSocketInterface.connect and disconnect. An exception of the constructor is only logged.
WsConnect(t) ==
  IF t.ws[t.socket] \in {"open", "connecting"} THEN t
  ELSE [t EXCEPT !.ws[t.socket] = IF t.socket \in t.refused THEN "none" ELSE "connecting"]
WsDisconnect(t) == [t EXCEPT !.ws[t.socket] = "none"]

connect(t) ==
  IF t.status # "disconnected" THEN t
  ELSE WsConnect([t EXCEPT !.close_requested = FALSE, !.status = "connecting"])
disconnect_keepsTimer(t) == WsDisconnect([t EXCEPT !.close_requested = TRUE, !.status = "disconnected"])
disconnect_keepsSocket(t) == [t EXCEPT !.close_requested = TRUE, !.status = "disconnected", !.recovery_timer = FALSE]
disconnect(t) ==
  WsDisconnect([t EXCEPT !.close_requested = TRUE, !.status = "disconnected", !.recovery_timer = FALSE])

\* The events of a WebSocket, for whichever socket they are.
_onConnect(t, s) == [t EXCEPT !.ws[s] = "open", !.status = "connected", !.recovery_timer = FALSE]
Closing(t, s) == [t EXCEPT !.ws[s] = "closing"]
_onDisconnect_onlyConnected(t, s) ==
  LET down == [t EXCEPT !.ws[s] = "closed", !.status = "disconnected"]
  IN IF t.close_requested \/ t.status = "connecting" THEN down
     ELSE [down EXCEPT !.failed = @ \cup {t.socket}, !.recovery_timer = TRUE]
_onDisconnect(t, s) ==
  LET down == [t EXCEPT !.ws[s] = "closed", !.status = "disconnected"]
  IN IF t.close_requested THEN down
     ELSE [down EXCEPT !.failed = @ \cup {t.socket}, !.recovery_timer = TRUE]

\* The recovery timer set by _reconnect.
Reconnected(t) ==
  LET fired == [t EXCEPT !.recovery_timer = FALSE]
  IN IF ~t.close_requested /\ t.status = "disconnected"
     THEN {connect(Picked(fired, s)) : s \in Heaviest(t.failed)}
     ELSE {fired}

(***************************************************************************)
(* Properties.                                                              *)
(***************************************************************************)
(* There is never a second WebSocket: the only one under way or open is that of
   the current socket, and the status of the transport is that of this WebSocket
   - or the browser refused to make one, and the transport waits for ever. No
   recovery timer is left that could open a second one later. *)
Under(t) == {s \in Sockets : t.ws[s] \in {"connecting", "open", "closing"}}
OneWebSocket ==
  LET t == transport
  IN /\ t.recovery_timer => t.status = "disconnected" /\ ~t.close_requested
     /\ Under(t) \subseteq {t.socket}
     /\ t.status = "disconnected" => Under(t) = {}
     /\ t.status = "connecting" => t.ws[t.socket] = "connecting" \/ t.socket \in t.refused
     /\ t.status = "connected" => t.ws[t.socket] \in {"open", "closing"}
=============================================================================
