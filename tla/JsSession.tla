------------------------------ MODULE JsSession ------------------------------
(* A call of JsSIP (class RTCSession of jssip.js) up to its establishment, with its
   dialogs (class Dialog), its INVITE transaction as the call sees it, and what the
   tables of the user agent hold of it. The application, the browser's media, the
   network and the other end take their steps in any order; a step is one turn of
   the event loop. Changes of an established call are in JsReoffer. *)
EXTENDS Naturals, Sequences

CONSTANTS
  Dialogs,       \* tags of the far ends; a forked INVITE has more than one
  Caller,        \* the far end of a call that arrives
  None,
  MaxOffers      \* bound on the changes of the media this end asks for

ASSUME DialogAssumption ==
  Caller \in Dialogs /\ None \notin Dialogs /\ MaxOffers \in Nat

VARIABLES
  session,       \* the RTCSession, with its part of the tables and what it did
  wire           \* the connection: "open", "closing" (lost, not yet told), "down"

vars == <<session, wire>>
Sends == wire = "open"

(* chain: what connect() or answer() waits for; queue: _connectionPromiseQueue;
   stable: an answer in a provisional response was set; answering: the answer of the
   2xx is being set, beside the queue; hangup: receiveRequest was replaced by the
   function that sends the BYE; tx: the INVITE transaction; sessions and dialogs: the
   entries in the tables of the user agent; reinvite and method: the last transaction
   by which the other end changes the call; offers: those of this end; uac_pending:
   the flag of the dialog; update: a refreshing UPDATE is under way. The last line is
   history: what the application was told, the final response, ACKs and BYEs sent,
   the ACK and the 2xx received, dialogs of forked 2xx, and whether the session went
   the way of _acceptAndTerminate, or came back to life after its end. *)
Offers == 1 .. MaxOffers
Op(op, i) == [op |-> op, offer |-> i]
Unused ==
  [ends |-> {}, role |-> "none", direction |-> "none", status |-> "NULL",
   chain |-> "none", queue |-> <<>>, connection |-> "none", stable |-> FALSE,
   answering |-> FALSE, dialog |-> None, early |-> {}, is_canceled |-> FALSE,
   is_confirmed |-> FALSE, late_sdp |-> FALSE, timers |-> {}, hangup |-> FALSE,
   tx |-> "none", sessions |-> FALSE, dialogs |-> {}, reinvite |-> "none",
   method |-> "INVITE", offers |-> [i \in Offers |-> "none"], uac_pending |-> FALSE,
   rtc_broken |-> FALSE, session_timer |-> "none", update |-> FALSE,
   told |-> <<>>, final |-> "none", acks |-> {}, bye |-> FALSE, acked |-> FALSE,
   accepted |-> {}, forks |-> {}, astray |-> FALSE]

\* Bound: the far ends an INVITE reaches, and who refreshes the session, are given.
Roles == {"refresh", "expire"}
Init ==
  /\ wire = "open"
  /\ \E ends \in {{Caller}, Dialogs}, role \in Roles :
       session = [Unused EXCEPT !.ends = ends, !.role = role]
Forked(x) == x.ends # {Caller}

Tell(x, event) == [x EXCEPT !.told = Append(@, event)]
Known(x) == x.told # <<>> /\ x.told[1] = "new"

(***************************************************************************)
(* The ends of a session.                                                   *)
(***************************************************************************)
Closed(c) == IF c = "open" THEN "closed" ELSE c
LocalOps == {"relocal", "ranswer", "reoffer"}
\* Of what a closed connection was doing, only a local description may still come.
Left(queue) == IF queue # <<>> /\ Head(queue).op \in LocalOps THEN queue ELSE <<>>
LeftOf(chain) == IF chain = "remote" THEN "none" ELSE chain
\* (For the checks: the early dialogs are forgotten, but not by the user agent.)
_close_keepsEarly(x) ==
  IF x.status = "TERMINATED" THEN x
  ELSE [x EXCEPT !.status = "TERMINATED", !.connection = Closed(@), !.queue = Left(@),
                 !.chain = LeftOf(@), !.stable = FALSE, !.answering = FALSE,
                 !.timers = {}, !.session_timer = "none", !.dialog = None, !.early = {},
                 !.dialogs = @ \ {x.dialog}, !.sessions = FALSE]
_close(x) ==
  IF x.status = "TERMINATED" THEN x
  ELSE [x EXCEPT !.status = "TERMINATED", !.connection = Closed(@), !.queue = Left(@),
                 !.chain = LeftOf(@), !.stable = FALSE, !.answering = FALSE,
                 !.timers = {}, !.session_timer = "none", !.dialog = None, !.early = {},
                 !.dialogs = @ \ (x.early \cup {x.dialog}), !.sessions = FALSE]
_failed(x) == Tell(_close(x), "failed")
_ended(x) == Tell(_close(x), "ended")

\* sendRequest of the dialog: what the transport does not take is lost.
SendAck(x) == [x EXCEPT !.acks = IF Sends THEN @ \cup {x.dialog} ELSE @]
SendBye(x) == [x EXCEPT !.bye = @ \/ Sends]

(* terminate() between our 2xx and its ACK: the BYE follows the ACK, or the end
   of the transaction (or both). *)
HangUp(x) == [SendBye(x) EXCEPT !.dialogs = @ \ {x.dialog}]
TxOver(x) ==
  LET over == [x EXCEPT !.tx = "TERMINATED"]
  IN IF x.hangup /\ x.dialog # None THEN HangUp(over) ELSE over

\* (For the checks: no look at the transaction.)
Refuse_always(x) ==
  IF Sends THEN [x EXCEPT !.tx = "COMPLETED", !.final = "reject"] ELSE TxOver(x)
\* reply() with a final response of the classes 3 to 6.
Refuse(x) ==
  IF x.tx # "PROCEEDING" THEN x
  ELSE IF Sends THEN [x EXCEPT !.tx = "COMPLETED", !.final = "reject"] ELSE TxOver(x)

\* A CANCEL that is sent at once leaves no trace in the session.
Cancel(x) == IF x.status = "1XX_RECEIVED" THEN x ELSE [x EXCEPT !.is_canceled = TRUE]
\* (For the checks: the BYE goes out at once.)
MustWait_never(x) == FALSE
MustWait(x) == x.status = "WAITING_FOR_ACK" /\ x.direction = "incoming" /\ x.tx # "TERMINATED"
\* (A session revived without its dialog throws at sendRequest.)
terminate(x) ==
  CASE x.status \in {"NULL", "INVITE_SENT", "1XX_RECEIVED"} -> _failed(Cancel(x))
    [] x.status \in {"WAITING_FOR_ANSWER", "ANSWERED"} -> _failed(Refuse(x))
    [] MustWait(x) ->
         [_ended(x) EXCEPT !.hangup = TRUE, !.dialog = x.dialog,
                           !.dialogs = @ \cup ({x.dialog} \ {None})]
    [] x.status \in {"WAITING_FOR_ACK", "CONFIRMED"} /\ ~MustWait(x) /\ x.dialog # None ->
         _ended(SendBye(x))
    [] OTHER -> x
_acceptAndTerminate(x, d, contact) ==
  LET made == IF x.dialog # None THEN x
              ELSE IF d \in x.early THEN [x EXCEPT !.dialog = d, !.early = @ \ {d}]
              ELSE IF contact THEN [x EXCEPT !.dialog = d, !.dialogs = @ \cup {d}]
              ELSE _failed(x)
      sent == IF made.dialog = None THEN made ELSE SendBye(SendAck(made))
  IN [sent EXCEPT !.status = "TERMINATED", !.astray = TRUE]

(***************************************************************************)
(* Calls that leave.                                                        *)
(***************************************************************************)
connect ==
  /\ session.direction = "none"
  /\ session' = Tell([session EXCEPT !.direction = "outgoing", !.connection = "open",
                                     !.chain = "media", !.sessions = TRUE], "new")
  /\ UNCHANGED wire

\* The INVITE. A transport that does not take it is an error of the transaction.
SendInvite(x) ==
  LET sent == [x EXCEPT !.status = "INVITE_SENT", !.chain = "none"]
  IN IF Sends THEN [sent EXCEPT !.tx = "CALLING"]
     ELSE [terminate(sent) EXCEPT !.tx = "TERMINATED"]

\* _createDialog of a response.
Dialogued(x, d, contact, early) ==
  CASE d \in x.early -> IF early THEN x ELSE [x EXCEPT !.dialog = d, !.early = @ \ {d}]
    [] d \notin x.early /\ contact ->
         IF early THEN [x EXCEPT !.early = @ \cup {d}, !.dialogs = @ \cup {d}]
                  ELSE [x EXCEPT !.dialog = d, !.dialogs = @ \cup {d}]
    [] OTHER -> _failed(x)

Waiting(x) == x.status \in {"INVITE_SENT", "1XX_RECEIVED"}

\* _receiveInviteResponse of 100, of the other 1xx and of 3xx to 6xx.
Trying(x) == IF Waiting(x) THEN [x EXCEPT !.status = "1XX_RECEIVED"] ELSE x
Ringing(x, d, contact, sdp) ==
  LET made == IF contact THEN Dialogued(x, d, TRUE, TRUE) ELSE x
      rings == [made EXCEPT !.status = "1XX_RECEIVED"]
  IN IF d = None \/ ~Waiting(x) THEN x
     ELSE IF sdp THEN [rings EXCEPT !.queue = Append(@, Op("progress", 0))] ELSE rings
Provisional(x, code, d, contact, sdp) ==
  CASE x.is_canceled -> x                       \* the CANCEL that had to wait
    [] ~x.is_canceled /\ code = "100" -> Trying(x)
    [] OTHER -> Ringing(x, d, contact, sdp)
Refused(x) == IF ~x.is_canceled /\ Waiting(x) THEN _failed(x) ELSE x

\* _receiveInviteResponse of 2xx.
Again(x, d, contact) ==
  IF d = x.dialog THEN SendAck(x)
  ELSE IF ~contact THEN x
  ELSE SendBye(SendAck([x EXCEPT !.dialogs = @ \cup {d}, !.forks = @ \cup {d}]))
Accepted(x, d, contact, sdp) ==
  LET confirmed == [x EXCEPT !.status = "CONFIRMED"]
      made == Dialogued(confirmed, d, contact, FALSE)
  IN CASE x.dialog # None -> Again(x, d, contact)
       [] x.dialog = None /\ x.is_canceled -> _acceptAndTerminate(x, d, contact)
       [] x.dialog = None /\ ~x.is_canceled /\ ~Waiting(x) -> x
       [] x.dialog = None /\ ~x.is_canceled /\ Waiting(x) /\ ~sdp ->
            _failed(_acceptAndTerminate(confirmed, d, contact))
       [] OTHER -> IF made.dialog = None THEN made
                   ELSE [made EXCEPT !.queue = Append(@, Op("offer", 0))]

\* Bound: answers in provisional responses, before any of them is set.
MaxEarlyAnswers == 1
EarlyAnswers(x) == IF x.stable THEN MaxEarlyAnswers ELSE Len(x.queue)
ReceiveProvisional ==
  \E code \in {"100", "1xx"}, d \in session.ends \cup {None}, contact, sdp \in BOOLEAN :
    /\ wire # "down" /\ session.direction = "outgoing"
    /\ session.tx \in {"CALLING", "PROCEEDING"}
    /\ sdp => EarlyAnswers(session) < MaxEarlyAnswers
    /\ session' = Provisional([session EXCEPT !.tx = "PROCEEDING"], code, d, contact, sdp)
    /\ UNCHANGED wire
\* Bound: a 2xx that failed a call that was over is not repeated.
ReceiveAccepted ==
  \E d \in session.ends, contact, sdp \in BOOLEAN :
    /\ wire # "down" /\ session.direction = "outgoing" /\ (session.astray => contact)
    /\ session.tx \in {"CALLING", "PROCEEDING", "ACCEPTED"}
    /\ session' = Accepted([session EXCEPT !.tx = "ACCEPTED", !.accepted = @ \cup {d}],
                           d, contact, sdp)
    /\ UNCHANGED wire
ReceiveRefused ==
  /\ wire # "down" /\ session.direction = "outgoing"
  /\ session.tx \in {"CALLING", "PROCEEDING"}
  /\ session' = Refused([session EXCEPT !.tx = "COMPLETED"])
  /\ UNCHANGED wire

(***************************************************************************)
(* Calls that arrive.                                                       *)
(***************************************************************************)
\* init_incoming: 415 for a body that is not SDP, 500 without a Contact, else 180.
Arrives(x, sdp, expires) ==
  Tell([x EXCEPT !.status = "WAITING_FOR_ANSWER", !.early = {Caller}, !.dialogs = {Caller},
                 !.late_sdp = ~sdp, !.sessions = TRUE,
                 !.timers = IF expires THEN {"noAnswer", "expires"} ELSE {"noAnswer"}], "new")
init_incoming ==
  LET asked == [session EXCEPT !.direction = "incoming", !.tx = "PROCEEDING"]
  IN /\ wire # "down" /\ session.direction = "none"
     /\ UNCHANGED wire
     /\ \/ session' = Refuse(asked)
        \/ session' = Refuse(_failed(asked))
        \/ \E sdp, expires \in BOOLEAN :
             LET arrived == Arrives(asked, sdp, expires)
             IN session' \in {terminate(arrived), IF Sends THEN arrived ELSE TxOver(arrived)}

answer ==
  /\ session.status = "WAITING_FOR_ANSWER"
  /\ session' = [session EXCEPT !.status = "ANSWERED", !.dialog = Caller, !.early = @ \ {Caller},
                                !.timers = @ \ {"noAnswer"}, !.connection = "open", !.chain = "media"]
  /\ UNCHANGED wire

\* _runSessionTimer, as the one that refreshes or the one that waits.
RunSessionTimer(x) == [x EXCEPT !.session_timer = x.role]

\* (For the checks: no look at the transaction; no ACK timer.)
SendAnswer_late(x) ==
  LET replied == [x EXCEPT !.chain = "none"]
  IN IF ~Sends THEN _failed(TxOver(replied))
     ELSE Tell([replied EXCEPT !.status = "WAITING_FOR_ACK",
                               !.timers = @ \cup {"2xx", "ack"},
                               !.final = IF x.tx = "PROCEEDING" THEN "2xx" ELSE @,
                               !.tx = IF @ = "PROCEEDING" THEN "ACCEPTED" ELSE @], "accepted")
SendAnswer_noTimer(x) ==
  LET replied == [x EXCEPT !.chain = "none", !.tx = "ACCEPTED"]
  IN IF x.tx # "PROCEEDING" THEN [x EXCEPT !.chain = "none"]
     ELSE IF ~Sends THEN _failed(TxOver(replied))
     ELSE Tell([replied EXCEPT !.final = "2xx", !.status = "WAITING_FOR_ACK",
                               !.timers = @ \cup {"2xx"}], "accepted")
\* The last link of answer(): the 200, its two callbacks, or none if it is too late.
SendAnswer(x) ==
  LET replied == [x EXCEPT !.chain = "none", !.tx = "ACCEPTED"]
  IN IF x.tx # "PROCEEDING" THEN [x EXCEPT !.chain = "none"]
     ELSE IF ~Sends THEN _failed(TxOver(replied))
     ELSE Tell([replied EXCEPT !.final = "2xx", !.status = "WAITING_FOR_ACK",
                               !.timers = @ \cup {"2xx", "ack"}], "accepted")

\* receiveRequest: CANCEL, ACK and BYE, by way of the tables of the user agent.
ReceiveCancel ==
  /\ wire # "down" /\ session.direction = "incoming"
  /\ session.tx = "PROCEEDING" /\ session.sessions
  /\ session' = IF session.status \in {"WAITING_FOR_ANSWER", "ANSWERED"}
                THEN _failed(Refuse(session)) ELSE session
  /\ UNCHANGED wire

Confirmed(x) == IF x.is_confirmed THEN x ELSE Tell([x EXCEPT !.is_confirmed = TRUE], "confirmed")
Ack(x, sdp) ==
  LET heard == [x EXCEPT !.status = "CONFIRMED", !.timers = @ \ {"ack", "2xx"}]
  IN CASE x.hangup -> HangUp(x)
       [] ~x.hangup /\ x.status # "WAITING_FOR_ACK" -> x
       [] ~x.hangup /\ x.status = "WAITING_FOR_ACK" /\ ~x.late_sdp -> Confirmed(heard)
       [] OTHER -> IF sdp THEN [heard EXCEPT !.queue = Append(@, Op("ack", 0))]
                   ELSE terminate(heard)
ReceiveAck ==
  \E sdp \in BOOLEAN :
    /\ wire # "down" /\ (session.final = "2xx" \/ session.reinvite = "ACCEPTED")
    /\ session.dialog \in session.dialogs
    /\ session' = Ack([session EXCEPT !.acked = TRUE], sdp)
    /\ UNCHANGED wire

Bye(x) ==
  CASE ~x.hangup /\ x.status \in {"CONFIRMED", "WAITING_FOR_ACK"} -> _ended(x)
    [] ~x.hangup /\ x.status = "WAITING_FOR_ANSWER" -> _ended(Refuse(x))
    [] OTHER -> x
ReceiveBye ==
  \E d \in session.dialogs :
    /\ wire # "down" /\ (session.direction = "outgoing" => d \in session.accepted)
    /\ session' = Bye(session)
    /\ UNCHANGED wire

(***************************************************************************)
(* The browser: media, descriptions, and the candidates that end them. The   *)
(* promises of a closed RTCPeerConnection are never settled; but the ready   *)
(* function given with every candidate may be called at any time.            *)
(***************************************************************************)
Dropped(x) == [x EXCEPT !.chain = "none"]
Over(x) == x.status = "TERMINATED"
Media(granted) ==
  /\ session.chain = "media"
  /\ UNCHANGED wire
  /\ session' = CASE Over(session) -> Dropped(session)
                  [] ~Over(session) /\ granted ->
                       [session EXCEPT !.chain = IF session.direction = "incoming" /\ ~session.late_sdp
                                                 THEN "remote" ELSE "local"]
                  [] OTHER -> _failed(Refuse(Dropped(session)))
RemoteDescription(set) ==
  /\ session.chain = "remote" /\ session.connection = "open"
  /\ UNCHANGED wire
  /\ session' = IF set THEN [session EXCEPT !.chain = "local"] ELSE _failed(Refuse(Dropped(session)))
LocalDescription ==
  /\ session.chain = "local"
  /\ UNCHANGED wire
  /\ session' = CASE Over(session) -> Dropped(session)
                  [] ~Over(session) /\ session.direction = "incoming" ->
                       SendAnswer(RunSessionTimer(session))
                  [] OTHER -> SendInvite(session)
NoLocalDescription ==
  /\ session.chain = "local" /\ session.connection = "open"
  /\ UNCHANGED wire
  /\ session' = IF session.direction = "incoming" THEN Refuse(Dropped(session))
                ELSE _failed(Dropped(session))

(* The head of the queue is settled. What would start on a closed connection is
   rejected: of that only the re-INVITE without SDP is answered. *)
Decline(x) ==
  IF x.reinvite # "PROCEEDING" THEN x
  ELSE [x EXCEPT !.reinvite = IF Sends THEN "COMPLETED" ELSE "TERMINATED"]
Rejected(x) ==
  LET declines == \E i \in DOMAIN x.queue : x.queue[i].op = "relocal"
      answered == IF declines THEN Decline(x) ELSE x
  IN [answered EXCEPT !.queue = <<>>]
HeadIs(op) == session.queue # <<>> /\ Head(session.queue).op = op
Settled(x) ==
  LET next == [x EXCEPT !.queue = Tail(@)]
  IN IF x.connection = "open" THEN next ELSE Rejected(next)
Cut(x) == IF Over(x) THEN x ELSE terminate(Rejected(x))
Progress(done) ==
  /\ HeadIs("progress") /\ session.connection = "open"
  /\ session' = [Settled(session) EXCEPT !.stable = @ \/ done]
  /\ UNCHANGED wire
\* After an answer in a provisional response the offer is made again; the answer is
\* set in any case.
RenewOffer(done) ==
  LET x == [Settled(session) EXCEPT !.stable = FALSE, !.answering = TRUE]
  IN /\ HeadIs("offer") /\ session.connection = "open"
     /\ session' = IF done \/ ~session.stable THEN x ELSE _failed(_acceptAndTerminate(x, x.dialog, TRUE))
     /\ UNCHANGED wire
RemoteAnswer(done) ==
  LET x == [session EXCEPT !.answering = FALSE]
  IN /\ session.answering
     /\ session' = IF done THEN Confirmed(SendAck(Tell(RunSessionTimer(x), "accepted")))
                   ELSE _failed(_acceptAndTerminate(x, x.dialog, TRUE))
     /\ UNCHANGED wire
AnswerInAck(done) ==
  /\ HeadIs("ack") /\ session.connection = "open"
  /\ session' = IF done THEN Confirmed(Settled(session)) ELSE Cut(Settled(session))
  /\ UNCHANGED wire

(***************************************************************************)
(* Timers.                                                                  *)
(***************************************************************************)
NoAnswerTimer ==
  /\ "noAnswer" \in session.timers
  /\ session' = _failed(Refuse([session EXCEPT !.timers = @ \ {"noAnswer"}]))
  /\ UNCHANGED wire
ExpiresTimer ==
  LET rung == [session EXCEPT !.timers = @ \ {"expires"}]
  IN /\ "expires" \in session.timers
     /\ session' = IF rung.status = "WAITING_FOR_ANSWER" THEN _failed(Refuse(rung))
                   ELSE rung
     /\ UNCHANGED wire
\* invite2xxRetransmission: the 200 again, until the status is another.
ResendTimer ==
  /\ "2xx" \in session.timers
  /\ LET waits == session.status = "WAITING_FOR_ACK"
         again == session.reinvite = "ACCEPTED"
     IN session' = CASE ~waits -> [session EXCEPT !.timers = @ \ {"2xx"}]
                     [] waits /\ ~Sends /\ again -> [session EXCEPT !.reinvite = "TERMINATED"]
                     [] waits /\ ~Sends /\ ~again /\ session.tx = "ACCEPTED" -> TxOver(session)
                     [] OTHER -> session
  /\ UNCHANGED wire
\* Timer L has the same 32 seconds and is started before it.
AckTimer ==
  LET rung == [session EXCEPT !.timers = @ \ {"ack"}]
  IN /\ "ack" \in session.timers /\ "ACCEPTED" \notin {session.tx, session.reinvite}
     /\ session' = IF rung.status = "WAITING_FOR_ACK" /\ rung.dialog # None
                   THEN _ended(SendBye(rung)) ELSE rung
     /\ UNCHANGED wire
\* Timers L, M, H, D (and I, of the ACK) and B of the INVITE transaction; L of a re-INVITE.
TxTimer ==
  /\ session.tx \in {"ACCEPTED", "COMPLETED", "CALLING"}
  /\ session' = LET over == TxOver(session)
                IN IF session.tx = "CALLING" /\ ~Over(session) THEN terminate(over) ELSE over
  /\ UNCHANGED wire
\* The interval of the 180 finds the connection lost before its event has run.
ProvisionalTimer ==
  /\ session.direction = "incoming" /\ session.tx = "PROCEEDING" /\ ~Sends
  /\ session' = TxOver(session)
  /\ UNCHANGED wire
ReinviteTimer ==
  /\ session.reinvite = "ACCEPTED"
  /\ session' = [session EXCEPT !.reinvite = "TERMINATED"]
  /\ UNCHANGED wire
=============================================================================
