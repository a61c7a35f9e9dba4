------------------------------ MODULE JsReoffer ------------------------------
(* Changes of an established call of JsSIP: the re-INVITE and UPDATE of the other
   end (Dialog.receiveRequest, _receiveReinvite, _receiveUpdate), the re-INVITE of
   this end (hold, unhold, renegotiate, _sendReinvite, DialogRequestSender) and the
   session timers, which refresh by an UPDATE without SDP. *)
EXTENDS JsSession

rtcReady(x) ==
  ~x.rtc_broken /\ x.chain # "local" /\ (x.queue # <<>> => Head(x.queue).op \notin LocalOps)
uas_pending(x) == x.reinvite = "PROCEEDING"
_isReadyToReOffer(x) == rtcReady(x) /\ x.dialog # None /\ ~x.uac_pending /\ ~uas_pending(x)
Established(x) == x.status \in {"WAITING_FOR_ACK", "CONFIRMED"}

(***************************************************************************)
(* Asked for by the other end.                                              *)
(***************************************************************************)
\* The 200 of a re-INVITE waits for an ACK, whatever became of the session.
Accept(x) ==
  CASE ~uas_pending(x) -> x
    [] uas_pending(x) /\ ~Sends -> [x EXCEPT !.reinvite = "TERMINATED"]
    [] uas_pending(x) /\ Sends /\ x.method = "UPDATE" -> [x EXCEPT !.reinvite = "COMPLETED"]
    [] OTHER -> [x EXCEPT !.reinvite = "ACCEPTED", !.status = "WAITING_FOR_ACK", !.astray = @ \/ Over(x),
                          !.timers = @ \cup {"2xx", "ack"}]

(* _checkInDialogRequest: 500 while another is under way; 491 while this end waits
   for an answer, but the request goes on to the session all the same. *)
Begin(x, method) ==
  LET asked == [x EXCEPT !.reinvite = "PROCEEDING", !.method = method]
  IN IF x.uac_pending THEN Decline(asked) ELSE asked
\* _receiveReinvite and _receiveUpdate: the application or the content type refuse,
\* or the media is asked.
Offered(x, sdp, welcome) ==
  LET late == IF x.method = "INVITE" THEN [x EXCEPT !.late_sdp = ~sdp] ELSE x
  IN CASE x.hangup -> x
       [] ~x.hangup /\ (x.status # "CONFIRMED" \/ ~welcome) -> Decline(x)
       [] ~x.hangup /\ x.status = "CONFIRMED" /\ welcome /\ ~sdp ->
            [late EXCEPT !.queue = Append(@, Op("relocal", 0))]
       [] OTHER -> [late EXCEPT !.queue = Append(@, Op("roffer", 0))]
\* Bound: one request of the other end is in the queue at a time.
FarOps == {"relocal", "roffer", "ranswer"}
Asked(x) == \E i \in DOMAIN x.queue : x.queue[i].op \in FarOps
FromOtherEnd(x) ==
  /\ wire # "down" /\ ~Forked(x) /\ ~Asked(x) /\ x.dialog \in x.dialogs
  /\ IF x.direction = "incoming" THEN x.final = "2xx" ELSE x.dialog \in x.acks
ReceiveReinvite ==
  \E sdp, welcome \in BOOLEAN :
    /\ FromOtherEnd(session) /\ ~uas_pending(session)
    /\ session' = Offered(Begin(session, "INVITE"), sdp, welcome)
    /\ UNCHANGED wire
ReceiveUpdate ==
  \E welcome \in BOOLEAN :
    /\ FromOtherEnd(session) /\ ~uas_pending(session)
    /\ session' = Offered(Begin(session, "UPDATE"), TRUE, welcome)
    /\ UNCHANGED wire
\* An UPDATE without SDP only refreshes the session.
ReceiveRefresh ==
    /\ FromOtherEnd(session) /\ session.status = "CONFIRMED" /\ ~session.hangup
    /\ session' = RunSessionTimer(session)
    /\ UNCHANGED wire

(* _processInDialogSdpOffer. A failure is answered and swallowed: what follows runs
   as after a success, and finds the transaction answered. *)
SetOffer(done) ==
    /\ HeadIs("roffer") /\ session.connection = "open"
    /\ session' = IF done THEN [session EXCEPT !.queue = <<Op("ranswer", 0)>> \o Tail(@)]
                  ELSE RunSessionTimer(Decline(Settled(session)))
    /\ UNCHANGED wire
MakeAnswer ==
    /\ HeadIs("ranswer")
    /\ session' = IF Over(session) THEN Settled(session)
                  ELSE Accept(RunSessionTimer(Settled(session)))
    /\ UNCHANGED wire
\* A session that ended meanwhile is not looked for here.
MakeOffer ==
    /\ HeadIs("relocal")
    /\ session' = Accept(RunSessionTimer(Settled(session)))
    /\ UNCHANGED wire
\* createOffer and createAnswer that fail leave _rtcReady false; setLocalDescription
\* does not.
MakeNothing ==
  \E broken \in BOOLEAN :
    /\ HeadIs("relocal") \/ HeadIs("ranswer")
    /\ session.connection = "open"
    /\ LET failed == Decline([Settled(session) EXCEPT !.rtc_broken = @ \/ broken])
       IN session' = IF HeadIs("ranswer") THEN RunSessionTimer(failed) ELSE failed
    /\ UNCHANGED wire

(***************************************************************************)
(* Asked for by this end.                                                   *)
(***************************************************************************)
Step(x, i, state) == [x EXCEPT !.offers[i] = state]
Final(x, i) == [Step(x, i, "over") EXCEPT !.uac_pending = FALSE]

renegotiate(i) ==
  /\ ~Forked(session) /\ Established(session) /\ _isReadyToReOffer(session)
  /\ session.offers[i] = "none"
  /\ session' = [Step(session, i, "queued") EXCEPT !.queue = Append(@, Op("reoffer", i))]
  /\ UNCHANGED wire

\* DialogRequestSender.send.
SendOffer(x, i, state, unsent) ==
  IF Sends THEN [Step(x, i, state) EXCEPT !.uac_pending = TRUE] ELSE unsent
LocalOffer(done) ==
  /\ HeadIs("reoffer") /\ (done \/ session.connection = "open")
  /\ UNCHANGED wire
  /\ LET i == Head(session.queue).offer
         x == Settled(session)
         over == Step(x, i, "over")
     IN IF done
        THEN session' = IF x.dialog = None THEN over ELSE SendOffer(x, i, "sent", Cut(over))
        ELSE \E broken \in BOOLEAN :
               session' = Cut([over EXCEPT !.rtc_broken = @ \/ broken])

Sent(i) == session.offers[i] \in {"sent", "resent"}
OfferAccepted(i) ==
  \E sdp \in BOOLEAN :
    /\ wire # "down" /\ Sent(i)
    /\ UNCHANGED wire
    /\ LET x == Final(session, i)
           heard == RunSessionTimer(SendAck(x))
       IN session' = CASE Over(x) -> x
                       [] ~Over(x) /\ sdp -> [heard EXCEPT !.queue = Append(@, Op("reanswer", i))]
                       [] OTHER -> terminate(heard)
SetAnswer(done) ==
  /\ HeadIs("reanswer") /\ session.connection = "open"
  /\ session' = IF done THEN Settled(session) ELSE Cut(Settled(session))
  /\ UNCHANGED wire
\* Any other final response, and the timer B of the request.
OfferRefused(i) ==
  /\ Sent(i)
  /\ session' = terminate(Final(session, i))
  /\ UNCHANGED wire
\* 491 is tried again once after a second; isTerminated() never is true.
OfferCrossed(i) ==
  /\ wire # "down" /\ session.offers[i] = "sent"
  /\ session' = [Final(session, i) EXCEPT !.offers[i] = "retry"]
  /\ UNCHANGED wire
Reattempt(i) ==
  /\ session.offers[i] = "retry"
  /\ session' = SendOffer(session, i, "resent", terminate(Step(session, i, "over")))
  /\ UNCHANGED wire

(***************************************************************************)
(* Session timers.                                                          *)
(***************************************************************************)
SessionTimer ==
  LET x == [session EXCEPT !.session_timer = "none"]
  IN /\ session.session_timer # "none"
     /\ UNCHANGED wire
     /\ session' = CASE Over(x) -> x
                     [] ~Over(x) /\ session.session_timer = "expire" -> terminate(x)
                     [] ~Over(x) /\ session.session_timer = "refresh"
                          /\ ~_isReadyToReOffer(x) -> x
                     [] OTHER -> IF Sends THEN [x EXCEPT !.update = TRUE] ELSE terminate(x)
\* The UPDATE is accepted, refused (and nothing follows), or the dialog is gone.
Refreshed ==
  /\ session.update
  /\ UNCHANGED wire
  /\ LET x == [session EXCEPT !.update = FALSE]
     IN \/ session' = IF Over(x) THEN x ELSE RunSessionTimer(x)
        \/ session' = x
        \/ session' = terminate(x)
=============================================================================
