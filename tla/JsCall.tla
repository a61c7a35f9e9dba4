------------------------------- MODULE JsCall -------------------------------
(* The whole call: RTCSession of JsSIP between the application, the browser, the
   other end and the connection of the user agent. *)
EXTENDS JsReoffer

(***************************************************************************)
(* The application and the connection.                                      *)
(***************************************************************************)
\* terminate(), called by the application or when the media connection fails.
Terminate ==
  /\ Known(session) /\ ~Over(session)
  /\ session' = terminate(session)
  /\ UNCHANGED wire

Lost == wire = "open" /\ wire' = "closing" /\ UNCHANGED session
\* Every transaction ends; those that wait for an answer end the session first.
Unanswered(x) ==
  \/ x.direction = "outgoing" /\ x.tx \in {"CALLING", "PROCEEDING", "COMPLETED"}
  \/ x.update
  \/ \E i \in Offers : Sent(i)
Abandoned(x) ==
  [x EXCEPT !.update = FALSE, !.uac_pending = FALSE,
            !.offers = [i \in Offers |-> IF Sent(i) THEN "over" ELSE @[i]],
            !.reinvite = IF @ = "none" THEN @ ELSE "TERMINATED"]
onTransportDisconnect ==
  LET ends == IF Unanswered(session) THEN terminate(session) ELSE session
  IN /\ wire = "closing"
     /\ wire' = "down"
     /\ session' = Abandoned(IF session.tx \in {"none", "TERMINATED"} THEN ends
                            ELSE TxOver(ends))
onTransportConnect == wire = "down" /\ wire' = "open" /\ UNCHANGED session

Initial ==
  \/ connect
  \/ init_incoming
  \/ answer
  \/ ReceiveProvisional
  \/ ReceiveAccepted
  \/ ReceiveRefused
  \/ ReceiveCancel
  \/ ReceiveAck
  \/ ReceiveBye
Browser ==
  \/ \E granted \in BOOLEAN : Media(granted)
  \/ \E set \in BOOLEAN : RemoteDescription(set)
  \/ LocalDescription
  \/ NoLocalDescription
  \/ \E done \in BOOLEAN : Progress(done) \/ RenewOffer(done) \/ RemoteAnswer(done)
  \/ \E done \in BOOLEAN : AnswerInAck(done)
  \/ \E done \in BOOLEAN : SetOffer(done) \/ LocalOffer(done) \/ SetAnswer(done)
  \/ MakeAnswer
  \/ MakeOffer
  \/ MakeNothing
Change ==
  \/ ReceiveReinvite
  \/ ReceiveUpdate
  \/ ReceiveRefresh
  \/ \E i \in Offers : renegotiate(i) \/ OfferAccepted(i)
  \/ \E i \in Offers : OfferRefused(i) \/ OfferCrossed(i)
  \/ Refreshed
Timer ==
  \/ NoAnswerTimer
  \/ ExpiresTimer
  \/ ResendTimer
  \/ AckTimer
  \/ TxTimer
  \/ ProvisionalTimer
  \/ ReinviteTimer
  \/ SessionTimer
  \/ \E i \in Offers : Reattempt(i)
Next ==
  \/ Terminate
  \/ Initial
  \/ Browser
  \/ Change
  \/ Timer
  \/ Lost
  \/ onTransportDisconnect
  \/ onTransportConnect
Spec == Init /\ [][Next]_vars
\* The event loop runs every timer that is due.
FairSpec ==
  /\ Spec
  /\ WF_vars(NoAnswerTimer) /\ WF_vars(AckTimer) /\ WF_vars(TxTimer) /\ WF_vars(ReinviteTimer)

(***************************************************************************)
(* Properties.                                                              *)
(***************************************************************************)
Heard(event) == \E i \in DOMAIN session.told : session.told[i] = event
EndsTold == {i \in DOMAIN session.told : session.told[i] \in {"failed", "ended"}}

\* The callee sends no BYE before it has the ACK of its 200 or has given it up (the
\* comment in terminate() quotes RFC 3261 section 15), however the hanging up of the
\* application, the timers and a lost connection fall; and the caller sends one only
\* when some 2xx arrived.
ByeAfterAck ==
  session.bye =>
    IF session.direction = "incoming" THEN session.acked \/ session.tx = "TERMINATED"
    ELSE session.accepted # {}

(* What the application is told. A call that arrives is "accepted" exactly when a 200
   was sent, and one that was sent never "failed"; no call ends untold; and nothing
   is told after the end, but by a session that ended in _acceptAndTerminate or was
   revived by a re-INVITE. *)
SameAsAnswered ==
  session.direction = "incoming" =>
    /\ Heard("accepted") <=> session.final = "2xx"
    /\ Heard("failed") => session.final # "2xx"
ToldOfTheEnd == Known(session) /\ Over(session) => EndsTold # {}
NothingAfterTheEnd == session.astray \/ \A i \in EndsTold : i = Len(session.told)

\* The application's view of a call is that of the other end, whatever the answer, the
\* timers, CANCEL and BYE, and the browser's promises race for.
ToldTheTruth == SameAsAnswered /\ ToldOfTheEnd /\ NothingAfterTheEnd

(* The tables of the user agent. A live session and its dialogs are listed (or no ACK,
   BYE or re-INVITE would find them); a listed dialog is held by its session, but for
   those of forked 2xx; an ended session is not listed, nor its dialogs, unless a BYE
   still waits for its ACK; and the flag of the dialog that refuses the other end's
   changes is never left up when no request of this end waits for an answer. *)
Live == session.status \in {"WAITING_FOR_ANSWER", "ANSWERED", "WAITING_FOR_ACK", "CONFIRMED"}
Mine == (session.early \cup {session.dialog}) \ {None}
Leaked == session.dialogs \ session.forks
LiveIsListed == Live /\ ~session.astray => session.sessions /\ Mine \subseteq session.dialogs
DialogsAreHeld == Leaked \subseteq Mine
EndedIsGone ==
  Over(session) /\ ~session.astray => ~session.sessions /\ (Leaked = {} \/ session.hangup)
PendingIsTrue == session.uac_pending => \E i \in Offers : Sent(i)

\* The tables, the session and the dialog agree after any sequence of responses of
\* forks, ends of all kinds and changes of the media.
CallIsListed == LiveIsListed /\ DialogsAreHeld /\ EndedIsGone /\ PendingIsTrue

(* The INVITE transaction of a call goes its way as JsTransactions shows that one
   does, whichever of the user, the other end, the timers and the connection acts on
   it: no second answer, no answer after the end. *)
TxSide(x) ==
  IF x.tx = "none" THEN "none" ELSE IF x.direction = "outgoing" THEN "client" ELSE "server"
TxPhase(x) ==
  CASE x.tx = "CALLING" -> "calling"
    [] x.tx = "PROCEEDING" -> "proceeding"
    [] x.tx = "ACCEPTED" -> "accepted"
    [] x.tx = "COMPLETED" -> "completed"
    [] x.tx = "TERMINATED" -> "over"
    [] OTHER -> "none"
Invitation == INSTANCE InviteTransaction WITH
  Invites <- {Caller},
  side <- [i \in {Caller} |-> TxSide(session)],
  phase <- [i \in {Caller} |-> TxPhase(session)],
  sent <- [i \in {Caller} |-> session.final]

InviteKeepsItsWord == Invitation!Spec

\* No wait is for ever: for the user to answer, for the ACK (while there is a dialog
\* to hang up), for the BYE put off until the ACK, and for the answer to an INVITE.
WaitsEnd ==
  /\ session.status = "WAITING_FOR_ANSWER" ~> session.status # "WAITING_FOR_ANSWER"
  /\ session.status = "WAITING_FOR_ACK" /\ session.dialog # None
       ~> session.status # "WAITING_FOR_ACK"
  /\ session.hangup /\ session.dialog # None ~> session.dialog \notin session.dialogs
  /\ session.tx = "CALLING" ~> session.tx # "CALLING"
=============================================================================
