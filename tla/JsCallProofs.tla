----------------------------- MODULE JsCallProofs -----------------------------
(* Proofs about the call of JsCall: the type of the session, when a BYE is sent, what
   the application is told, what the tables of the user agent list, and that its INVITE
   transaction is the abstract one. *)
EXTENDS JsCall, SequenceTheorems, TLAPS

(***************************************************************************)
(* The type of a session. The sets have names so that a proof can leave     *)
(* them unexpanded.                                                         *)
(***************************************************************************)
Ops == {"progress", "offer", "ack", "relocal", "roffer", "ranswer", "reoffer", "reanswer"}
Directions == {"none", "incoming", "outgoing"}
Statuses == {"NULL", "INVITE_SENT", "1XX_RECEIVED", "WAITING_FOR_ANSWER", "ANSWERED",
             "WAITING_FOR_ACK", "CONFIRMED", "TERMINATED"}
Chains == {"none", "media", "remote", "local"}
Connections == {"none", "open", "closed"}
TxStates == {"none", "CALLING", "PROCEEDING", "ACCEPTED", "COMPLETED", "TERMINATED"}
ReinviteStates == {"none", "PROCEEDING", "ACCEPTED", "COMPLETED", "TERMINATED"}
OfferStates == {"none", "queued", "sent", "resent", "retry", "over"}
OfferTables == [Offers -> OfferStates]
Finals == {"none", "reject", "2xx"}
Events == {"new", "failed", "ended", "accepted", "confirmed"}
Tellings == Seq(Events)
Entries == {o \in [op : Ops, offer : Offers \cup {0}] :
              o.op \in {"reoffer", "reanswer"} => o.offer \in Offers}
Queues == Seq(Entries)
Ends == SUBSET Dialogs
End == Dialogs \cup {None}
AckSets == SUBSET End
TimerSets == SUBSET {"noAnswer", "expires", "2xx", "ack"}
Refreshers == Roles \cup {"none"}
Methods == {"INVITE", "UPDATE"}

CallType ==
  [ends : Ends, role : Refreshers, direction : Directions, status : Statuses,
   chain : Chains, queue : Queues, connection : Connections, stable : BOOLEAN,
   answering : BOOLEAN, dialog : End, early : Ends, is_canceled : BOOLEAN,
   is_confirmed : BOOLEAN, late_sdp : BOOLEAN, timers : TimerSets, hangup : BOOLEAN,
   tx : TxStates, sessions : BOOLEAN, dialogs : Ends, reinvite : ReinviteStates,
   method : Methods, offers : OfferTables, uac_pending : BOOLEAN,
   rtc_broken : BOOLEAN, session_timer : Refreshers, update : BOOLEAN,
   told : Tellings, final : Finals, acks : AckSets, bye : BOOLEAN, acked : BOOLEAN,
   accepted : Ends, forks : Ends, astray : BOOLEAN]

LEMMA Constants ==
  /\ {} \in Ends /\ {} \in TimerSets /\ {} \in AckSets /\ None \in End
  /\ Caller \in End /\ {Caller} \in Ends
  /\ <<>> \in Queues /\ <<>> \in Tellings /\ "none" \in Refreshers
  BY DialogAssumption DEF Ends, TimerSets, AckSets, End, Queues, Tellings, Refreshers
LEMMA Names ==
  /\ {"NULL", "INVITE_SENT", "1XX_RECEIVED", "WAITING_FOR_ANSWER", "ANSWERED",
      "WAITING_FOR_ACK", "CONFIRMED", "TERMINATED"} \subseteq Statuses
  /\ {"none", "CALLING", "PROCEEDING", "ACCEPTED", "COMPLETED", "TERMINATED"} \subseteq TxStates
  /\ {"none", "PROCEEDING", "ACCEPTED", "COMPLETED", "TERMINATED"} \subseteq ReinviteStates
  /\ {"none", "media", "remote", "local"} \subseteq Chains
  /\ {"none", "reject", "2xx"} \subseteq Finals
  /\ {"INVITE", "UPDATE"} \subseteq Methods
  BY DEF Statuses, TxStates, ReinviteStates, Chains, Finals, Methods

(***************************************************************************)
(* The queue of the connection.                                             *)
(***************************************************************************)
Holds(q, op) == \E k \in DOMAIN q : q[k].op = op
\* Of the changes of the media of this end: one that waits, once; and no more than there.
Asks(q, i) == \E k \in DOMAIN q : q[k].op = "reoffer" /\ q[k].offer = i
Once(q, i) ==
  \A k, l \in DOMAIN q :
    /\ q[k].op = "reoffer" /\ q[k].offer = i
    /\ q[l].op = "reoffer" /\ q[l].offer = i
    => k = l
Fewer(p, q) ==
  \A i \in Offers : (Asks(p, i) => Asks(q, i)) /\ (Once(q, i) => Once(p, i))

\* What an operation of the queue keeps of it, adds to it or takes from it.
LEMMA Added ==
  ASSUME NEW q \in Queues, NEW op \in Ops, NEW i \in Offers \cup {0},
         op \in {"reoffer", "reanswer"} => i \in Offers
  PROVE  /\ Append(q, Op(op, i)) \in Queues
         /\ \A o : Holds(Append(q, Op(op, i)), o) => o = op \/ Holds(q, o)
         /\ op # "reoffer" => Fewer(Append(q, Op(op, i)), q)
  <1>1. Op(op, i) \in Entries /\ Op(op, i).op = op /\ Op(op, i).offer = i BY DEF Op, Entries
  <1> DEFINE p == Append(q, Op(op, i))
  <1>2. /\ p \in Queues /\ DOMAIN p = 1 .. Len(q) + 1 /\ DOMAIN q = 1 .. Len(q)
        /\ p[Len(q) + 1].op = op /\ p[Len(q) + 1].offer = i
        /\ \A k \in 1 .. Len(q) : p[k] = q[k]
    BY <1>1 DEF Queues
  <1> HIDE DEF p
  <1>n. Len(q) \in Nat BY DEF Queues
  <1>3. \A o : Holds(p, o) => o = op \/ Holds(q, o) BY <1>2, <1>n DEF Holds
  <1>4. op # "reoffer" => Fewer(p, q) BY <1>2, <1>n DEF Fewer, Asks, Once
  <1> QED BY <1>2, <1>3, <1>4 DEF p
LEMMA AskedOnce ==
  ASSUME NEW q \in Queues, NEW i \in Offers, ~Asks(q, i), NEW j \in Offers
  PROVE  /\ Asks(Append(q, Op("reoffer", i)), j) => j = i \/ Asks(q, j)
         /\ j = i \/ Once(q, j) => Once(Append(q, Op("reoffer", i)), j)
  <1> DEFINE p == Append(q, Op("reoffer", i))
  <1>1. Op("reoffer", i) \in Entries /\ Op("reoffer", i).op = "reoffer" /\ Op("reoffer", i).offer = i
    BY DEF Op, Entries, Ops
  <1>2. /\ DOMAIN p = 1 .. Len(q) + 1 /\ DOMAIN q = 1 .. Len(q) /\ Len(q) \in Nat
        /\ p[Len(q) + 1].op = "reoffer" /\ p[Len(q) + 1].offer = i
        /\ \A k \in 1 .. Len(q) : p[k] = q[k]
    BY <1>1 DEF Queues
  <1> HIDE DEF p
  <1>3. (Asks(p, j) => j = i \/ Asks(q, j)) /\ (j = i \/ Once(q, j) => Once(p, j))
    BY <1>2 DEF Asks, Once
  <1> QED BY <1>3 DEF p
LEMMA Taken ==
  ASSUME NEW q \in Queues, q # <<>>
  PROVE  /\ Tail(q) \in Queues
         /\ \A o : Holds(Tail(q), o) => Holds(q, o)
         /\ Holds(q, Head(q).op)
         /\ Head(q) \in Entries
         /\ Fewer(Tail(q), q)
         /\ Head(q).op = "reoffer" =>
              /\ Asks(q, Head(q).offer)
              /\ Once(q, Head(q).offer) => ~Asks(Tail(q), Head(q).offer)
  <1>1. q \in Seq(Entries) BY DEF Queues
  <1>2. /\ Head(q) \in Entries /\ Tail(q) \in Seq(Entries) /\ Len(Tail(q)) = Len(q) - 1
        /\ \A k \in 1 .. Len(Tail(q)) : Tail(q)[k] = q[k + 1]
    BY <1>1, HeadTailProperties
  <1>3. Tail(q) \in Queues BY <1>2 DEF Queues
  <1>4. \A o : Holds(Tail(q), o) => Holds(q, o)
    BY <1>1, <1>2 DEF Holds
  <1>5. Head(q) = q[1] /\ 1 \in DOMAIN q BY <1>1
  <1>6. Holds(q, Head(q).op) BY <1>5 DEF Holds
  <1> DEFINE t == Tail(q)
  <1>7. /\ DOMAIN q = 1 .. Len(q) /\ DOMAIN t = 1 .. Len(q) - 1 /\ Len(q) \in Nat
        /\ \A k \in DOMAIN t : t[k] = q[k + 1] /\ k + 1 \in DOMAIN q
    BY <1>1, <1>2
  <1> HIDE DEF t
  <1>8. Fewer(t, q)
    <2>1. ASSUME NEW i \in Offers PROVE Asks(t, i) => Asks(q, i) BY <1>7 DEF Asks
    <2>2. ASSUME NEW i \in Offers, Once(q, i) PROVE Once(t, i)
      <3> SUFFICES ASSUME NEW k \in DOMAIN t, NEW l \in DOMAIN t,
                          t[k].op = "reoffer", t[k].offer = i, t[l].op = "reoffer", t[l].offer = i
                   PROVE  k = l
        BY DEF Once
      <3>1. k + 1 = l + 1 BY <1>7, <2>2 DEF Once
      <3> QED BY <3>1, <1>7
    <2> QED BY <2>1, <2>2 DEF Fewer
  <1>9. ASSUME Head(q).op = "reoffer", Once(q, Head(q).offer), Asks(t, Head(q).offer) PROVE FALSE
    <2>1. PICK k \in DOMAIN t : t[k].op = "reoffer" /\ t[k].offer = Head(q).offer
      BY <1>9 DEF Asks
    <2>2. k + 1 = 1 BY <1>5, <1>7, <1>9, <2>1 DEF Once
    <2> QED BY <1>7, <2>2
  <1>10. Head(q).op = "reoffer" => Asks(q, Head(q).offer) BY <1>5 DEF Asks
  <1> QED BY <1>2, <1>3, <1>4, <1>6, <1>8, <1>9, <1>10 DEF t
LEMMA Replaced ==
  ASSUME NEW q \in Queues, q # <<>>
  PROVE  /\ <<Op("ranswer", 0)>> \o Tail(q) \in Queues
         /\ \A o : Holds(<<Op("ranswer", 0)>> \o Tail(q), o) => o = "ranswer" \/ Holds(q, o)
         /\ Fewer(<<Op("ranswer", 0)>> \o Tail(q), q)
  <1>1. Op("ranswer", 0) \in Entries /\ Op("ranswer", 0).op = "ranswer" BY DEF Op, Entries, Ops
  <1> DEFINE p == <<Op("ranswer", 0)>> \o Tail(q)
  <1>2. /\ p \in Queues /\ DOMAIN p = DOMAIN q /\ DOMAIN q = 1 .. Len(q) /\ Len(q) \in Nat
        /\ p[1].op = "ranswer" /\ \A k \in DOMAIN q : k # 1 => p[k] = q[k]
    BY <1>1 DEF Queues
  <1> HIDE DEF p
  <1>3. \A o : Holds(p, o) => o = "ranswer" \/ Holds(q, o) BY <1>2 DEF Holds
  <1>4. Fewer(p, q) BY <1>2 DEF Fewer, Asks, Once
  <1> QED BY <1>2, <1>3, <1>4 DEF p
LEMMA Kept ==
  ASSUME NEW q \in Queues
  PROVE  /\ Left(q) \in Queues
         /\ \A o : Holds(Left(q), o) => Holds(q, o)
         /\ \A o : ~Holds(<<>>, o)
         /\ Fewer(Left(q), q) /\ Fewer(<<>>, q) /\ \A i \in Offers : ~Asks(<<>>, i)
  BY Constants DEF Left, Holds, Fewer, Asks, Once
LEMMA Nothing == (\A o : ~Holds(<<>>, o)) /\ (\A i : ~Asks(<<>>, i) /\ Once(<<>>, i))
  BY DEF Holds, Asks, Once

(***************************************************************************)
(* Who answered what, and which end a BYE may come from.                    *)
(***************************************************************************)
Incoming(x) == x.direction = "incoming"
\* ByeAfterAck, of a session.
ByeInTime(x) ==
  x.bye => IF Incoming(x) THEN x.acked \/ x.tx = "TERMINATED" ELSE x.accepted # {}
\* Once the 200 is sent the INVITE is over for its transaction and for answer().
AnsweredIsOver(x) ==
  Incoming(x) /\ x.final = "2xx" =>
    /\ x.tx \in {"ACCEPTED", "TERMINATED"} /\ x.chain = "none"
    /\ x.status \in {"WAITING_FOR_ACK", "CONFIRMED", "TERMINATED"}
EstablishedIsAnswered(x) ==
  Incoming(x) =>
    /\ x.status \in {"WAITING_FOR_ACK", "CONFIRMED"} \/ x.reinvite # "none" => x.final = "2xx"
    /\ x.status = "CONFIRMED" => x.acked
\* What only a callee, or only a caller, can be in the middle of.
Sides(x) ==
  /\ x.status \in {"WAITING_FOR_ANSWER", "ANSWERED"} \/ x.hangup => Incoming(x)
  /\ x.answering \/ Holds(x.queue, "offer") => x.direction = "outgoing" /\ x.accepted # {}
  /\ x.dialog = None => ~x.answering /\ (x.connection = "open" => ~Holds(x.queue, "offer"))
  /\ ~Incoming(x) /\ x.dialog # None => x.accepted # {}
  /\ "noAnswer" \in x.timers => x.status = "WAITING_FOR_ANSWER" /\ x.chain = "none"
  /\ Incoming(x) /\ x.chain # "none" => x.status \in {"ANSWERED", "TERMINATED"}
\* A change of the media that waits in the queue has not been sent; and while the flag of
\* the dialog is up, one that was sent waits for its answer.
Tidy(q, offers, pending) ==
  /\ \A i \in Offers : Asks(q, i) => offers[i] = "queued" /\ Once(q, i)
  /\ pending => \E i \in Offers : offers[i] \in {"sent", "resent"}
Agreed(x) ==
  /\ ByeInTime(x) /\ AnsweredIsOver(x) /\ EstablishedIsAnswered(x) /\ Sides(x)
  /\ Tidy(x.queue, x.offers, x.uac_pending)
LEMMA FewerIsTidy ==
  ASSUME NEW p, NEW q, NEW offers, NEW pending, Tidy(q, offers, pending), Fewer(p, q)
  PROVE  Tidy(p, offers, pending)
  BY DEF Tidy, Fewer
Sane(x) == x \in CallType /\ Agreed(x)
Caused(x) == ~Incoming(x) /\ x.accepted # {}

\* The operators of the sessions keep all of it, and the side of the call.
Keeps(x, y) == Sane(y) /\ y.direction = x.direction /\ y.accepted = x.accepted

LEMMA TellKeeps ==
  ASSUME NEW x, Sane(x), NEW e \in Events
  PROVE  Keeps(x, Tell(x, e))
  <1>1. Append(x.told, e) \in Tellings BY DEF Sane, CallType, Tellings
  <1>2. Tell(x, e) \in CallType BY <1>1 DEF Sane, Tell, CallType
  <1>3. Agreed(Tell(x, e))
    BY DEF Sane, Tell, CallType, Agreed, ByeInTime, AnsweredIsOver, EstablishedIsAnswered,
           Sides, Incoming
  <1> QED BY <1>2, <1>3 DEF Keeps, Sane, Tell, CallType

LEMMA CloseKeeps ==
  ASSUME NEW x, Sane(x)
  PROVE  Keeps(x, _close(x))
  <1>1. CASE x.status = "TERMINATED" BY <1>1 DEF _close, Keeps
  <1>2. CASE x.status # "TERMINATED"
    <2> DEFINE a == [x EXCEPT !.status = "TERMINATED", !.connection = Closed(@),
                              !.queue = Left(@), !.chain = LeftOf(@)]
               b == [a EXCEPT !.stable = FALSE, !.answering = FALSE, !.timers = {},
                              !.session_timer = "none"]
               c == [b EXCEPT !.dialog = None, !.early = {},
                              !.dialogs = x.dialogs \ (x.early \cup {x.dialog}), !.sessions = FALSE]
    <2>1. /\ Left(x.queue) \in Queues /\ LeftOf(x.chain) \in Chains
          /\ Closed(x.connection) \in Connections /\ Closed(x.connection) # "open"
          /\ x.dialogs \ (x.early \cup {x.dialog}) \in Ends
      BY Kept DEF Sane, CallType, LeftOf, Closed, Chains, Connections, Ends
    <2>2. a \in CallType BY <2>1, Names DEF Sane, CallType
    <2>3. _close(x) = c BY <1>2 DEF _close, Sane, CallType
    <2> HIDE DEF a
    <2>4. b \in CallType BY ZenonT(60), <2>2, Constants DEF CallType
    <2> HIDE DEF b
    <2>5. c \in CallType BY <2>4, <2>1, Constants DEF CallType
    <2>6. /\ \A o : Holds(Left(x.queue), o) => Holds(x.queue, o)
          /\ Tidy(Left(x.queue), x.offers, x.uac_pending)
      BY Kept, FewerIsTidy DEF Sane, CallType, Agreed
    <2>7. Agreed(_close(x))
      BY <1>2, <2>1, <2>6 DEF _close, Sane, CallType, Agreed, ByeInTime, AnsweredIsOver,
         EstablishedIsAnswered, Sides, Incoming, LeftOf
    <2> QED BY <1>2, <2>3, <2>5, <2>7 DEF Keeps, Sane, _close, CallType
  <1> QED BY <1>1, <1>2

LEMMA FailedKeeps ==
  ASSUME NEW x, Sane(x)
  PROVE  Keeps(x, _failed(x)) /\ Keeps(x, _ended(x))
  <1>1. Keeps(x, _close(x)) BY CloseKeeps
  <1>2. Keeps(_close(x), Tell(_close(x), "failed")) /\ Keeps(_close(x), Tell(_close(x), "ended"))
    BY <1>1, TellKeeps DEF Keeps, Events
  <1> QED BY <1>1, <1>2 DEF _failed, _ended, Keeps

LEMMA SendAckKeeps ==
  ASSUME NEW x, Sane(x)
  PROVE  Keeps(x, SendAck(x))
  <1>1. (IF Sends THEN x.acks \cup {x.dialog} ELSE x.acks) \in AckSets
    BY DEF Sane, CallType, AckSets
  <1>2. SendAck(x) \in CallType BY <1>1 DEF Sane, CallType, SendAck
  <1> QED BY <1>2 DEF Keeps, Sane, SendAck, CallType, Agreed, ByeInTime, AnsweredIsOver,
             EstablishedIsAnswered, Sides, Incoming

LEMMA SendByeKeeps ==
  ASSUME NEW x, Sane(x), Caused(x) \/ (Incoming(x) /\ (x.acked \/ x.tx = "TERMINATED"))
  PROVE  Keeps(x, SendBye(x))
  <1>1. SendBye(x) \in CallType BY ZenonT(60) DEF Sane, CallType, SendBye, Sends
  <1> QED BY <1>1 DEF Keeps, Sane, SendBye, CallType, Agreed, ByeInTime, AnsweredIsOver,
             EstablishedIsAnswered, Sides, Incoming, Caused

LEMMA HangUpKeeps ==
  ASSUME NEW x, Sane(x), Incoming(x), x.acked \/ x.tx = "TERMINATED"
  PROVE  Keeps(x, HangUp(x))
  <1>1. Keeps(x, SendBye(x)) BY SendByeKeeps
  <1>2. SendBye(x).dialogs \ {x.dialog} \in Ends BY <1>1 DEF Keeps, Sane, CallType, Ends
  <1>3. HangUp(x) \in CallType BY <1>1, <1>2 DEF HangUp, Keeps, Sane, CallType
  <1> QED BY <1>1, <1>3 DEF Keeps, Sane, HangUp, CallType, Agreed, ByeInTime, AnsweredIsOver,
             EstablishedIsAnswered, Sides, Incoming

LEMMA EndOfTxKeeps ==
  ASSUME NEW x, Sane(x)
  PROVE  Keeps(x, [x EXCEPT !.tx = "TERMINATED"])
  <1>1. [x EXCEPT !.tx = "TERMINATED"] \in CallType BY Names DEF Sane, CallType
  <1> QED BY <1>1 DEF Keeps, Sane, CallType, Agreed, ByeInTime, AnsweredIsOver,
             EstablishedIsAnswered, Sides, Incoming

LEMMA TxOverKeeps ==
  ASSUME NEW x, Sane(x)
  PROVE  Keeps(x, TxOver(x))
  <1> DEFINE over == [x EXCEPT !.tx = "TERMINATED"]
  <1>1. Keeps(x, over) BY EndOfTxKeeps
  <1>2. over.tx = "TERMINATED" /\ (x.hangup => Incoming(over))
    BY DEF Sane, CallType, Agreed, Sides, Incoming
  <1>3. TxOver(x) = IF x.hangup /\ x.dialog # None THEN HangUp(over) ELSE over
    BY DEF TxOver
  <1> HIDE DEF over
  <1>4. Incoming(over) => Keeps(over, HangUp(over)) BY <1>1, <1>2, HangUpKeeps DEF Keeps
  <1> QED BY <1>1, <1>2, <1>3, <1>4 DEF Keeps

LEMMA RefuseKeeps ==
  ASSUME NEW x, Sane(x)
  PROVE  Keeps(x, Refuse(x))
  <1>1. CASE x.tx # "PROCEEDING" BY <1>1 DEF Refuse, Keeps
  <1>2. CASE x.tx = "PROCEEDING" /\ ~Sends BY <1>2, TxOverKeeps DEF Refuse
  <1>3. CASE x.tx = "PROCEEDING" /\ Sends
    <2> DEFINE r == [x EXCEPT !.tx = "COMPLETED", !.final = "reject"]
    <2>1. Refuse(x) = r BY <1>3 DEF Refuse
    <2>2. r \in CallType BY ZenonT(60), Names DEF Sane, CallType
    <2>3. Keeps(x, r)
      BY <1>3, <2>2 DEF Keeps, Sane, CallType, Agreed, ByeInTime, AnsweredIsOver,
         EstablishedIsAnswered, Sides, Incoming
    <2> QED BY <2>1, <2>3
  <1> QED BY <1>1, <1>2, <1>3

LEMMA CancelKeeps ==
  ASSUME NEW x, Sane(x)
  PROVE  Keeps(x, Cancel(x))
  <1>1. [x EXCEPT !.is_canceled = TRUE] \in CallType BY DEF Sane, CallType
  <1>2. Cancel(x) \in CallType BY <1>1 DEF Cancel, Sane
  <1> QED BY <1>2 DEF Keeps, Sane, Cancel, CallType, Agreed, ByeInTime, AnsweredIsOver,
             EstablishedIsAnswered, Sides, Incoming

\* terminate() in any status.
LEMMA TerminateKeeps ==
  ASSUME NEW x, Sane(x)
  PROVE  Keeps(x, terminate(x))
  <1>1. CASE x.status \in {"NULL", "INVITE_SENT", "1XX_RECEIVED"}
    <2>1. terminate(x) = _failed(Cancel(x)) BY <1>1 DEF terminate, MustWait
    <2>2. Keeps(x, Cancel(x)) BY CancelKeeps
    <2>3. Keeps(Cancel(x), _failed(Cancel(x))) BY <2>2, FailedKeeps DEF Keeps
    <2> QED BY <2>1, <2>2, <2>3 DEF Keeps
  <1>2. CASE x.status \in {"WAITING_FOR_ANSWER", "ANSWERED"}
    <2>1. terminate(x) = _failed(Refuse(x)) BY <1>2 DEF terminate, MustWait
    <2>2. Keeps(x, Refuse(x)) BY RefuseKeeps
    <2>3. Keeps(Refuse(x), _failed(Refuse(x))) BY <2>2, FailedKeeps DEF Keeps
    <2> QED BY <2>1, <2>2, <2>3 DEF Keeps
  <1>3. CASE MustWait(x)
    <2> DEFINE e == _ended(x)
               w == [e EXCEPT !.hangup = TRUE, !.dialog = x.dialog,
                              !.dialogs = @ \cup ({x.dialog} \ {None})]
    <2>1. Keeps(x, e) BY FailedKeeps
    <2>2. Incoming(e) /\ (x.dialog = None => e.dialog = None)
      BY ZenonT(60), <1>3, <2>1 DEF MustWait, Keeps, Incoming, _ended, _close, Tell, Sane, CallType
    <2>3. terminate(x) = w BY <1>3 DEF terminate, MustWait
    <2> HIDE DEF e
    <2>4. e.dialogs \cup ({x.dialog} \ {None}) \in Ends /\ x.dialog \in End
      BY <2>1 DEF Keeps, Sane, CallType, Ends, End
    <2>5. w \in CallType BY ZenonT(60), <2>1, <2>4 DEF Keeps, Sane, CallType
    <2>6. Agreed(w)
      BY <2>1, <2>2 DEF Keeps, Sane, CallType, Agreed, ByeInTime, AnsweredIsOver,
         EstablishedIsAnswered, Sides, Incoming
    <2>7. w.direction = e.direction /\ w.accepted = e.accepted
      BY <2>1 DEF Keeps, Sane, CallType
    <2> QED BY <2>1, <2>3, <2>5, <2>6, <2>7 DEF Keeps, Sane
  <1>4. CASE x.status \in {"WAITING_FOR_ACK", "CONFIRMED"} /\ ~MustWait(x) /\ x.dialog # None
    <2>1. Caused(x) \/ (Incoming(x) /\ (x.acked \/ x.tx = "TERMINATED"))
      BY <1>4 DEF MustWait, Caused, Sane, Agreed, EstablishedIsAnswered, Sides, Incoming
    <2>2. terminate(x) = _ended(SendBye(x)) BY <1>4 DEF terminate, MustWait
    <2>3. Keeps(x, SendBye(x)) BY <2>1, SendByeKeeps
    <2>4. Keeps(SendBye(x), _ended(SendBye(x))) BY <2>3, FailedKeeps DEF Keeps
    <2> QED BY <2>2, <2>3, <2>4 DEF Keeps
  <1>5. CASE /\ x.status \notin {"NULL", "INVITE_SENT", "1XX_RECEIVED",
                                 "WAITING_FOR_ANSWER", "ANSWERED"}
             /\ ~MustWait(x)
             /\ ~(x.status \in {"WAITING_FOR_ACK", "CONFIRMED"} /\ x.dialog # None)
    <2>1. terminate(x) = x BY <1>5 DEF terminate
    <2> QED BY <2>1 DEF Keeps
  <1> QED BY <1>1, <1>2, <1>3, <1>4, <1>5

\* The way of _acceptAndTerminate, which only a caller goes.
LEMMA AcceptAndTerminateKeeps ==
  ASSUME NEW x, Sane(x), Caused(x), NEW d \in End, NEW contact \in BOOLEAN,
         d \in Dialogs \/ x.dialog # None
  PROVE  Keeps(x, _acceptAndTerminate(x, d, contact))
  <1> DEFINE made == IF x.dialog # None THEN x
                     ELSE IF d \in x.early THEN [x EXCEPT !.dialog = d, !.early = @ \ {d}]
                     ELSE IF contact THEN [x EXCEPT !.dialog = d, !.dialogs = @ \cup {d}]
                     ELSE _failed(x)
             sent == IF made.dialog = None THEN made ELSE SendBye(SendAck(made))
             gone == [sent EXCEPT !.status = "TERMINATED", !.astray = TRUE]
  <1>1. Keeps(x, made)
    <2>1. CASE x.dialog # None BY <2>1 DEF Keeps
    <2>2. CASE x.dialog = None /\ d \in x.early
      <3>1. x.early \ {d} \in Ends /\ d # None
        BY <2>2, DialogAssumption DEF Sane, CallType, Ends
      <3>2. [x EXCEPT !.dialog = d, !.early = @ \ {d}] \in CallType BY <3>1 DEF Sane, CallType
      <3>3. Keeps(x, [x EXCEPT !.dialog = d, !.early = @ \ {d}])
        BY <3>1, <3>2 DEF Keeps, Caused, Sane, CallType, Agreed, ByeInTime, AnsweredIsOver,
           EstablishedIsAnswered, Sides, Incoming
      <3> QED BY <2>2, <3>3
    <2>3. CASE x.dialog = None /\ d \notin x.early /\ contact
      <3>1. x.dialogs \cup {d} \in Ends /\ d # None
        BY <2>3, DialogAssumption DEF Sane, CallType, Ends
      <3>2. [x EXCEPT !.dialog = d, !.dialogs = @ \cup {d}] \in CallType
        BY ZenonT(60), <3>1 DEF Sane, CallType
      <3>3. Keeps(x, [x EXCEPT !.dialog = d, !.dialogs = @ \cup {d}])
        BY <3>1, <3>2 DEF Keeps, Caused, Sane, CallType, Agreed, ByeInTime, AnsweredIsOver,
           EstablishedIsAnswered, Sides, Incoming
      <3> QED BY <2>3, <3>3
    <2>4. CASE x.dialog = None /\ d \notin x.early /\ ~contact
      BY <2>4, FailedKeeps
    <2> QED BY <2>1, <2>2, <2>3, <2>4
  <1>2. _acceptAndTerminate(x, d, contact) = gone BY DEF _acceptAndTerminate
  <1> HIDE DEF made
  <1>3. Keeps(made, SendAck(made)) BY <1>1, SendAckKeeps DEF Keeps
  <1>4. Keeps(SendAck(made), SendBye(SendAck(made)))
    BY <1>1, <1>3, SendByeKeeps DEF Keeps, Caused, Incoming
  <1>5. Keeps(x, sent) BY <1>1, <1>3, <1>4 DEF Keeps
  <1> HIDE DEF sent
  <1>6. gone \in CallType BY ZenonT(60), <1>5, Names DEF Keeps, Sane, CallType
  <1>7. Keeps(x, gone)
    BY <1>5, <1>6 DEF Keeps, Caused, Sane, CallType, Agreed, ByeInTime, AnsweredIsOver,
       EstablishedIsAnswered, Sides, Incoming
  <1> QED BY <1>2, <1>7

LEMMA SendInviteKeeps ==
  ASSUME NEW x, Sane(x), x.direction = "outgoing"
  PROVE  Keeps(x, SendInvite(x))
  <1> DEFINE sent == [x EXCEPT !.status = "INVITE_SENT", !.chain = "none"]
             calls == [sent EXCEPT !.tx = "CALLING"]
  <1>1. SendInvite(x) = IF Sends THEN calls ELSE [terminate(sent) EXCEPT !.tx = "TERMINATED"]
    BY DEF SendInvite
  <1>2. sent \in CallType BY ZenonT(60), Names DEF Sane, CallType
  <1>3. Keeps(x, sent)
    BY <1>2 DEF Keeps, Sane, CallType, Agreed, ByeInTime, AnsweredIsOver,
       EstablishedIsAnswered, Sides, Incoming
  <1> HIDE DEF sent
  <1>4. calls \in CallType BY <1>2, Names DEF CallType
  <1>5. Keeps(x, calls)
    BY <1>3, <1>4 DEF Keeps, Sane, CallType, Agreed, ByeInTime, AnsweredIsOver,
       EstablishedIsAnswered, Sides, Incoming
  <1> HIDE DEF calls
  <1>6. Keeps(sent, terminate(sent)) BY <1>3, TerminateKeeps DEF Keeps
  <1>7. Keeps(terminate(sent), [terminate(sent) EXCEPT !.tx = "TERMINATED"])
    BY <1>6, EndOfTxKeeps DEF Keeps
  <1> QED BY <1>1, <1>3, <1>5, <1>6, <1>7 DEF Keeps
\* The queue of the connection in a session.
LEMMA EnqueueKeeps ==
  ASSUME NEW x, Sane(x), NEW op \in Ops, NEW i \in Offers \cup {0},
         op \in {"reoffer", "reanswer"} => i \in Offers,
         op = "reoffer" => x.offers[i] = "queued" /\ ~Asks(x.queue, i),
         op = "offer" => x.direction = "outgoing" /\ x.accepted # {} /\ x.dialog # None
  PROVE  Keeps(x, [x EXCEPT !.queue = Append(@, Op(op, i))])
  <1> DEFINE q == Append(x.queue, Op(op, i))
             y == [x EXCEPT !.queue = q]
  <1>1. q \in Queues /\ \A o : Holds(q, o) => o = op \/ Holds(x.queue, o)
    BY Added DEF Sane, CallType
  <1>t. Tidy(q, x.offers, x.uac_pending)
    <2>1. x.queue \in Queues /\ Tidy(x.queue, x.offers, x.uac_pending)
      BY DEF Sane, CallType, Agreed
    <2>2. CASE op # "reoffer"
      <3>1. Fewer(q, x.queue) BY <2>1, <2>2, Added
      <3> QED BY <2>1, <3>1, FewerIsTidy
    <2>3. CASE op = "reoffer"
      <3>1. \A j \in Offers : /\ Asks(q, j) => j = i \/ Asks(x.queue, j)
                              /\ j = i \/ Once(x.queue, j) => Once(q, j)
        <4>1. i \in Offers /\ ~Asks(x.queue, i) BY <2>3
        <4>2. ASSUME NEW j \in Offers
              PROVE  (Asks(q, j) => j = i \/ Asks(x.queue, j)) /\ (j = i \/ Once(x.queue, j) => Once(q, j))
          BY <2>1, <2>3, <4>1, AskedOnce
        <4> QED BY <4>2
      <3> HIDE DEF q
      <3> QED BY <2>1, <2>3, <3>1 DEF Tidy
    <2> QED BY <2>2, <2>3
  <1> HIDE DEF q
  <1>2. y \in CallType BY <1>1 DEF Sane, CallType
  <1>3. Keeps(x, y)
    BY <1>1, <1>2, <1>t DEF Keeps, Sane, CallType, Agreed, ByeInTime, AnsweredIsOver,
       EstablishedIsAnswered, Sides, Incoming
  <1> QED BY <1>3 DEF q
LEMMA DeclineKeeps ==
  ASSUME NEW x, Sane(x)
  PROVE  Keeps(x, Decline(x))
  <1> DEFINE r == IF Sends THEN "COMPLETED" ELSE "TERMINATED"
             y == [x EXCEPT !.reinvite = r]
  <1>1. CASE x.reinvite # "PROCEEDING" BY <1>1 DEF Decline, Keeps
  <1>2. CASE x.reinvite = "PROCEEDING"
    <2>1. Decline(x) = y BY <1>2 DEF Decline
    <2>2. r \in ReinviteStates BY Names
    <2> HIDE DEF r
    <2>3. y \in CallType BY <2>2 DEF Sane, CallType
    <2>4. Keeps(x, y)
      BY <1>2, <2>3 DEF Keeps, Sane, CallType, Agreed, ByeInTime, AnsweredIsOver,
         EstablishedIsAnswered, Sides, Incoming
    <2> QED BY <2>1, <2>4
  <1> QED BY <1>1, <1>2
LEMMA EmptiedKeeps ==
  ASSUME NEW x, Sane(x), NEW q \in Queues, \A o : Holds(q, o) => Holds(x.queue, o),
         Fewer(q, x.queue)
  PROVE  Keeps(x, [x EXCEPT !.queue = q])
  <1>1. [x EXCEPT !.queue = q] \in CallType BY DEF Sane, CallType
  <1>2. Tidy(q, x.offers, x.uac_pending) BY FewerIsTidy DEF Sane, Agreed
  <1> QED BY <1>1, <1>2 DEF Keeps, Sane, CallType, Agreed, ByeInTime, AnsweredIsOver,
             EstablishedIsAnswered, Sides, Incoming
LEMMA RejectedKeeps ==
  ASSUME NEW x, Sane(x)
  PROVE  Keeps(x, Rejected(x))
  <1> DEFINE y == IF \E i \in DOMAIN x.queue : x.queue[i].op = "relocal" THEN Decline(x) ELSE x
  <1>1. Keeps(x, y) BY DeclineKeeps DEF Keeps
  <1>2. Rejected(x) = [y EXCEPT !.queue = <<>>] BY DEF Rejected
  <1> HIDE DEF y
  <1>3. Keeps(y, [y EXCEPT !.queue = <<>>])
    BY <1>1, EmptiedKeeps, Constants, Kept DEF Keeps, Sane, CallType
  <1> QED BY <1>1, <1>2, <1>3 DEF Keeps
LEMMA SettledKeeps ==
  ASSUME NEW x, Sane(x), x.queue # <<>>
  PROVE  Keeps(x, Settled(x))
  <1> DEFINE y == [x EXCEPT !.queue = Tail(@)]
  <1>1. x.queue \in Queues BY DEF Sane, CallType
  <1>2. Keeps(x, y) BY <1>1, Taken, EmptiedKeeps
  <1>3. Settled(x) = IF x.connection = "open" THEN y ELSE Rejected(y) BY DEF Settled
  <1> HIDE DEF y
  <1>4. Keeps(y, Rejected(y)) BY <1>2, RejectedKeeps DEF Keeps
  <1> QED BY <1>2, <1>3, <1>4 DEF Keeps
LEMMA CutKeeps ==
  ASSUME NEW x, Sane(x)
  PROVE  Keeps(x, Cut(x))
  <1>1. Keeps(x, Rejected(x)) BY RejectedKeeps
  <1>2. Keeps(Rejected(x), terminate(Rejected(x))) BY <1>1, TerminateKeeps DEF Keeps
  <1> QED BY <1>1, <1>2 DEF Cut, Keeps

\* What the responses of the INVITE do to the session of a caller.
LEMMA DialoguedKeeps ==
  ASSUME NEW x, Sane(x), NEW d \in Dialogs, NEW contact \in BOOLEAN, NEW early \in BOOLEAN,
         early \/ Caused(x)
  PROVE  /\ Keeps(x, Dialogued(x, d, contact, early))
         /\ contact => Dialogued(x, d, contact, early).status = x.status
  <1>1. d # None /\ d \in End /\ x.early \ {d} \in Ends /\ x.early \cup {d} \in Ends
        /\ x.dialogs \cup {d} \in Ends
    BY DialogAssumption DEF Sane, CallType, Ends, End
  <1>2. Keeps(x, x) BY DEF Keeps
  <1>3. ASSUME Caused(x)
        PROVE  LET y == [x EXCEPT !.dialog = d, !.early = @ \ {d}]
               IN  Keeps(x, y) /\ y.status = x.status
    <2> DEFINE y == [x EXCEPT !.dialog = d, !.early = @ \ {d}]
    <2>1. y \in CallType BY <1>1 DEF Sane, CallType
    <2> QED BY <1>1, <1>3, <2>1 DEF Keeps, Caused, Sane, CallType, Agreed, ByeInTime,
               AnsweredIsOver, EstablishedIsAnswered, Sides, Incoming
  <1>4. LET y == [x EXCEPT !.early = @ \cup {d}, !.dialogs = @ \cup {d}]
        IN  Keeps(x, y) /\ y.status = x.status
    <2> DEFINE y == [x EXCEPT !.early = @ \cup {d}, !.dialogs = @ \cup {d}]
    <2>1. y \in CallType BY <1>1 DEF Sane, CallType
    <2> QED BY <1>1, <2>1 DEF Keeps, Sane, CallType, Agreed, ByeInTime,
               AnsweredIsOver, EstablishedIsAnswered, Sides, Incoming
  <1>5. ASSUME Caused(x)
        PROVE  LET y == [x EXCEPT !.dialog = d, !.dialogs = @ \cup {d}]
               IN  Keeps(x, y) /\ y.status = x.status
    <2> DEFINE y == [x EXCEPT !.dialog = d, !.dialogs = @ \cup {d}]
    <2>1. y \in CallType BY ZenonT(60), <1>1 DEF Sane, CallType
    <2> QED BY <1>1, <1>5, <2>1 DEF Keeps, Caused, Sane, CallType, Agreed, ByeInTime,
               AnsweredIsOver, EstablishedIsAnswered, Sides, Incoming
  <1>6. CASE d \in x.early BY <1>2, <1>3, <1>6 DEF Dialogued
  <1>7. CASE d \notin x.early /\ contact BY <1>4, <1>5, <1>7 DEF Dialogued
  <1>8. CASE d \notin x.early /\ ~contact
    <2>1. Dialogued(x, d, contact, early) = _failed(x) BY <1>8 DEF Dialogued
    <2> QED BY <1>8, <2>1, FailedKeeps
  <1> QED BY <1>6, <1>7, <1>8

LEMMA TryingKeeps ==
  ASSUME NEW x, Sane(x), Waiting(x)
  PROVE  Keeps(x, [x EXCEPT !.status = "1XX_RECEIVED"])
  <1>1. [x EXCEPT !.status = "1XX_RECEIVED"] \in CallType BY Names DEF Sane, CallType
  <1> QED BY <1>1 DEF Keeps, Waiting, Sane, CallType, Agreed, ByeInTime, AnsweredIsOver,
             EstablishedIsAnswered, Sides, Incoming
LEMMA RingingKeeps ==
  ASSUME NEW x, Sane(x), NEW d \in End, NEW contact \in BOOLEAN, NEW sdp \in BOOLEAN
  PROVE  Keeps(x, Ringing(x, d, contact, sdp))
  <1> DEFINE made == IF contact THEN Dialogued(x, d, TRUE, TRUE) ELSE x
             rings == [made EXCEPT !.status = "1XX_RECEIVED"]
             plays == [rings EXCEPT !.queue = Append(@, Op("progress", 0))]
  <1>1. CASE d = None \/ ~Waiting(x) BY <1>1 DEF Ringing, Keeps
  <1>2. CASE ~(d = None \/ ~Waiting(x))
    <2>1. Keeps(x, made) /\ Waiting(made)
      <3>1. d \in Dialogs BY <1>2 DEF End
      <3>2. CASE contact
        <4>1. Keeps(x, Dialogued(x, d, TRUE, TRUE)) /\ Dialogued(x, d, TRUE, TRUE).status = x.status
          BY <3>1, DialoguedKeeps
        <4> QED BY <1>2, <3>2, <4>1 DEF Waiting
      <3>3. CASE ~contact BY <1>2, <3>3 DEF Keeps
      <3> QED BY <3>2, <3>3
    <2>2. Ringing(x, d, contact, sdp) = IF sdp THEN plays ELSE rings BY <1>2 DEF Ringing
    <2> HIDE DEF made
    <2>3. Keeps(made, rings) BY <2>1, TryingKeeps DEF Keeps
    <2> HIDE DEF rings
    <2>4. Keeps(rings, plays) BY <2>3, EnqueueKeeps DEF Keeps, Ops
    <2> QED BY <2>1, <2>2, <2>3, <2>4 DEF Keeps
  <1> QED BY <1>1, <1>2
LEMMA ProvisionalKeeps ==
  ASSUME NEW x, Sane(x), NEW code, NEW d \in End, NEW contact \in BOOLEAN, NEW sdp \in BOOLEAN
  PROVE  Keeps(x, Provisional(x, code, d, contact, sdp))
  <1>1. Keeps(x, x) BY DEF Keeps
  <1>2. Keeps(x, Trying(x)) BY <1>1, TryingKeeps DEF Trying
  <1>3. Keeps(x, Ringing(x, d, contact, sdp)) BY RingingKeeps
  <1> QED BY <1>1, <1>2, <1>3 DEF Provisional, Sane, CallType
LEMMA RefusedKeeps ==
  ASSUME NEW x, Sane(x)
  PROVE  Keeps(x, Refused(x))
  BY FailedKeeps DEF Refused, Keeps
LEMMA AgainKeeps ==
  ASSUME NEW x, Sane(x), Caused(x), NEW d \in Dialogs, NEW contact \in BOOLEAN
  PROVE  Keeps(x, Again(x, d, contact))
  <1> DEFINE y == [x EXCEPT !.dialogs = @ \cup {d}, !.forks = @ \cup {d}]
  <1>1. x.dialogs \cup {d} \in Ends /\ x.forks \cup {d} \in Ends BY DEF Sane, CallType, Ends
  <1>2. y \in CallType BY <1>1 DEF Sane, CallType
  <1>3. Keeps(x, y) BY <1>2 DEF Keeps, Sane, CallType, Agreed, ByeInTime, AnsweredIsOver,
             EstablishedIsAnswered, Sides, Incoming
  <1>4. Again(x, d, contact) = IF d = x.dialog THEN SendAck(x)
                               ELSE IF ~contact THEN x ELSE SendBye(SendAck(y))
    BY DEF Again
  <1> HIDE DEF y
  <1>5. Keeps(y, SendAck(y)) BY <1>3, SendAckKeeps DEF Keeps
  <1>6. Keeps(SendAck(y), SendBye(SendAck(y)))
    BY <1>3, <1>5, SendByeKeeps DEF Keeps, Caused, Incoming
  <1>7. Keeps(x, SendAck(x)) /\ Keeps(x, x) BY SendAckKeeps DEF Keeps
  <1>8. Keeps(x, SendBye(SendAck(y))) BY <1>3, <1>5, <1>6 DEF Keeps
  <1> QED BY <1>4, <1>7, <1>8
LEMMA AcceptedKeeps ==
  ASSUME NEW x, Sane(x), x.direction = "outgoing", x.accepted # {}, NEW d \in Dialogs,
         NEW contact \in BOOLEAN, NEW sdp \in BOOLEAN
  PROVE  Keeps(x, Accepted(x, d, contact, sdp))
  <1> DEFINE confirmed == [x EXCEPT !.status = "CONFIRMED"]
             made == Dialogued(confirmed, d, contact, FALSE)
             asks == [made EXCEPT !.queue = Append(@, Op("offer", 0))]
  <1>0. Caused(x) /\ d \in End BY DEF Caused, Incoming, End
  <1>1. confirmed \in CallType BY Names DEF Sane, CallType
  <1>2. Keeps(x, confirmed)
    BY <1>1 DEF Keeps, Sane, CallType, Agreed, ByeInTime, AnsweredIsOver,
             EstablishedIsAnswered, Sides, Incoming
  <1>3. CASE x.dialog # None
    <2>1. Accepted(x, d, contact, sdp) = Again(x, d, contact) BY <1>3 DEF Accepted
    <2> QED BY <1>0, <2>1, AgainKeeps
  <1>4. CASE x.dialog = None /\ x.is_canceled
    <2>1. Accepted(x, d, contact, sdp) = _acceptAndTerminate(x, d, contact)
      BY <1>4 DEF Accepted
    <2> QED BY <1>0, <2>1, AcceptAndTerminateKeeps
  <1>5. CASE x.dialog = None /\ ~x.is_canceled /\ ~Waiting(x)
    <2>1. Accepted(x, d, contact, sdp) = x BY <1>5 DEF Accepted
    <2> QED BY <2>1 DEF Keeps
  <1>6. CASE x.dialog = None /\ ~x.is_canceled /\ Waiting(x) /\ ~sdp
    <2>1. Accepted(x, d, contact, sdp) = _failed(_acceptAndTerminate(confirmed, d, contact))
      BY <1>6 DEF Accepted
    <2> HIDE DEF confirmed
    <2>2. Caused(confirmed) BY <1>0, <1>2 DEF Caused, Keeps, Incoming
    <2>3. Keeps(confirmed, _acceptAndTerminate(confirmed, d, contact))
      BY <1>0, <1>2, <2>2, AcceptAndTerminateKeeps DEF Keeps
    <2>4. Keeps(_acceptAndTerminate(confirmed, d, contact),
                _failed(_acceptAndTerminate(confirmed, d, contact)))
      BY <2>3, FailedKeeps DEF Keeps
    <2> QED BY <1>2, <2>1, <2>3, <2>4 DEF Keeps
  <1>7. CASE x.dialog = None /\ ~x.is_canceled /\ Waiting(x) /\ sdp
    <2>1. Accepted(x, d, contact, sdp) = IF made.dialog = None THEN made ELSE asks
      BY <1>7 DEF Accepted
    <2> HIDE DEF confirmed
    <2>2. Caused(confirmed) BY <1>0, <1>2 DEF Caused, Keeps, Incoming
    <2>3. Keeps(confirmed, made) BY <1>2, <2>2, DialoguedKeeps DEF Keeps
    <2>4. made.direction = "outgoing" /\ made.accepted # {} BY <1>2, <2>3 DEF Keeps
    <2> HIDE DEF made
    <2>5. made.dialog # None => Keeps(made, asks)
      BY <2>3, <2>4, EnqueueKeeps DEF Keeps, Ops
    <2> QED BY <1>2, <2>1, <2>3, <2>5 DEF Keeps
  <1> QED BY <1>3, <1>4, <1>5, <1>6, <1>7 DEF Sane, CallType
\* The operators of a callee.
LEMMA RunSessionTimerKeeps ==
  ASSUME NEW x, Sane(x)
  PROVE  Keeps(x, RunSessionTimer(x))
  <1>1. RunSessionTimer(x) \in CallType BY DEF RunSessionTimer, Sane, CallType
  <1> QED BY <1>1 DEF Keeps, Sane, RunSessionTimer, CallType, Agreed, ByeInTime,
             AnsweredIsOver, EstablishedIsAnswered, Sides, Incoming
LEMMA DroppedKeeps ==
  ASSUME NEW x, Sane(x)
  PROVE  Keeps(x, Dropped(x))
  <1>1. Dropped(x) \in CallType BY Names DEF Dropped, Sane, CallType
  <1> QED BY <1>1 DEF Keeps, Sane, Dropped, CallType, Agreed, ByeInTime,
             AnsweredIsOver, EstablishedIsAnswered, Sides, Incoming
LEMMA SendAnswerKeeps ==
  ASSUME NEW x, Sane(x), Incoming(x), x.chain = "local"
  PROVE  Keeps(x, SendAnswer(x))
  <1> DEFINE replied == [x EXCEPT !.chain = "none", !.tx = "ACCEPTED"]
             t == x.timers \cup {"2xx", "ack"}
             sent == [replied EXCEPT !.final = "2xx", !.status = "WAITING_FOR_ACK", !.timers = t]
  <1>1. CASE x.tx # "PROCEEDING"
    <2>1. SendAnswer(x) = Dropped(x) BY <1>1 DEF SendAnswer, Dropped
    <2> QED BY <2>1, DroppedKeeps
  <1>2. CASE x.tx = "PROCEEDING"
    <2>1. SendAnswer(x) = IF ~Sends THEN _failed(TxOver(replied)) ELSE Tell(sent, "accepted")
      BY <1>2 DEF SendAnswer, Sane, CallType
    <2>2. replied \in CallType BY Names DEF Sane, CallType
    <2>3. Keeps(x, replied)
      BY <1>2, <2>2 DEF Keeps, Sane, CallType, Agreed, ByeInTime, AnsweredIsOver,
         EstablishedIsAnswered, Sides, Incoming
    <2>4. t \in TimerSets BY DEF Sane, CallType, TimerSets
    <2>5. Keeps(x, sent)
      <3>1. "noAnswer" \notin t BY DEF Sane, CallType, Agreed, Sides
      <3> HIDE DEF t
      <3>2. sent \in CallType BY ZenonT(60), <2>2, <2>4, Names DEF CallType
      <3> QED BY <1>2, <3>1, <3>2 DEF Keeps, Sane, CallType, Agreed, ByeInTime,
                 AnsweredIsOver, EstablishedIsAnswered, Sides, Incoming
    <2> HIDE DEF sent, replied
    <2>6. Keeps(replied, TxOver(replied)) BY <2>3, TxOverKeeps DEF Keeps
    <2>7. Keeps(TxOver(replied), _failed(TxOver(replied))) BY <2>6, FailedKeeps DEF Keeps
    <2>8. Keeps(sent, Tell(sent, "accepted")) BY <2>5, TellKeeps DEF Keeps, Events
    <2> QED BY <2>1, <2>3, <2>5, <2>6, <2>7, <2>8 DEF Keeps
  <1> QED BY <1>1, <1>2
LEMMA ConfirmedKeeps ==
  ASSUME NEW x, Sane(x)
  PROVE  Keeps(x, Confirmed(x))
  <1> DEFINE y == [x EXCEPT !.is_confirmed = TRUE]
  <1>1. y \in CallType BY DEF Sane, CallType
  <1>2. Keeps(x, y) BY <1>1 DEF Keeps, Sane, CallType, Agreed, ByeInTime,
             AnsweredIsOver, EstablishedIsAnswered, Sides, Incoming
  <1>3. Confirmed(x) = IF x.is_confirmed THEN x ELSE Tell(y, "confirmed") BY DEF Confirmed
  <1> HIDE DEF y
  <1>4. Keeps(y, Tell(y, "confirmed")) BY <1>2, TellKeeps DEF Keeps, Events
  <1> QED BY <1>2, <1>3, <1>4 DEF Keeps
LEMMA AckKeeps ==
  ASSUME NEW x, Sane(x), x.acked, NEW sdp \in BOOLEAN
  PROVE  Keeps(x, Ack(x, sdp))
  <1> DEFINE t == x.timers \ {"ack", "2xx"}
             heard == [x EXCEPT !.status = "CONFIRMED", !.timers = t]
             asks == [heard EXCEPT !.queue = Append(@, Op("ack", 0))]
  <1>1. CASE x.hangup
    <2>1. Ack(x, sdp) = HangUp(x) BY <1>1 DEF Ack
    <2>2. Incoming(x) BY <1>1 DEF Sane, Agreed, Sides
    <2> QED BY <2>1, <2>2, HangUpKeeps
  <1>2. CASE ~x.hangup /\ x.status # "WAITING_FOR_ACK"
    <2>1. Ack(x, sdp) = x BY <1>2 DEF Ack
    <2> QED BY <2>1 DEF Keeps
  <1>3. CASE ~x.hangup /\ x.status = "WAITING_FOR_ACK"
    <2>1. Ack(x, sdp) = IF ~x.late_sdp THEN Confirmed(heard)
                        ELSE IF sdp THEN asks ELSE terminate(heard)
      BY <1>3 DEF Ack
    <2>2. t \in TimerSets /\ "noAnswer" \notin t
      BY <1>3 DEF Sane, CallType, TimerSets, Agreed, Sides
    <2> HIDE DEF t
    <2>3. heard \in CallType BY ZenonT(60), <2>2, Names DEF Sane, CallType
    <2>4. Keeps(x, heard)
      BY <1>3, <2>2, <2>3 DEF Keeps, Sane, CallType, Agreed, ByeInTime, AnsweredIsOver,
         EstablishedIsAnswered, Sides, Incoming
    <2> HIDE DEF heard
    <2>5. Keeps(heard, Confirmed(heard)) /\ Keeps(heard, terminate(heard))
      BY <2>4, ConfirmedKeeps, TerminateKeeps DEF Keeps
    <2>6. Keeps(heard, asks) BY SMTT(30), <2>4, EnqueueKeeps DEF Keeps, Ops
    <2> QED BY <2>1, <2>4, <2>5, <2>6 DEF Keeps
  <1> QED BY <1>1, <1>2, <1>3 DEF Sane, CallType
LEMMA ByeKeeps ==
  ASSUME NEW x, Sane(x)
  PROVE  Keeps(x, Bye(x))
  <1>1. Keeps(x, x) /\ Keeps(x, _ended(x)) /\ Keeps(x, Refuse(x))
    BY FailedKeeps, RefuseKeeps DEF Keeps
  <1>2. Keeps(Refuse(x), _ended(Refuse(x))) BY <1>1, FailedKeeps DEF Keeps
  <1>3. Keeps(x, _ended(Refuse(x))) BY <1>1, <1>2 DEF Keeps
  <1>4. Bye(x) \in {x, _ended(x), _ended(Refuse(x))} BY DEF Bye
  <1> QED BY <1>1, <1>3, <1>4
LEMMA FailedRefuseKeeps ==
  ASSUME NEW x, Sane(x)
  PROVE  Keeps(x, _failed(Refuse(x)))
  <1>1. Keeps(x, Refuse(x)) BY RefuseKeeps
  <1>2. Keeps(Refuse(x), _failed(Refuse(x))) BY <1>1, FailedKeeps DEF Keeps
  <1> QED BY <1>1, <1>2 DEF Keeps

\* The operators of a change of the call.
LEMMA AcceptKeeps ==
  ASSUME NEW x, Sane(x)
  PROVE  Keeps(x, Accept(x))
  <1> DEFINE y(r) == [x EXCEPT !.reinvite = r]
             t == x.timers \cup {"2xx", "ack"}
             waits == [x EXCEPT !.reinvite = "ACCEPTED", !.status = "WAITING_FOR_ACK",
                                !.astray = @ \/ Over(x), !.timers = t]
  <1>1. CASE ~uas_pending(x)
    <2>1. Accept(x) = x BY <1>1 DEF Accept
    <2> QED BY <2>1 DEF Keeps
  <1>2. ASSUME uas_pending(x), NEW r \in ReinviteStates, r # "none"
        PROVE  Keeps(x, y(r))
    <2>1. y(r) \in CallType BY DEF Sane, CallType
    <2> QED BY <1>2, <2>1 DEF uas_pending, Keeps, Sane, CallType, Agreed, ByeInTime,
               AnsweredIsOver, EstablishedIsAnswered, Sides, Incoming
  <1>3. CASE uas_pending(x) /\ ~Sends
    <2>1. Accept(x) = y("TERMINATED") BY <1>3 DEF Accept
    <2> QED BY <1>2, <1>3, <2>1, Names
  <1>4. CASE uas_pending(x) /\ Sends /\ x.method = "UPDATE"
    <2>1. Accept(x) = y("COMPLETED") BY <1>4 DEF Accept
    <2> QED BY <1>2, <1>4, <2>1, Names
  <1>5. CASE uas_pending(x) /\ Sends /\ x.method # "UPDATE"
    <2>1. Accept(x) = waits BY <1>5 DEF Accept
    <2>2. t \in TimerSets /\ "noAnswer" \notin t
      BY <1>5 DEF uas_pending, Sane, CallType, TimerSets, Agreed, Sides, AnsweredIsOver,
         EstablishedIsAnswered
    <2> HIDE DEF t
    <2>3. (x.astray \/ Over(x)) \in BOOLEAN OBVIOUS
    <2>4. waits \in CallType BY ZenonT(60), <2>2, <2>3, Names DEF Sane, CallType
    <2>5. Keeps(x, waits)
      BY <1>5, <2>2, <2>4 DEF uas_pending, Keeps, Sane, CallType, Agreed, ByeInTime,
         AnsweredIsOver, EstablishedIsAnswered, Sides, Incoming
    <2> QED BY <2>1, <2>5
  <1> QED BY <1>1, <1>3, <1>4, <1>5
LEMMA BeginKeeps ==
  ASSUME NEW x, Sane(x), Incoming(x) => x.final = "2xx", NEW method \in Methods
  PROVE  Keeps(x, Begin(x, method))
  <1> DEFINE asked == [x EXCEPT !.reinvite = "PROCEEDING", !.method = method]
  <1>1. asked \in CallType BY Names DEF Sane, CallType
  <1>2. Keeps(x, asked)
    BY <1>1 DEF Keeps, Sane, CallType, Agreed, ByeInTime, AnsweredIsOver,
       EstablishedIsAnswered, Sides, Incoming
  <1>3. Begin(x, method) = IF x.uac_pending THEN Decline(asked) ELSE asked BY DEF Begin
  <1> HIDE DEF asked
  <1>4. Keeps(asked, Decline(asked)) BY <1>2, DeclineKeeps DEF Keeps
  <1> QED BY <1>2, <1>3, <1>4 DEF Keeps
LEMMA OfferedKeeps ==
  ASSUME NEW x, Sane(x), NEW sdp \in BOOLEAN, NEW welcome \in BOOLEAN
  PROVE  Keeps(x, Offered(x, sdp, welcome))
  <1> DEFINE y == [x EXCEPT !.late_sdp = ~sdp]
             late == IF x.method = "INVITE" THEN y ELSE x
             local == [late EXCEPT !.queue = Append(@, Op("relocal", 0))]
             remote == [late EXCEPT !.queue = Append(@, Op("roffer", 0))]
  <1>1. y \in CallType BY ZenonT(60) DEF Sane, CallType
  <1>2. Keeps(x, y) BY <1>1 DEF Keeps, Sane, CallType, Agreed, ByeInTime, AnsweredIsOver,
             EstablishedIsAnswered, Sides, Incoming
  <1>3. Keeps(x, late) BY <1>2 DEF Keeps
  <1>4. Offered(x, sdp, welcome) \in {x, Decline(x), local, remote}
    BY DEF Offered, Sane, CallType
  <1> HIDE DEF late
  <1>5. Keeps(late, local) /\ Keeps(late, remote) BY <1>3, EnqueueKeeps DEF Keeps, Ops
  <1>6. Keeps(x, x) /\ Keeps(x, Decline(x)) BY DeclineKeeps DEF Keeps
  <1>7. Keeps(x, local) /\ Keeps(x, remote) BY <1>3, <1>5 DEF Keeps
  <1> HIDE DEF local, remote
  <1> QED BY <1>4, <1>6, <1>7
LEMMA OfferKeeps ==
  ASSUME NEW x, Sane(x), NEW i \in Offers, NEW state \in OfferStates, NEW b \in BOOLEAN,
         ~Asks(x.queue, i),
         b => state \in {"sent", "resent"} \/ (x.uac_pending /\ x.offers[i] \notin {"sent", "resent"})
  PROVE  /\ Keeps(x, [Step(x, i, state) EXCEPT !.uac_pending = b])
         /\ [Step(x, i, state) EXCEPT !.uac_pending = b].queue = x.queue
         /\ [Step(x, i, state) EXCEPT !.uac_pending = b].offers[i] = state
  <1> DEFINE o == [x.offers EXCEPT ![i] = state]
             y == [x EXCEPT !.offers = o, !.uac_pending = b]
  <1>1. o \in OfferTables BY DEF Sane, CallType, OfferTables
  <1>2. [Step(x, i, state) EXCEPT !.uac_pending = b] = y BY DEF Step
  <1>3. o[i] = state /\ \A j \in Offers : j # i => o[j] = x.offers[j]
    BY DEF Sane, CallType, OfferTables
  <1> HIDE DEF o
  <1>4. y \in CallType BY ZenonT(60), <1>1 DEF Sane, CallType
  <1>5. Tidy(x.queue, o, b) BY <1>3 DEF Tidy, Sane, Agreed
  <1>6. Keeps(x, y)
    BY <1>4, <1>5 DEF Keeps, Sane, CallType, Agreed, ByeInTime, AnsweredIsOver,
       EstablishedIsAnswered, Sides, Incoming
  <1>7. y.queue = x.queue /\ y.offers[i] = state BY <1>3 DEF Sane, CallType
  <1> QED BY <1>2, <1>6, <1>7
LEMMA StepKeeps ==
  ASSUME NEW x, Sane(x), NEW i \in Offers, NEW state \in OfferStates,
         ~Asks(x.queue, i), x.offers[i] \notin {"sent", "resent"}
  PROVE  /\ Keeps(x, Step(x, i, state))
         /\ Step(x, i, state).queue = x.queue /\ Step(x, i, state).offers[i] = state
  <1>1. [Step(x, i, state) EXCEPT !.uac_pending = x.uac_pending] = Step(x, i, state)
    BY DEF Step, Sane, CallType
  <1>2. x.uac_pending \in BOOLEAN BY DEF Sane, CallType
  <1> QED BY <1>1, <1>2, OfferKeeps
LEMMA FinalKeeps ==
  ASSUME NEW x, Sane(x), NEW i \in Offers, ~Asks(x.queue, i)
  PROVE  Keeps(x, Final(x, i)) /\ Final(x, i).queue = x.queue /\ Final(x, i).offers[i] = "over"
  <1>1. "over" \in OfferStates BY DEF OfferStates
  <1>2. PICK b \in BOOLEAN : ~b OBVIOUS
  <1>3. /\ Keeps(x, [Step(x, i, "over") EXCEPT !.uac_pending = b])
        /\ [Step(x, i, "over") EXCEPT !.uac_pending = b].queue = x.queue
        /\ [Step(x, i, "over") EXCEPT !.uac_pending = b].offers[i] = "over"
    BY <1>1, <1>2, OfferKeeps
  <1>4. Final(x, i) = [Step(x, i, "over") EXCEPT !.uac_pending = b] BY <1>2 DEF Final
  <1> QED BY <1>3, <1>4
LEMMA SendOfferKeeps ==
  ASSUME NEW x, Sane(x), NEW i \in Offers, NEW state \in {"sent", "resent"}, NEW unsent,
         Keeps(x, unsent), ~Asks(x.queue, i)
  PROVE  Keeps(x, SendOffer(x, i, state, unsent))
  <1>1. state \in OfferStates /\ TRUE \in BOOLEAN BY DEF OfferStates
  <1>2. Keeps(x, [Step(x, i, state) EXCEPT !.uac_pending = TRUE]) BY <1>1, OfferKeeps
  <1> QED BY <1>2 DEF SendOffer
\* An offer that was sent, or has not been made, is not in the queue.
LEMMA NotAsked ==
  ASSUME NEW x, Sane(x), NEW i \in Offers, x.offers[i] # "queued"
  PROVE  ~Asks(x.queue, i)
  BY DEF Sane, Agreed, Tidy
LEMMA AbandonedKeeps ==
  ASSUME NEW x, Sane(x), x.offers = session.offers
  PROVE  Keeps(x, Abandoned(x))
  <1> DEFINE o == [i \in Offers |-> IF Sent(i) THEN "over" ELSE x.offers[i]]
             r == IF x.reinvite = "none" THEN x.reinvite ELSE "TERMINATED"
             f == FALSE
             y == [x EXCEPT !.update = f, !.uac_pending = f, !.offers = o, !.reinvite = r]
  <1>1. o \in OfferTables BY DEF Sane, CallType, OfferTables, OfferStates
  <1>t. Tidy(x.queue, o, f)
    <2>1. ASSUME NEW i \in Offers, Asks(x.queue, i) PROVE o[i] = "queued" /\ Once(x.queue, i)
      <3>1. x.offers[i] = "queued" /\ Once(x.queue, i) BY <2>1 DEF Tidy, Sane, Agreed
      <3> QED BY <3>1 DEF Sent
    <2> HIDE DEF o
    <2> QED BY <2>1 DEF Tidy
  <1>2. r \in ReinviteStates /\ (r # "none" => x.reinvite # "none")
    BY Names DEF Sane, CallType
  <1>3. Abandoned(x) = y BY DEF Abandoned
  <1>f. f \in BOOLEAN OBVIOUS
  <1> HIDE DEF o, r, f
  <1>4. y \in CallType BY ZenonT(60), <1>1, <1>2, <1>f DEF Sane, CallType
  <1>5. Keeps(x, y)
    BY <1>2, <1>4, <1>t DEF Keeps, Sane, CallType, Agreed, ByeInTime, AnsweredIsOver,
       EstablishedIsAnswered, Sides, Incoming
  <1> QED BY <1>3, <1>5
(***************************************************************************)
(* The steps. Before its first step a session is as the user agent makes it. *)
(***************************************************************************)
Blank(x) ==
  /\ x.direction = "none" /\ x.status = "NULL" /\ x.chain = "none" /\ x.queue = <<>>
  /\ x.connection = "none" /\ ~x.answering /\ x.dialog = None /\ x.early = {}
  /\ ~x.is_canceled /\ x.timers = {} /\ ~x.hangup /\ x.tx = "none" /\ ~x.sessions
  /\ x.dialogs = {} /\ x.reinvite = "none" /\ x.offers = [i \in Offers |-> "none"]
  /\ ~x.uac_pending /\ x.session_timer = "none" /\ ~x.update /\ x.told = <<>>
  /\ x.final = "none" /\ ~x.bye /\ ~x.acked /\ x.accepted = {} /\ x.forks = {}
  /\ ~x.astray
Fresh == session.direction = "none" => Blank(session)
CallInv == Sane(session) /\ Fresh
\* What a step of a call under way does.
Goes == Sane(session') /\ session'.direction = session.direction

LEMMA InitIsSane == Init => CallInv
  <1> SUFFICES ASSUME Init PROVE CallInv OBVIOUS
  <1>1. PICK ends \in {{Caller}, Dialogs}, role \in Roles :
          session = [Unused EXCEPT !.ends = ends, !.role = role]
    BY DEF Init
  <1>2. ends \in Ends /\ role \in Refreshers BY Constants DEF Ends, Refreshers
  <1>3. [i \in Offers |-> "none"] \in OfferTables BY DEF OfferTables, OfferStates
  <1>4. Unused \in CallType
    BY <1>3, Constants, Names DEF Unused, CallType, Directions, Connections
  <1>5. session \in CallType BY ZenonT(60), <1>1, <1>2, <1>4 DEF CallType
  <1>6. Blank(session) BY <1>1 DEF Unused, Blank
  <1>7. /\ \A o : ~Holds(session.queue, o)
        /\ Tidy(session.queue, session.offers, session.uac_pending)
    BY <1>6, Nothing DEF Blank, Tidy
  <1>8. Agreed(session)
    BY <1>6, <1>7 DEF Blank, Agreed, ByeInTime, AnsweredIsOver, EstablishedIsAnswered,
       Sides, Incoming
  <1> QED BY <1>5, <1>6, <1>8 DEF CallInv, Fresh, Sane

LEMMA TerminateGoes == CallInv /\ Terminate => Goes
  BY TerminateKeeps DEF CallInv, Terminate, Goes, Keeps

\* The end of the session, or of its transaction, leaves the changes of the media.
LEMMA OffersStay ==
  ASSUME NEW x, x \in CallType
  PROVE  terminate(x).offers = x.offers /\ TxOver(x).offers = x.offers
  <1>1. ASSUME NEW y, "offers" \in DOMAIN y
        PROVE  /\ "offers" \in DOMAIN TxOver(y) /\ TxOver(y).offers = y.offers
               /\ "offers" \in DOMAIN _failed(y) /\ _failed(y).offers = y.offers
               /\ "offers" \in DOMAIN _ended(y) /\ _ended(y).offers = y.offers
    BY <1>1 DEF TxOver, HangUp, SendBye, _failed, _ended, _close, Tell
  <1>2. ASSUME NEW y, "offers" \in DOMAIN y
        PROVE  /\ "offers" \in DOMAIN Refuse(y) /\ Refuse(y).offers = y.offers
               /\ "offers" \in DOMAIN Cancel(y) /\ Cancel(y).offers = y.offers
               /\ "offers" \in DOMAIN SendBye(y) /\ SendBye(y).offers = y.offers
    BY <1>1, <1>2 DEF Refuse, Cancel, SendBye
  <1>3. "offers" \in DOMAIN x BY DEF CallType
  <1>4. /\ _failed(Cancel(x)).offers = x.offers /\ _failed(Refuse(x)).offers = x.offers
        /\ _ended(SendBye(x)).offers = x.offers
    BY <1>1, <1>2, <1>3
  <1>5. [_ended(x) EXCEPT !.hangup = TRUE, !.dialog = x.dialog,
                          !.dialogs = @ \cup ({x.dialog} \ {None})].offers = x.offers
    BY <1>1, <1>3
  <1>6. terminate(x).offers = x.offers
    <2>1. CASE x.status \in {"NULL", "INVITE_SENT", "1XX_RECEIVED"}
      BY <1>4, <2>1 DEF terminate, MustWait
    <2>2. CASE x.status \in {"WAITING_FOR_ANSWER", "ANSWERED"}
      BY <1>4, <2>2 DEF terminate, MustWait
    <2>3. CASE MustWait(x) BY <1>5, <2>3 DEF terminate, MustWait
    <2>4. CASE x.status \in {"WAITING_FOR_ACK", "CONFIRMED"} /\ ~MustWait(x)
      BY <1>4, <2>4 DEF terminate, MustWait
    <2>5. CASE x.status \notin {"NULL", "INVITE_SENT", "1XX_RECEIVED", "WAITING_FOR_ANSWER",
                                "ANSWERED", "WAITING_FOR_ACK", "CONFIRMED"}
      BY <2>5 DEF terminate, MustWait
    <2> QED BY <2>1, <2>2, <2>3, <2>4, <2>5
  <1> QED BY <1>1, <1>3, <1>6

LEMMA DisconnectGoes == CallInv /\ onTransportDisconnect => Goes
  <1> SUFFICES ASSUME Sane(session), onTransportDisconnect PROVE Goes BY DEF CallInv
  <1> DEFINE ends == IF Unanswered(session) THEN terminate(session) ELSE session
             over == IF session.tx \in {"none", "TERMINATED"} THEN ends ELSE TxOver(ends)
  <1>1. session' = Abandoned(over) BY DEF onTransportDisconnect
  <1>2. Keeps(session, ends) BY TerminateKeeps DEF Keeps
  <1> HIDE DEF ends
  <1>3. Keeps(ends, TxOver(ends)) BY <1>2, TxOverKeeps DEF Keeps
  <1>4. Keeps(session, over) BY <1>2, <1>3 DEF Keeps
  <1> HIDE DEF over
  <1>5. over.offers = session.offers
    BY <1>2, OffersStay DEF Keeps, Sane, ends, over
  <1>6. Keeps(over, Abandoned(over)) BY <1>4, <1>5, AbandonedKeeps DEF Keeps
  <1> QED BY <1>1, <1>4, <1>6 DEF Keeps, Goes

LEMMA ConnectStarts == CallInv /\ connect => Sane(session') /\ session'.direction # "none"
  <1> SUFFICES ASSUME CallInv, connect PROVE Sane(session') /\ session'.direction # "none"
    OBVIOUS
  <1> DEFINE y == [session EXCEPT !.direction = "outgoing", !.connection = "open",
                                  !.chain = "media", !.sessions = TRUE]
  <1>1. session' = Tell(y, "new") /\ Sane(session) /\ Blank(session)
    BY DEF connect, CallInv, Fresh
  <1>2. y \in CallType BY ZenonT(60), <1>1, Names DEF Sane, CallType, Directions, Connections
  <1>3. \A o : ~Holds(session.queue, o) BY <1>1, Nothing DEF Blank
  <1>4. Agreed(y)
    BY <1>1, <1>3 DEF Sane, CallType, Blank, Agreed, ByeInTime, AnsweredIsOver,
       EstablishedIsAnswered, Sides, Incoming
  <1>5. y.direction = "outgoing" BY <1>1 DEF Sane, CallType
  <1> HIDE DEF y
  <1> QED BY <1>1, <1>2, <1>4, <1>5, TellKeeps DEF Sane, Keeps, Events

LEMMA IncomingStarts ==
  CallInv /\ init_incoming => Sane(session') /\ session'.direction # "none"
  <1> SUFFICES ASSUME CallInv, init_incoming PROVE Sane(session') /\ session'.direction # "none"
    OBVIOUS
  <1> DEFINE asked == [session EXCEPT !.direction = "incoming", !.tx = "PROCEEDING"]
             rings(sdp, t) ==
               [asked EXCEPT !.status = "WAITING_FOR_ANSWER", !.early = {Caller},
                             !.dialogs = {Caller}, !.late_sdp = ~sdp, !.sessions = TRUE,
                             !.timers = t]
             t(expires) == IF expires THEN {"noAnswer", "expires"} ELSE {"noAnswer"}
  <1>1. Sane(session) /\ Blank(session) BY DEF init_incoming, CallInv, Fresh
  <1>2. \A o : ~Holds(session.queue, o) BY <1>1, Nothing DEF Blank
  <1>3. asked \in CallType BY <1>1, Names DEF Sane, CallType, Directions
  <1>4. Agreed(asked) /\ asked.direction = "incoming" /\ asked.chain = "none"
    BY <1>1, <1>2 DEF Sane, CallType, Blank, Agreed, ByeInTime, AnsweredIsOver,
       EstablishedIsAnswered, Sides, Incoming
  <1>5. ~asked.bye /\ asked.final = "none" /\ asked.reinvite = "none" /\ asked.dialog = None
    BY <1>1 DEF Blank, Sane, CallType
  <1>6. \/ session' = Refuse(asked)
        \/ session' = Refuse(_failed(asked))
        \/ \E sdp, expires \in BOOLEAN :
             session' \in {terminate(Arrives(asked, sdp, expires)),
                           Arrives(asked, sdp, expires), TxOver(Arrives(asked, sdp, expires))}
    BY DEF init_incoming
  <1> HIDE DEF asked
  <1>7. Keeps(asked, Refuse(asked)) /\ Keeps(asked, _failed(asked))
    BY <1>3, <1>4, RefuseKeeps, FailedKeeps DEF Sane
  <1>8. Keeps(_failed(asked), Refuse(_failed(asked))) BY <1>7, RefuseKeeps DEF Keeps
  <1>9. ASSUME NEW sdp \in BOOLEAN, NEW expires \in BOOLEAN
        PROVE  /\ Keeps(asked, Arrives(asked, sdp, expires))
               /\ Keeps(asked, terminate(Arrives(asked, sdp, expires)))
               /\ Keeps(asked, TxOver(Arrives(asked, sdp, expires)))
    <2> DEFINE u == t(expires)
               a == [asked EXCEPT !.status = "WAITING_FOR_ANSWER", !.early = {Caller},
                                  !.dialogs = {Caller}]
               b == [a EXCEPT !.late_sdp = ~sdp, !.sessions = TRUE, !.timers = u]
    <2>1. u \in TimerSets BY DEF TimerSets
    <2>2. Arrives(asked, sdp, expires) = Tell(b, "new") BY DEF Arrives
    <2> HIDE DEF u
    <2>3. a \in CallType BY <1>3, Constants, Names DEF CallType
    <2>4. b \in CallType
      <3> HIDE DEF a
      <3> QED BY ZenonT(60), <2>1, <2>3 DEF CallType
    <2>5. Keeps(asked, b)
      BY <2>4, <1>3, <1>4, <1>5 DEF Keeps, Sane, CallType, Agreed, ByeInTime, AnsweredIsOver,
         EstablishedIsAnswered, Sides, Incoming
    <2> HIDE DEF b
    <2>6. Keeps(b, Tell(b, "new")) BY <2>5, TellKeeps DEF Keeps, Events
    <2>7. Keeps(asked, Arrives(asked, sdp, expires)) BY <2>2, <2>5, <2>6 DEF Keeps
    <2> QED BY <2>7, TerminateKeeps, TxOverKeeps DEF Keeps
  <1> QED BY <1>4, <1>6, <1>7, <1>8, <1>9 DEF Keeps

LEMMA answerGoes == CallInv /\ answer => Goes
  <1> SUFFICES ASSUME Sane(session), answer PROVE Goes BY DEF CallInv
  <1> DEFINE e == session.early \ {Caller}
             t == session.timers \ {"noAnswer"}
             a == [session EXCEPT !.status = "ANSWERED", !.dialog = Caller, !.early = e]
             b == [a EXCEPT !.timers = t, !.connection = "open", !.chain = "media"]
  <1>1. session.status = "WAITING_FOR_ANSWER" BY DEF answer
  <1>2. session' = b BY DEF answer, Sane, CallType
  <1>3. e \in Ends /\ t \in TimerSets /\ "noAnswer" \notin t /\ "open" \in Connections
        /\ Caller # None
    BY DialogAssumption DEF Sane, CallType, Ends, TimerSets, Connections
  <1> HIDE DEF e, t
  <1>4. a \in CallType BY <1>3, Constants, Names DEF Sane, CallType
  <1>5. b \in CallType BY ZenonT(60), <1>3, <1>4, Names DEF CallType
  <1>6. Keeps(session, b)
    BY <1>1, <1>3, <1>5 DEF Keeps, Sane, CallType, Agreed, ByeInTime, AnsweredIsOver,
         EstablishedIsAnswered, Sides, Incoming
  <1> HIDE DEF b
  <1> QED BY <1>2, <1>6 DEF Keeps, Goes

LEMMA ResponsesGo ==
  CallInv /\ (ReceiveProvisional \/ ReceiveAccepted \/ ReceiveRefused) => Goes
  <1> SUFFICES ASSUME Sane(session),
                      ReceiveProvisional \/ ReceiveAccepted \/ ReceiveRefused
               PROVE  Goes
    BY DEF CallInv
  <1>0. session.ends \subseteq Dialogs /\ session.ends \cup {None} \subseteq End
    BY DEF Sane, CallType, Ends, End
  <1>1. ASSUME NEW state \in TxStates, session.direction = "outgoing"
        PROVE  Keeps(session, [session EXCEPT !.tx = state])
    <2>1. [session EXCEPT !.tx = state] \in CallType BY DEF Sane, CallType
    <2> QED BY <1>1, <2>1 DEF Keeps, Sane, CallType, Agreed, ByeInTime, AnsweredIsOver,
         EstablishedIsAnswered, Sides, Incoming
  <1>2. CASE ReceiveProvisional
    <2>1. PICK code \in {"100", "1xx"}, d \in End, contact \in BOOLEAN, sdp \in BOOLEAN :
            /\ session.direction = "outgoing"
            /\ session' = Provisional([session EXCEPT !.tx = "PROCEEDING"], code, d, contact, sdp)
      BY <1>0, <1>2 DEF ReceiveProvisional
    <2> DEFINE y == [session EXCEPT !.tx = "PROCEEDING"]
    <2>2. Keeps(session, y) BY <1>1, <2>1, Names
    <2>3. session' = Provisional(y, code, d, contact, sdp) BY <2>1
    <2> HIDE DEF y
    <2>4. Keeps(y, Provisional(y, code, d, contact, sdp)) BY <2>2, ProvisionalKeeps DEF Keeps
    <2> QED BY <2>2, <2>3, <2>4 DEF Keeps, Goes
  <1>3. CASE ReceiveAccepted
    <2>1. PICK d \in Dialogs, contact \in BOOLEAN, sdp \in BOOLEAN :
            /\ session.direction = "outgoing"
            /\ session' = Accepted([session EXCEPT !.tx = "ACCEPTED", !.accepted = @ \cup {d}],
                                   d, contact, sdp)
      BY <1>0, <1>3 DEF ReceiveAccepted
    <2> DEFINE s == session.accepted \cup {d}
               y == [session EXCEPT !.tx = "ACCEPTED", !.accepted = s]
    <2>2. s \in Ends /\ s # {} BY DEF Sane, CallType, Ends
    <2> HIDE DEF s
    <2>3. y \in CallType BY <2>2, Names DEF Sane, CallType
    <2>4. Sane(y) /\ y.direction = "outgoing" /\ y.accepted # {}
      BY <2>1, <2>2, <2>3 DEF Sane, CallType, Agreed, ByeInTime, AnsweredIsOver,
         EstablishedIsAnswered, Sides, Incoming
    <2>5. session' = Accepted(y, d, contact, sdp) BY <2>1 DEF s
    <2> HIDE DEF y
    <2>6. Keeps(y, Accepted(y, d, contact, sdp)) BY <2>4, AcceptedKeeps
    <2> QED BY <2>1, <2>4, <2>5, <2>6 DEF Keeps, Goes
  <1>4. CASE ReceiveRefused
    <2>1. /\ session.direction = "outgoing"
          /\ session' = Refused([session EXCEPT !.tx = "COMPLETED"])
      BY <1>4 DEF ReceiveRefused
    <2>2. Keeps(session, [session EXCEPT !.tx = "COMPLETED"]) BY <1>1, <2>1, Names
    <2> QED BY <2>1, <2>2, RefusedKeeps DEF Keeps, Goes
  <1> QED BY <1>2, <1>3, <1>4

LEMMA RequestsGo ==
  CallInv /\ (ReceiveCancel \/ ReceiveAck \/ ReceiveBye) => Goes
  <1> SUFFICES ASSUME Sane(session), ReceiveCancel \/ ReceiveAck \/ ReceiveBye
               PROVE  Goes
    BY DEF CallInv
  <1>1. CASE ReceiveCancel
    <2>1. session' \in {session, _failed(Refuse(session))} BY <1>1 DEF ReceiveCancel
    <2> QED BY <2>1, FailedRefuseKeeps DEF Keeps, Goes
  <1>2. CASE ReceiveAck
    <2> DEFINE y == [session EXCEPT !.acked = TRUE]
    <2>1. PICK sdp \in BOOLEAN : session' = Ack(y, sdp) BY <1>2 DEF ReceiveAck
    <2>2. y \in CallType BY DEF Sane, CallType
    <2>3. Keeps(session, y) /\ y.acked
      BY <2>2 DEF Keeps, Sane, CallType, Agreed, ByeInTime, AnsweredIsOver,
         EstablishedIsAnswered, Sides, Incoming
    <2> HIDE DEF y
    <2>4. Keeps(y, Ack(y, sdp)) BY <2>3, AckKeeps DEF Keeps
    <2> QED BY <2>1, <2>3, <2>4 DEF Keeps, Goes
  <1>3. CASE ReceiveBye
    <2>1. session' = Bye(session) BY <1>3 DEF ReceiveBye
    <2> QED BY <2>1, ByeKeeps DEF Keeps, Goes
  <1> QED BY <1>1, <1>2, <1>3
\* Fields that no part of the invariant reads.
LEMMA FlagsKeep ==
  ASSUME NEW x, Sane(x), NEW b \in BOOLEAN
  PROVE  Keeps(x, [x EXCEPT !.stable = b]) /\ Keeps(x, [x EXCEPT !.rtc_broken = b])
  <1>1. [x EXCEPT !.stable = b] \in CallType BY DEF Sane, CallType
  <1>2. [x EXCEPT !.rtc_broken = b] \in CallType BY DEF Sane, CallType
  <1>3. Keeps(x, [x EXCEPT !.stable = b])
    BY <1>1 DEF Keeps, Sane, CallType, Agreed, ByeInTime, AnsweredIsOver,
       EstablishedIsAnswered, Sides, Incoming
  <1> QED BY <1>2, <1>3 DEF Keeps, Sane, CallType, Agreed, ByeInTime, AnsweredIsOver,
             EstablishedIsAnswered, Sides, Incoming
LEMMA HeadKeeps ==
  Sane(session) /\ session.queue # <<>> => Keeps(session, Settled(session))
  BY SettledKeeps

MediaSteps ==
  \/ \E granted \in BOOLEAN : Media(granted)
  \/ \E set \in BOOLEAN : RemoteDescription(set)
  \/ LocalDescription
  \/ NoLocalDescription
LEMMA MediaGo ==
  CallInv /\ MediaSteps => Goes
  <1> SUFFICES ASSUME CallInv, MediaSteps PROVE Goes OBVIOUS
  <1> Sane(session) BY DEF CallInv
  <1>0. Keeps(session, session) /\ Keeps(session, Dropped(session)) BY DroppedKeeps DEF Keeps
  <1>a. Keeps(session, _failed(Refuse(Dropped(session)))) /\ Keeps(session, Refuse(Dropped(session)))
    BY <1>0, FailedRefuseKeeps, RefuseKeeps DEF Keeps
  <1>b. Keeps(session, _failed(Dropped(session))) BY <1>0, FailedKeeps DEF Keeps
  <1>c. ASSUME session.chain # "none", NEW c \in Chains, ~(Incoming(session) /\ session.final = "2xx")
        PROVE  Keeps(session, [session EXCEPT !.chain = c])
    <2>1. [session EXCEPT !.chain = c] \in CallType BY DEF Sane, CallType
    <2> QED BY <1>c, <2>1 DEF Keeps, Sane, CallType, Agreed, ByeInTime, AnsweredIsOver,
         EstablishedIsAnswered, Sides, Incoming
  <1>d. session.chain # "none" => ~(Incoming(session) /\ session.final = "2xx")
    BY DEF Sane, Agreed, AnsweredIsOver
  <1>1. CASE \E granted \in BOOLEAN : Media(granted)
    <2>1. PICK granted \in BOOLEAN : Media(granted) BY <1>1
    <2> DEFINE c == IF session.direction = "incoming" /\ ~session.late_sdp THEN "remote" ELSE "local"
    <2>2. session' \in {Dropped(session), [session EXCEPT !.chain = c],
                        _failed(Refuse(Dropped(session)))}
      BY <2>1 DEF Media
    <2>3. session.chain = "media" /\ c \in Chains BY <2>1, Names DEF Media
    <2> HIDE DEF c
    <2>4. Keeps(session, [session EXCEPT !.chain = c]) BY <2>3, <1>c, <1>d
    <2> QED BY <1>0, <1>a, <2>2, <2>4 DEF Keeps, Goes
  <1>2. CASE \E set \in BOOLEAN : RemoteDescription(set)
    <2>1. session' \in {[session EXCEPT !.chain = "local"], _failed(Refuse(Dropped(session)))}
      BY <1>2 DEF RemoteDescription
    <2>2. session.chain = "remote" BY <1>2 DEF RemoteDescription
    <2>3. Keeps(session, [session EXCEPT !.chain = "local"]) BY <2>2, <1>c, <1>d, Names
    <2> QED BY <1>a, <2>1, <2>3 DEF Keeps, Goes
  <1>3. CASE LocalDescription
    <2>1. session.chain = "local" BY <1>3 DEF LocalDescription
    <2>2. CASE Over(session)
      <3>1. session' = Dropped(session) BY <1>3, <2>2 DEF LocalDescription
      <3> QED BY <1>0, <3>1 DEF Keeps, Goes
    <2>3. CASE ~Over(session) /\ session.direction = "incoming"
      <3>1. session' = SendAnswer(RunSessionTimer(session)) BY <1>3, <2>3 DEF LocalDescription
      <3>2. Keeps(session, RunSessionTimer(session)) BY RunSessionTimerKeeps
      <3>3. RunSessionTimer(session).chain = "local"
        BY <2>1 DEF RunSessionTimer, Sane, CallType
      <3>4. Keeps(RunSessionTimer(session), SendAnswer(RunSessionTimer(session)))
        BY <2>3, <3>2, <3>3, SendAnswerKeeps DEF Keeps, Incoming
      <3> QED BY <3>1, <3>2, <3>4 DEF Keeps, Goes
    <2>4. CASE ~Over(session) /\ session.direction # "incoming"
      <3>1. session' = SendInvite(session) BY <1>3, <2>4 DEF LocalDescription
      <3>2. CASE session.direction = "outgoing"
        BY <3>1, <3>2, SendInviteKeeps DEF Keeps, Goes
      <3>3. session.direction # "none" BY <2>1 DEF CallInv, Fresh, Blank
      <3> QED BY <3>2, <3>3, <2>4 DEF Sane, CallType, Directions
    <2> QED BY <2>2, <2>3, <2>4
  <1>4. CASE NoLocalDescription
    <2>1. session' \in {Refuse(Dropped(session)), _failed(Dropped(session))}
      BY <1>4 DEF NoLocalDescription
    <2> QED BY <1>a, <1>b, <2>1 DEF Keeps, Goes
  <1> QED BY <1>1, <1>2, <1>3, <1>4 DEF MediaSteps

AnswersSteps ==
  \/ \E done \in BOOLEAN : AnswerInAck(done) \/ SetAnswer(done)
  \/ \E done \in BOOLEAN : Progress(done)
  \/ \E done \in BOOLEAN : RenewOffer(done)
  \/ \E done \in BOOLEAN : RemoteAnswer(done)
LEMMA AnswersGo ==
  CallInv /\ AnswersSteps => Goes
  <1> SUFFICES ASSUME Sane(session), AnswersSteps PROVE Goes BY DEF CallInv
  <1>5. CASE \E done \in BOOLEAN : AnswerInAck(done) \/ SetAnswer(done)
    <2>1. session.queue # <<>> /\ session' \in {Confirmed(Settled(session)), Settled(session), Cut(Settled(session))}
      BY <1>5 DEF AnswerInAck, SetAnswer, HeadIs
    <2>2. Keeps(session, Settled(session)) BY HeadKeeps, <2>1
    <2>3. /\ Keeps(Settled(session), Confirmed(Settled(session)))
          /\ Keeps(Settled(session), Cut(Settled(session)))
      BY <2>2, ConfirmedKeeps, CutKeeps DEF Keeps
    <2> QED BY <2>1, <2>2, <2>3 DEF Keeps, Goes
  <1>6. CASE \E done \in BOOLEAN : Progress(done)
    <2>1. PICK done \in BOOLEAN : Progress(done) BY <1>6
    <2> DEFINE y == Settled(session)
               b == y.stable \/ done
    <2>2. session.queue # <<>> /\ session' = [y EXCEPT !.stable = b]
      BY <2>1 DEF Progress, HeadIs
    <2>3. Keeps(session, y) BY HeadKeeps, <2>2
    <2> HIDE DEF y
    <2>4. b \in BOOLEAN BY <2>3 DEF Keeps, Sane, CallType
    <2> HIDE DEF b
    <2>5. Keeps(y, [y EXCEPT !.stable = b]) BY <2>3, <2>4, FlagsKeep DEF Keeps
    <2> QED BY <2>2, <2>3, <2>5 DEF Keeps, Goes
  <1>7. CASE \E done \in BOOLEAN : RenewOffer(done)
    <2> DEFINE s == Settled(session)
               y == [s EXCEPT !.stable = FALSE, !.answering = TRUE]
    <2>1. HeadIs("offer") /\ session.connection = "open"
      BY <1>7 DEF RenewOffer
    <2>2. session' \in {y, _failed(_acceptAndTerminate(y, y.dialog, TRUE))}
      BY <1>7 DEF RenewOffer
    <2>3. session.queue # <<>> /\ Holds(session.queue, "offer")
      BY <2>1, Taken DEF HeadIs, Sane, CallType
    <2>4. session.direction = "outgoing" /\ session.accepted # {} /\ session.dialog # None
      BY <2>1, <2>3 DEF Sane, Agreed, Sides
    <2>5. Keeps(session, s) BY HeadKeeps, <2>3
    <2>6. s.dialog = session.dialog
      BY <2>1 DEF Settled, Sane, CallType
    <2> HIDE DEF s
    <2>7. y \in CallType BY ZenonT(60), <2>5 DEF Keeps, Sane, CallType
    <2>8. Keeps(s, y) /\ y.dialog # None
      BY <2>4, <2>5, <2>6, <2>7 DEF Keeps, Sane, CallType, Agreed, ByeInTime, AnsweredIsOver,
         EstablishedIsAnswered, Sides, Incoming
    <2> HIDE DEF y
    <2>9. Caused(y) /\ y.dialog \in End
      BY <2>4, <2>5, <2>8 DEF Keeps, Caused, Incoming, Sane, CallType
    <2>10. Keeps(y, _acceptAndTerminate(y, y.dialog, TRUE))
      BY <2>8, <2>9, AcceptAndTerminateKeeps DEF Keeps
    <2>11. Keeps(_acceptAndTerminate(y, y.dialog, TRUE), _failed(_acceptAndTerminate(y, y.dialog, TRUE)))
      BY <2>10, FailedKeeps DEF Keeps
    <2> QED BY <2>2, <2>5, <2>8, <2>10, <2>11 DEF Keeps, Goes
  <1>8. CASE \E done \in BOOLEAN : RemoteAnswer(done)
    <2> DEFINE y == [session EXCEPT !.answering = FALSE]
               r == RunSessionTimer(y)
               t == Tell(r, "accepted")
               a == SendAck(t)
    <2>1. session' \in {Confirmed(a), _failed(_acceptAndTerminate(y, y.dialog, TRUE))}
      BY <1>8 DEF RemoteAnswer
    <2>2. session.direction = "outgoing" /\ session.accepted # {} /\ session.dialog # None
      BY <1>8 DEF RemoteAnswer, Sane, Agreed, Sides
    <2>3. y \in CallType BY DEF Sane, CallType
    <2>4. Keeps(session, y) /\ y.dialog # None
      BY <2>2, <2>3 DEF Keeps, Sane, CallType, Agreed, ByeInTime, AnsweredIsOver,
         EstablishedIsAnswered, Sides, Incoming
    <2> HIDE DEF y
    <2>5. Keeps(y, r) BY <2>4, RunSessionTimerKeeps DEF Keeps
    <2> HIDE DEF r
    <2>6. Keeps(r, t) BY <2>5, TellKeeps DEF Keeps, Events
    <2> HIDE DEF t
    <2>7. Keeps(t, a) BY <2>6, SendAckKeeps DEF Keeps
    <2> HIDE DEF a
    <2>8. Keeps(a, Confirmed(a)) BY <2>7, ConfirmedKeeps DEF Keeps
    <2>9. Caused(y) /\ y.dialog \in End
      BY <2>2, <2>4 DEF Keeps, Caused, Incoming, Sane, CallType
    <2>10. Keeps(y, _acceptAndTerminate(y, y.dialog, TRUE))
      BY <2>4, <2>9, AcceptAndTerminateKeeps DEF Keeps
    <2>11. Keeps(_acceptAndTerminate(y, y.dialog, TRUE), _failed(_acceptAndTerminate(y, y.dialog, TRUE)))
      BY <2>10, FailedKeeps DEF Keeps
    <2> QED BY <2>1, <2>4, <2>5, <2>6, <2>7, <2>8, <2>10, <2>11 DEF Keeps, Goes
  <1> QED BY <1>5, <1>6, <1>7, <1>8 DEF AnswersSteps

OffersSteps ==
  \/ \E done \in BOOLEAN : SetOffer(done)
  \/ MakeAnswer \/ MakeOffer
  \/ MakeNothing
  \/ \E done \in BOOLEAN : LocalOffer(done)
LEMMA OffersGo ==
  CallInv /\ OffersSteps => Goes
  <1> SUFFICES ASSUME Sane(session), OffersSteps PROVE Goes BY DEF CallInv
  <1>9. CASE \E done \in BOOLEAN : SetOffer(done)
    <2> DEFINE q == <<Op("ranswer", 0)>> \o Tail(session.queue)
               s == Settled(session)
               d == Decline(s)
    <2>1. session.queue # <<>> /\ session' \in {[session EXCEPT !.queue = q], RunSessionTimer(d)}
      BY <1>9 DEF SetOffer, HeadIs
    <2>2. /\ q \in Queues /\ \A o : Holds(q, o) => o = "ranswer" \/ Holds(session.queue, o)
          /\ Tidy(q, session.offers, session.uac_pending)
      BY <2>1, Replaced, FewerIsTidy DEF Sane, CallType, Agreed
    <2> HIDE DEF q
    <2>3. [session EXCEPT !.queue = q] \in CallType BY <2>2 DEF Sane, CallType
    <2>4. Keeps(session, [session EXCEPT !.queue = q])
      BY <2>2, <2>3 DEF Keeps, Sane, CallType, Agreed, ByeInTime, AnsweredIsOver,
         EstablishedIsAnswered, Sides, Incoming
    <2>5. Keeps(session, s) BY HeadKeeps, <2>1
    <2> HIDE DEF s
    <2>6. Keeps(s, d) BY <2>5, DeclineKeeps DEF Keeps
    <2> HIDE DEF d
    <2>7. Keeps(d, RunSessionTimer(d)) BY <2>6, RunSessionTimerKeeps DEF Keeps
    <2> QED BY <2>1, <2>4, <2>5, <2>6, <2>7 DEF Keeps, Goes
  <1>10. CASE MakeAnswer \/ MakeOffer
    <2> DEFINE s == Settled(session)
               r == RunSessionTimer(s)
    <2>1. session.queue # <<>> /\ session' \in {s, Accept(r)}
      BY <1>10 DEF MakeAnswer, MakeOffer, HeadIs
    <2>2. Keeps(session, s) BY HeadKeeps, <2>1
    <2> HIDE DEF s
    <2>3. Keeps(s, r) BY <2>2, RunSessionTimerKeeps DEF Keeps
    <2> HIDE DEF r
    <2>4. Keeps(r, Accept(r)) BY <2>3, AcceptKeeps DEF Keeps
    <2> QED BY <2>1, <2>2, <2>3, <2>4 DEF Keeps, Goes
  <1>11. CASE MakeNothing
    <2>1. PICK broken \in BOOLEAN :
            LET failed == Decline([Settled(session) EXCEPT !.rtc_broken = @ \/ broken])
            IN  session' = IF HeadIs("ranswer") THEN RunSessionTimer(failed) ELSE failed
      BY <1>11 DEF MakeNothing
    <2> DEFINE s == Settled(session)
               b == s.rtc_broken \/ broken
               y == [s EXCEPT !.rtc_broken = b]
               d == Decline(y)
    <2>2. session' \in {d, RunSessionTimer(d)} BY <2>1
    <2>3. session.queue # <<>> BY <1>11 DEF MakeNothing, HeadIs
    <2>4. Keeps(session, s) BY HeadKeeps, <2>3
    <2> HIDE DEF s
    <2>5. b \in BOOLEAN BY <2>4 DEF Keeps, Sane, CallType
    <2> HIDE DEF b
    <2>6. Keeps(s, y) BY <2>4, <2>5, FlagsKeep DEF Keeps
    <2> HIDE DEF y
    <2>7. Keeps(y, d) BY <2>6, DeclineKeeps DEF Keeps
    <2> HIDE DEF d
    <2>8. Keeps(d, RunSessionTimer(d)) BY <2>7, RunSessionTimerKeeps DEF Keeps
    <2> QED BY <2>2, <2>4, <2>6, <2>7, <2>8 DEF Keeps, Goes
  <1>12. CASE \E done \in BOOLEAN : LocalOffer(done)
    <2> DEFINE i == Head(session.queue).offer
               s == Settled(session)
               over == Step(s, i, "over")
               y(b) == [over EXCEPT !.rtc_broken = b]
    <2>1. session.queue # <<>> /\ Head(session.queue).op = "reoffer" BY <1>12 DEF LocalOffer, HeadIs
    <2>2. \/ session' \in {over, SendOffer(s, i, "sent", Cut(over))}
          \/ \E broken \in BOOLEAN : session' = Cut(y(over.rtc_broken \/ broken))
      BY <1>12 DEF LocalOffer
    <2>3. Keeps(session, s) BY HeadKeeps, <2>1
    <2>4. i \in Offers BY <2>1, Taken DEF Sane, CallType, Entries
    <2>a. Asks(session.queue, i) /\ Once(session.queue, i) /\ session.offers[i] = "queued"
      BY <2>1, <2>4, Taken DEF Sane, CallType, Agreed, Tidy
    <2>b. ~Asks(s.queue, i) /\ s.offers = session.offers
      BY <2>1, <2>4, <2>a, Taken, Kept, Constants DEF Settled, Rejected, Decline, Sane, CallType
    <2> HIDE DEF s, i
    <2>5. Keeps(s, over) BY <2>3, <2>4, <2>a, <2>b, StepKeeps DEF Keeps, OfferStates
    <2> HIDE DEF over
    <2>6. Keeps(over, Cut(over)) BY <2>5, CutKeeps DEF Keeps
    <2>7. Keeps(s, Cut(over)) BY <2>5, <2>6 DEF Keeps
    <2>8. Keeps(s, SendOffer(s, i, "sent", Cut(over)))
      BY <2>3, <2>4, <2>7, <2>b, SendOfferKeeps DEF Keeps
    <2>9. ASSUME NEW b \in BOOLEAN PROVE Keeps(over, Cut(y(b)))
      <3>1. Keeps(over, y(b)) BY <2>5, FlagsKeep DEF Keeps
      <3> HIDE DEF y
      <3>2. Keeps(y(b), Cut(y(b))) BY <3>1, CutKeeps DEF Keeps
      <3> QED BY <3>1, <3>2 DEF Keeps
    <2>10. \A broken \in BOOLEAN : (over.rtc_broken \/ broken) \in BOOLEAN OBVIOUS
    <2>11. CASE session' \in {over, SendOffer(s, i, "sent", Cut(over))}
      BY <2>3, <2>5, <2>8, <2>11 DEF Keeps, Goes
    <2> HIDE DEF y
    <2>12. CASE \E broken \in BOOLEAN : session' = Cut(y(over.rtc_broken \/ broken))
      BY <2>3, <2>5, <2>9, <2>10, <2>12 DEF Keeps, Goes
    <2> QED BY <2>2, <2>11, <2>12
  <1> QED BY <1>9, <1>10, <1>11, <1>12 DEF OffersSteps

LEMMA BrowserGoes == CallInv /\ Browser => Goes
  BY MediaGo, AnswersGo, OffersGo DEF Browser, MediaSteps, AnswersSteps, OffersSteps
LEMMA FarChangeGoes ==
  CallInv /\ (ReceiveReinvite \/ ReceiveUpdate \/ ReceiveRefresh) => Goes
  <1> SUFFICES ASSUME CallInv, ReceiveReinvite \/ ReceiveUpdate \/ ReceiveRefresh PROVE Goes
    OBVIOUS
  <1> Sane(session) BY DEF CallInv
  <1>1. CASE ReceiveReinvite \/ ReceiveUpdate
    <2>1. PICK method \in Methods, sdp \in BOOLEAN, welcome \in BOOLEAN :
            session' = Offered(Begin(session, method), sdp, welcome)
      BY <1>1, Names DEF ReceiveReinvite, ReceiveUpdate
    <2>2. Incoming(session) => session.final = "2xx"
      BY <1>1 DEF ReceiveReinvite, ReceiveUpdate, FromOtherEnd, Incoming
    <2>3. Keeps(session, Begin(session, method)) BY <2>2, BeginKeeps
    <2>4. Keeps(Begin(session, method), Offered(Begin(session, method), sdp, welcome))
      BY <2>3, OfferedKeeps DEF Keeps
    <2> QED BY <2>1, <2>3, <2>4 DEF Keeps, Goes
  <1>2. CASE ReceiveRefresh
    <2>1. session' = RunSessionTimer(session) BY <1>2 DEF ReceiveRefresh
    <2> QED BY <2>1, RunSessionTimerKeeps DEF Keeps, Goes
  <1> QED BY <1>1, <1>2

LEMMA OwnChangeGoes ==
  ASSUME CallInv, NEW i \in Offers,
         renegotiate(i) \/ OfferAccepted(i) \/ OfferRefused(i) \/ OfferCrossed(i) \/ Reattempt(i)
  PROVE  Goes
  <1> Sane(session) BY DEF CallInv
  <1>0. i \in Offers \cup {0} OBVIOUS
  <1>1. CASE renegotiate(i)
    <2> DEFINE s == Step(session, i, "queued")
    <2>1. session' = [s EXCEPT !.queue = Append(@, Op("reoffer", i))]
      BY <1>1 DEF renegotiate
    <2>a. session.offers[i] = "none" BY <1>1 DEF renegotiate
    <2>b. ~Asks(session.queue, i) BY <2>a, NotAsked
    <2>2. Keeps(session, s) /\ s.queue = session.queue /\ s.offers[i] = "queued"
      BY <2>a, <2>b, StepKeeps DEF OfferStates
    <2> HIDE DEF s
    <2>3. Keeps(s, [s EXCEPT !.queue = Append(@, Op("reoffer", i))])
      BY <1>0, <2>2, <2>b, EnqueueKeeps DEF Keeps, Ops
    <2> QED BY <2>1, <2>2, <2>3 DEF Keeps, Goes
  <1>2. CASE OfferAccepted(i)
    <2> DEFINE x == Final(session, i)
               a == SendAck(x)
               h == RunSessionTimer(a)
    <2>1. session' \in {x, [h EXCEPT !.queue = Append(@, Op("reanswer", i))], terminate(h)}
      BY <1>2 DEF OfferAccepted
    <2>a. ~Asks(session.queue, i) BY <1>2, NotAsked DEF OfferAccepted, Sent
    <2>2. Keeps(session, x) BY <2>a, FinalKeeps
    <2> HIDE DEF x
    <2>3. Keeps(x, a) BY <2>2, SendAckKeeps DEF Keeps
    <2> HIDE DEF a
    <2>4. Keeps(a, h) BY <2>3, RunSessionTimerKeeps DEF Keeps
    <2> HIDE DEF h
    <2>5. Keeps(h, [h EXCEPT !.queue = Append(@, Op("reanswer", i))])
      BY <1>0, <2>4, EnqueueKeeps DEF Keeps, Ops
    <2>6. Keeps(h, terminate(h)) BY <2>4, TerminateKeeps DEF Keeps
    <2> QED BY <2>1, <2>2, <2>3, <2>4, <2>5, <2>6 DEF Keeps, Goes
  <1>3. CASE OfferRefused(i)
    <2>1. session' = terminate(Final(session, i)) BY <1>3 DEF OfferRefused
    <2>a. ~Asks(session.queue, i) BY <1>3, NotAsked DEF OfferRefused, Sent
    <2>2. Keeps(session, Final(session, i)) BY <2>a, FinalKeeps
    <2>3. Keeps(Final(session, i), terminate(Final(session, i)))
      BY <2>2, TerminateKeeps DEF Keeps
    <2> QED BY <2>1, <2>2, <2>3 DEF Keeps, Goes
  <1>4. CASE OfferCrossed(i)
    <2> DEFINE x == Final(session, i)
    <2>1. session' = Step(x, i, "retry") BY <1>4 DEF OfferCrossed, Step
    <2>a. ~Asks(session.queue, i) BY <1>4, NotAsked DEF OfferCrossed
    <2>2. Keeps(session, x) /\ x.queue = session.queue /\ x.offers[i] = "over"
      BY <2>a, FinalKeeps
    <2> HIDE DEF x
    <2>3. Keeps(x, Step(x, i, "retry")) BY <2>2, <2>a, StepKeeps DEF Keeps, OfferStates
    <2> QED BY <2>1, <2>2, <2>3 DEF Keeps, Goes
  <1>5. CASE Reattempt(i)
    <2> DEFINE s == Step(session, i, "over")
    <2>1. session' = SendOffer(session, i, "resent", terminate(s)) BY <1>5 DEF Reattempt
    <2>a. session.offers[i] = "retry" BY <1>5 DEF Reattempt
    <2>b. ~Asks(session.queue, i) BY <2>a, NotAsked
    <2>2. Keeps(session, s) BY <2>a, <2>b, StepKeeps DEF OfferStates
    <2> HIDE DEF s
    <2>3. Keeps(s, terminate(s)) BY <2>2, TerminateKeeps DEF Keeps
    <2>4. Keeps(session, terminate(s)) BY <2>2, <2>3 DEF Keeps
    <2>5. Keeps(session, SendOffer(session, i, "resent", terminate(s)))
      BY <2>4, <2>b, SendOfferKeeps
    <2> QED BY <2>1, <2>5 DEF Keeps, Goes
  <1> QED BY <1>1, <1>2, <1>3, <1>4, <1>5

\* A timer that is taken out of the table, or another field that only the timers read.
LEMMA TimerKeeps ==
  ASSUME NEW x, Sane(x), NEW name
  PROVE  Keeps(x, [x EXCEPT !.timers = @ \ {name}])
  <1> DEFINE t == x.timers \ {name}
  <1>1. t \in TimerSets /\ ("noAnswer" \in t => "noAnswer" \in x.timers)
    BY DEF Sane, CallType, TimerSets
  <1>2. [x EXCEPT !.timers = @ \ {name}] = [x EXCEPT !.timers = t] OBVIOUS
  <1> HIDE DEF t
  <1>3. [x EXCEPT !.timers = t] \in CallType BY <1>1 DEF Sane, CallType
  <1>4. Keeps(x, [x EXCEPT !.timers = t])
    BY <1>1, <1>3 DEF Keeps, Sane, CallType, Agreed, ByeInTime, AnsweredIsOver,
       EstablishedIsAnswered, Sides, Incoming
  <1> QED BY <1>2, <1>4
LEMMA SessionTimerKeeps ==
  ASSUME NEW x, Sane(x), NEW b \in BOOLEAN
  PROVE  /\ Keeps(x, [x EXCEPT !.session_timer = "none"])
         /\ Keeps(x, [x EXCEPT !.update = b])
  <1>1. [x EXCEPT !.session_timer = "none"] \in CallType BY Constants DEF Sane, CallType
  <1>2. [x EXCEPT !.update = b] \in CallType BY DEF Sane, CallType
  <1>3. Keeps(x, [x EXCEPT !.session_timer = "none"])
    BY <1>1 DEF Keeps, Sane, CallType, Agreed, ByeInTime, AnsweredIsOver,
       EstablishedIsAnswered, Sides, Incoming
  <1> QED BY <1>2, <1>3 DEF Keeps, Sane, CallType, Agreed, ByeInTime, AnsweredIsOver,
             EstablishedIsAnswered, Sides, Incoming
LEMMA OverReinviteKeeps ==
  ASSUME NEW x, Sane(x), x.reinvite # "none"
  PROVE  Keeps(x, [x EXCEPT !.reinvite = "TERMINATED"])
  <1>1. [x EXCEPT !.reinvite = "TERMINATED"] \in CallType BY Names DEF Sane, CallType
  <1> QED BY <1>1 DEF Keeps, Sane, CallType, Agreed, ByeInTime, AnsweredIsOver,
             EstablishedIsAnswered, Sides, Incoming

LEMMA TimerGoes == CallInv /\ Timer => Goes
  <1> SUFFICES ASSUME CallInv, Timer PROVE Goes OBVIOUS
  <1> Sane(session) BY DEF CallInv
  <1>0. Keeps(session, session) BY DEF Keeps
  <1>1. CASE NoAnswerTimer
    <2> DEFINE y == [session EXCEPT !.timers = @ \ {"noAnswer"}]
    <2>1. session' = _failed(Refuse(y)) BY <1>1 DEF NoAnswerTimer
    <2>2. Keeps(session, y) BY TimerKeeps
    <2> HIDE DEF y
    <2>3. Keeps(y, _failed(Refuse(y))) BY <2>2, FailedRefuseKeeps DEF Keeps
    <2> QED BY <2>1, <2>2, <2>3 DEF Keeps, Goes
  <1>2. CASE ExpiresTimer
    <2> DEFINE y == [session EXCEPT !.timers = @ \ {"expires"}]
    <2>1. session' \in {y, _failed(Refuse(y))} BY <1>2 DEF ExpiresTimer
    <2>2. Keeps(session, y) BY TimerKeeps
    <2> HIDE DEF y
    <2>3. Keeps(y, _failed(Refuse(y))) BY <2>2, FailedRefuseKeeps DEF Keeps
    <2> QED BY <2>1, <2>2, <2>3 DEF Keeps, Goes
  <1>3. CASE ResendTimer
    <2> DEFINE y == [session EXCEPT !.timers = @ \ {"2xx"}]
    <2>1. \/ session' \in {y, session, TxOver(session)}
          \/ session.reinvite = "ACCEPTED" /\ session' = [session EXCEPT !.reinvite = "TERMINATED"]
      BY <1>3 DEF ResendTimer
    <2>2. Keeps(session, y) BY TimerKeeps
    <2> HIDE DEF y
    <2>3. Keeps(session, TxOver(session)) BY TxOverKeeps
    <2>4. session.reinvite = "ACCEPTED" => Keeps(session, [session EXCEPT !.reinvite = "TERMINATED"])
      BY OverReinviteKeeps
    <2> QED BY <1>0, <2>1, <2>2, <2>3, <2>4 DEF Keeps, Goes
  <1>4. CASE AckTimer
    <2> DEFINE t == session.timers \ {"ack"}
               y == [session EXCEPT !.timers = t]
    <2>1. session' = IF y.status = "WAITING_FOR_ACK" /\ y.dialog # None THEN _ended(SendBye(y)) ELSE y
      BY <1>4 DEF AckTimer
    <2>2. session.tx # "ACCEPTED" BY <1>4 DEF AckTimer
    <2>3. Keeps(session, y) BY TimerKeeps
    <2>4. y.tx = session.tx BY DEF Sane, CallType
    <2> HIDE DEF y
    <2>5. CASE ~(y.status = "WAITING_FOR_ACK" /\ y.dialog # None)
      BY <2>1, <2>3, <2>5 DEF Keeps, Goes
    <2>6. CASE y.status = "WAITING_FOR_ACK" /\ y.dialog # None
      <3>1. Caused(y) \/ (Incoming(y) /\ (y.acked \/ y.tx = "TERMINATED"))
        BY <2>2, <2>3, <2>4, <2>6 DEF Caused, Keeps, Sane, Agreed, AnsweredIsOver,
           EstablishedIsAnswered, Sides, Incoming
      <3>2. Keeps(y, SendBye(y)) BY <2>3, <3>1, SendByeKeeps DEF Keeps
      <3>3. Keeps(SendBye(y), _ended(SendBye(y))) BY <3>2, FailedKeeps DEF Keeps
      <3> QED BY <2>1, <2>3, <2>6, <3>2, <3>3 DEF Keeps, Goes
    <2> QED BY <2>5, <2>6
  <1>5. CASE TxTimer
    <2> DEFINE over == TxOver(session)
    <2>1. session' \in {over, terminate(over)} BY <1>5 DEF TxTimer
    <2>2. Keeps(session, over) BY TxOverKeeps
    <2> HIDE DEF over
    <2>3. Keeps(over, terminate(over)) BY <2>2, TerminateKeeps DEF Keeps
    <2> QED BY <2>1, <2>2, <2>3 DEF Keeps, Goes
  <1>6. CASE ReinviteTimer
    <2>1. session.reinvite # "none" /\ session' = [session EXCEPT !.reinvite = "TERMINATED"]
      BY <1>6 DEF ReinviteTimer
    <2> QED BY <2>1, OverReinviteKeeps DEF Keeps, Goes
  <1>7. CASE SessionTimer
    <2> DEFINE x == [session EXCEPT !.session_timer = "none"]
    <2>1. session' \in {x, terminate(x), [x EXCEPT !.update = TRUE]} BY <1>7 DEF SessionTimer
    <2>2. Keeps(session, x) BY SessionTimerKeeps
    <2> HIDE DEF x
    <2>3. Keeps(x, terminate(x)) /\ Keeps(x, [x EXCEPT !.update = TRUE])
      BY <2>2, TerminateKeeps, SessionTimerKeeps DEF Keeps
    <2> QED BY <2>1, <2>2, <2>3 DEF Keeps, Goes
  <1>8. CASE \E i \in Offers : Reattempt(i) BY <1>8, OwnChangeGoes
  <1>9. CASE ProvisionalTimer
    <2>1. session' = TxOver(session) BY <1>9 DEF ProvisionalTimer
    <2> QED BY <2>1, TxOverKeeps DEF Keeps, Goes
  <1> QED BY <1>1, <1>2, <1>3, <1>4, <1>5, <1>6, <1>7, <1>8, <1>9 DEF Timer

LEMMA ChangeGoes == CallInv /\ Change => Goes
  <1> SUFFICES ASSUME CallInv, Change PROVE Goes OBVIOUS
  <1>1. CASE Refreshed
    <2> DEFINE x == [session EXCEPT !.update = FALSE]
    <2>1. session' \in {x, RunSessionTimer(x), terminate(x)} BY <1>1 DEF Refreshed
    <2>2. Keeps(session, x) BY SessionTimerKeeps DEF CallInv
    <2> HIDE DEF x
    <2>3. Keeps(x, terminate(x)) /\ Keeps(x, RunSessionTimer(x))
      BY <2>2, TerminateKeeps, RunSessionTimerKeeps DEF Keeps
    <2> QED BY <2>1, <2>2, <2>3 DEF Keeps, Goes
  <1> QED BY <1>1, FarChangeGoes, OwnChangeGoes DEF Change

\* Until a call is made or arrives, no other step changes the session.
LEMMA BlankStays ==
  ASSUME CallInv, session.direction = "none", Next,
         session'.direction = "none"
  PROVE  Blank(session')
  <1>1. Blank(session) /\ Sane(session) BY DEF CallInv, Fresh
  <1>2. ~Terminate BY <1>1 DEF Blank, Terminate, Known
  <1>3. ~Initial
    <2>1. ~connect /\ ~init_incoming BY ConnectStarts, IncomingStarts
    <2>2. session.dialog \notin session.dialogs BY <1>1 DEF Blank
    <2> QED BY <1>1, <2>1, <2>2 DEF Blank, Initial, answer, ReceiveProvisional, ReceiveAccepted,
               ReceiveRefused, ReceiveCancel, ReceiveAck, ReceiveBye
  <1>4. ~Browser
    BY <1>1 DEF Blank, Browser, Media, RemoteDescription, LocalDescription, NoLocalDescription,
       Progress, RenewOffer, RemoteAnswer, AnswerInAck, SetOffer, LocalOffer, SetAnswer,
       MakeAnswer, MakeOffer, MakeNothing, HeadIs
  <1>5. \A i \in Offers : session.offers[i] = "none" BY <1>1 DEF Blank
  <1>6. ~Change
    BY <1>1, <1>5 DEF Blank, Change, ReceiveReinvite, ReceiveUpdate, ReceiveRefresh, FromOtherEnd,
       renegotiate, OfferAccepted, OfferRefused, OfferCrossed, Sent, Established, Refreshed
  <1>7. ~Timer
    BY <1>1, <1>5 DEF Blank, Timer, NoAnswerTimer, ExpiresTimer, ResendTimer, AckTimer, TxTimer,
       ProvisionalTimer, ReinviteTimer, SessionTimer, Reattempt
  <1>8. CASE Lost \/ onTransportConnect BY <1>1, <1>8 DEF Lost, onTransportConnect
  <1>9. CASE onTransportDisconnect
    <2>1. \A i \in Offers : ~Sent(i) BY <1>5 DEF Sent
    <2>2. ~Unanswered(session) BY <1>1, <2>1 DEF Unanswered, Blank
    <2>3. session' = Abandoned(session) BY <1>1, <1>9, <2>2 DEF onTransportDisconnect, Blank
    <2>4. [i \in Offers |-> IF Sent(i) THEN "over" ELSE session.offers[i]] = session.offers
      BY <1>1, <1>5, <2>1 DEF Blank
    <2>5. Blank(session')
      BY <1>1, <2>3, <2>4 DEF Abandoned, Blank, Sane, CallType
    <2> QED BY <2>5
  <1> QED BY <1>2, <1>3, <1>4, <1>6, <1>7, <1>8, <1>9 DEF Next

LEMMA CallStep == CallInv /\ [Next]_vars => CallInv'
  <1> SUFFICES ASSUME CallInv, [Next]_vars PROVE CallInv' OBVIOUS
  <1>1. CASE UNCHANGED vars BY <1>1 DEF vars, CallInv, Fresh
  <1>2. CASE Next
    <2>1. Sane(session') /\ (session'.direction = "none" => session.direction = "none")
      <3>1. CASE connect \/ init_incoming BY <3>1, ConnectStarts, IncomingStarts
      <3>2. CASE Lost \/ onTransportConnect
        BY <3>2 DEF Lost, onTransportConnect, CallInv
      <3>3. CASE Goes BY <3>3 DEF Goes
      <3> QED BY <1>2, <3>1, <3>2, <3>3, TerminateGoes, DisconnectGoes, answerGoes, ResponsesGo,
                 RequestsGo, BrowserGoes, ChangeGoes, TimerGoes DEF Next, Initial
    <2>2. session'.direction = "none" => Blank(session') BY <1>2, <2>1, BlankStays
    <2> QED BY <2>1, <2>2 DEF CallInv, Fresh
  <1> QED BY <1>1, <1>2

\* Every field of the session keeps its type, and no BYE leaves before its time: a callee
\* sends one when it has the ACK of its 200, or has given it up; a caller, when some 2xx
\* arrived. It holds for any number of forks and of changes of the media, and however
\* the connection is lost and comes back.
THEOREM ByeComesInTime == Spec => [](session \in CallType /\ ByeAfterAck)
  <1>1. CallInv => session \in CallType /\ ByeAfterAck
    BY DEF CallInv, Sane, Agreed, ByeInTime, ByeAfterAck, Incoming
  <1> QED BY InitIsSane, CallStep, <1>1, PTL DEF Spec
(***************************************************************************)
(* What the application is told, and what the tables list.                  *)
(***************************************************************************)
HeardOf(x, event) == \E i \in DOMAIN x.told : x.told[i] = event
EndsOf(x) == {i \in DOMAIN x.told : x.told[i] \in {"failed", "ended"}}
\* ToldTheTruth, of a session, and what makes it inductive: only a session that goes
\* astray comes back after its end, and the connection of one that ended is closed.
Honest(x) ==
  Incoming(x) =>
    /\ HeardOf(x, "accepted") <=> x.final = "2xx"
    /\ HeardOf(x, "failed") => x.final # "2xx"
    /\ x.astray => x.final = "2xx"
Truthful(x) ==
  /\ Honest(x)
  /\ Over(x) \/ x.is_canceled => EndsOf(x) # {}
  /\ EndsOf(x) # {} /\ ~x.astray => Over(x)
  /\ x.astray \/ \A i \in EndsOf(x) : i = Len(x.told)
  /\ Over(x) /\ ~x.astray => x.connection # "open" /\ ~x.answering
\* A session that can be ended: nothing but a session astray is told twice of it.
Endable(x) == Honest(x) /\ (x.astray \/ (EndsOf(x) = {} /\ ~Over(x)))

LiveIn(x) == x.status \in {"WAITING_FOR_ANSWER", "ANSWERED", "WAITING_FOR_ACK", "CONFIRMED"}
MineOf(x) == (x.early \cup {x.dialog}) \ {None}
LeakOf(x) == x.dialogs \ x.forks
\* CallIsListed, of a session: that of a caller is listed from the start.
Listed(x) ==
  /\ (LiveIn(x) \/ x.direction = "outgoing") /\ ~Over(x) /\ ~x.astray =>
       x.sessions /\ MineOf(x) \subseteq x.dialogs
  /\ LeakOf(x) \subseteq MineOf(x)
  /\ Over(x) /\ ~x.astray => ~x.sessions /\ (LeakOf(x) = {} \/ x.hangup)
  /\ x.hangup /\ ~x.astray => Over(x)
  /\ x.status = "WAITING_FOR_ANSWER" => x.early = {Caller} /\ x.dialog = None
Good(x) == Truthful(x) /\ Listed(x)

\* Steps that neither tell the application anything, nor touch the tables.
SameTale(x, y) ==
  /\ y.told = x.told /\ y.final = x.final /\ y.status = x.status /\ y.astray = x.astray
  /\ y.is_canceled = x.is_canceled /\ y.connection = x.connection
  /\ y.answering = x.answering /\ y.direction = x.direction
SameTables(x, y) ==
  /\ y.sessions = x.sessions /\ y.early = x.early /\ y.dialog = x.dialog
  /\ y.dialogs = x.dialogs /\ y.forks = x.forks /\ y.hangup = x.hangup
Quiet(x, y) == SameTale(x, y) /\ SameTables(x, y)

LEMMA SameTaleIsTrue ==
  ASSUME NEW x, NEW y, SameTale(x, y)
  PROVE  /\ Truthful(x) => Truthful(y)
         /\ Endable(x) => Endable(y)
  <1>1. EndsOf(y) = EndsOf(x) /\ \A e : HeardOf(y, e) <=> HeardOf(x, e)
    BY DEF SameTale, EndsOf, HeardOf
  <1> QED BY <1>1 DEF SameTale, Truthful, Endable, Honest, Incoming, Over
LEMMA SameTablesAreListed ==
  ASSUME NEW x, NEW y, SameTables(x, y), y.status = x.status, y.direction = x.direction,
         y.astray = x.astray, Listed(x)
  PROVE  Listed(y)
  BY DEF SameTables, Listed, LiveIn, MineOf, LeakOf, Over
LEMMA QuietIsGood ==
  ASSUME NEW x, NEW y, Quiet(x, y)
  PROVE  (Good(x) => Good(y)) /\ (Listed(x) => Listed(y))
  BY SameTaleIsTrue, SameTablesAreListed DEF Quiet, Good, SameTale
LEMMA QuietTwice ==
  ASSUME NEW x, NEW y, NEW z, Quiet(x, y), Quiet(y, z)
  PROVE  Quiet(x, z)
  BY DEF Quiet, SameTale, SameTables

LEMMA SendIsQuiet ==
  ASSUME NEW x, Sane(x)
  PROVE  Quiet(x, SendAck(x)) /\ Quiet(x, SendBye(x)) /\ Quiet(x, Decline(x))
         /\ Quiet(x, RunSessionTimer(x)) /\ Quiet(x, Dropped(x))
  BY DEF Sane, CallType, Quiet, SameTale, SameTables, SendAck, SendBye, Decline,
         RunSessionTimer, Dropped
LEMMA FieldIsQuiet ==
  ASSUME NEW x, Sane(x), NEW v
  PROVE  /\ Quiet(x, [x EXCEPT !.tx = v]) /\ Quiet(x, [x EXCEPT !.queue = v])
         /\ Quiet(x, [x EXCEPT !.stable = v]) /\ Quiet(x, [x EXCEPT !.rtc_broken = v])
         /\ Quiet(x, [x EXCEPT !.chain = v]) /\ Quiet(x, [x EXCEPT !.timers = v])
         /\ Quiet(x, [x EXCEPT !.update = v]) /\ Quiet(x, [x EXCEPT !.session_timer = v])
         /\ Quiet(x, [x EXCEPT !.reinvite = v]) /\ Quiet(x, [x EXCEPT !.offers = v])
         /\ Quiet(x, [x EXCEPT !.uac_pending = v]) /\ Quiet(x, [x EXCEPT !.acked = v])
  BY DEF Sane, CallType, Quiet, SameTale, SameTables
LEMMA QueueIsQuiet ==
  ASSUME NEW x, Sane(x)
  PROVE  /\ Quiet(x, Rejected(x))
         /\ x.queue # <<>> => Quiet(x, Settled(x))
  <1>1. ASSUME NEW y, Sane(y) PROVE Quiet(y, Rejected(y))
    <2> DEFINE z == IF \E i \in DOMAIN y.queue : y.queue[i].op = "relocal" THEN Decline(y) ELSE y
    <2>1. Sane(z) /\ Quiet(y, z)
      BY <1>1, SendIsQuiet, DeclineKeeps DEF Keeps, Quiet, SameTale, SameTables
    <2>2. Rejected(y) = [z EXCEPT !.queue = <<>>] BY DEF Rejected
    <2> HIDE DEF z
    <2>3. Quiet(z, [z EXCEPT !.queue = <<>>]) BY <2>1, FieldIsQuiet
    <2> QED BY <2>1, <2>2, <2>3, QuietTwice
  <1>2. ASSUME x.queue # <<>> PROVE Quiet(x, Settled(x))
    <2> DEFINE z == [x EXCEPT !.queue = Tail(@)]
    <2>1. Sane(z)
      <3>1. x.queue \in Queues BY DEF Sane, CallType
      <3> QED BY <1>2, <3>1, Taken, EmptiedKeeps DEF Keeps
    <2>2. Quiet(x, z) BY FieldIsQuiet
    <2>3. Settled(x) = IF x.connection = "open" THEN z ELSE Rejected(z) BY DEF Settled
    <2> HIDE DEF z
    <2>4. Quiet(z, Rejected(z)) BY <1>1, <2>1
    <2> QED BY <2>2, <2>3, <2>4, QuietTwice
  <1> QED BY <1>1, <1>2

\* The BYE put off until the ACK, and the end of the transaction.
LEMMA HangUpIsListed ==
  ASSUME NEW x, Sane(x), Listed(x), x.hangup
  PROVE  SameTale(x, HangUp(x)) /\ Listed(HangUp(x))
  <1>1. SameTale(x, HangUp(x)) BY DEF Sane, CallType, SameTale, HangUp, SendBye
  <1>2. /\ HangUp(x).dialogs = x.dialogs \ {x.dialog} /\ HangUp(x).sessions = x.sessions
        /\ HangUp(x).early = x.early /\ HangUp(x).dialog = x.dialog /\ HangUp(x).forks = x.forks
        /\ HangUp(x).hangup = x.hangup
    BY DEF Sane, CallType, HangUp, SendBye
  <1> HIDE DEF HangUp
  <1>3. Listed(HangUp(x)) BY <1>1, <1>2 DEF SameTale, Listed, LiveIn, MineOf, LeakOf, Over
  <1> QED BY <1>1, <1>3
LEMMA TxOverIsListed ==
  ASSUME NEW x, Sane(x), Listed(x)
  PROVE  SameTale(x, TxOver(x)) /\ Listed(TxOver(x))
  <1> DEFINE over == [x EXCEPT !.tx = "TERMINATED"]
  <1>1. Sane(over) /\ Quiet(x, over) /\ over.hangup = x.hangup
    <2>1. Sane(over) BY EndOfTxKeeps DEF Keeps
    <2>2. Quiet(x, over) BY FieldIsQuiet
    <2> QED BY <2>1, <2>2 DEF Quiet, SameTables
  <1>2. TxOver(x) = IF x.hangup /\ x.dialog # None THEN HangUp(over) ELSE over
    BY DEF TxOver
  <1> HIDE DEF over
  <1>3. SameTale(x, over) /\ Listed(over) BY <1>1, QuietIsGood DEF Quiet
  <1>4. x.hangup => SameTale(over, HangUp(over)) /\ Listed(HangUp(over))
    BY <1>1, <1>3, HangUpIsListed
  <1> QED BY <1>2, <1>3, <1>4 DEF SameTale
LEMMA TxOverIsGood ==
  ASSUME NEW x, Sane(x), Good(x)
  PROVE  Good(TxOver(x))
  BY TxOverIsListed, SameTaleIsTrue DEF Good
LEMMA RefuseIsGood ==
  ASSUME NEW x, Sane(x), Good(x)
  PROVE  /\ Good(Refuse(x)) /\ Refuse(x).status = x.status /\ Refuse(x).astray = x.astray
         /\ Refuse(x).direction = x.direction
         /\ Incoming(x) /\ x.final # "2xx" => Refuse(x).final # "2xx"
  <1>1. CASE x.tx # "PROCEEDING" BY <1>1 DEF Refuse
  <1>2. CASE x.tx = "PROCEEDING" /\ ~Sends
    <2>1. Refuse(x) = TxOver(x) BY <1>2 DEF Refuse
    <2> QED BY <2>1, TxOverIsGood, TxOverIsListed DEF SameTale, Good
  <1>3. CASE x.tx = "PROCEEDING" /\ Sends
    <2> DEFINE y == [x EXCEPT !.tx = "COMPLETED", !.final = "reject"]
    <2>1. Refuse(x) = y BY <1>3 DEF Refuse
    <2>2. /\ SameTables(x, y) /\ y.told = x.told /\ y.final = "reject" /\ y.status = x.status
          /\ y.astray = x.astray /\ y.is_canceled = x.is_canceled
          /\ y.connection = x.connection /\ y.answering = x.answering
          /\ y.direction = x.direction
      BY DEF Sane, CallType, SameTables
    <2>3. Incoming(x) => x.final # "2xx"
      BY <1>3 DEF Sane, Agreed, AnsweredIsOver
    <2> HIDE DEF y
    <2>4. EndsOf(y) = EndsOf(x) /\ \A e : HeardOf(y, e) <=> HeardOf(x, e)
      BY <2>2 DEF EndsOf, HeardOf
    <2>5. Truthful(y) BY <2>2, <2>3, <2>4 DEF Good, Truthful, Honest, Incoming, Over
    <2>6. Listed(y) BY <2>2, SameTablesAreListed DEF Good
    <2> QED BY <2>1, <2>2, <2>5, <2>6 DEF Good
  <1> QED BY <1>1, <1>2, <1>3

\* A word to the application.
LEMMA TellSays ==
  ASSUME NEW x, Sane(x), NEW e \in Events
  PROVE  /\ \A f : HeardOf(Tell(x, e), f) <=> f = e \/ HeardOf(x, f)
         /\ e \in {"failed", "ended"} => EndsOf(Tell(x, e)) = EndsOf(x) \cup {Len(Tell(x, e).told)}
         /\ e \notin {"failed", "ended"} => EndsOf(Tell(x, e)) = EndsOf(x)
         /\ Tell(x, e).final = x.final /\ Tell(x, e).status = x.status
         /\ Tell(x, e).astray = x.astray /\ Tell(x, e).is_canceled = x.is_canceled
         /\ Tell(x, e).connection = x.connection /\ Tell(x, e).answering = x.answering
         /\ Tell(x, e).direction = x.direction /\ SameTables(x, Tell(x, e))
  <1> DEFINE t == Tell(x, e).told
  <1>1. t = Append(x.told, e) /\ x.told \in Seq(Events)
    BY DEF Sane, CallType, Tell, Tellings
  <1>2. /\ DOMAIN t = 1 .. Len(x.told) + 1 /\ DOMAIN x.told = 1 .. Len(x.told)
        /\ Len(x.told) \in Nat /\ Len(t) = Len(x.told) + 1 /\ t[Len(x.told) + 1] = e
        /\ \A i \in 1 .. Len(x.told) : t[i] = x.told[i]
    BY <1>1
  <1> HIDE DEF t
  <1>3. \A f : (\E i \in DOMAIN t : t[i] = f) <=> f = e \/ (\E i \in DOMAIN x.told : x.told[i] = f)
    BY <1>2
  <1>4. {i \in DOMAIN t : t[i] \in {"failed", "ended"}} =
          IF e \in {"failed", "ended"}
          THEN {i \in DOMAIN x.told : x.told[i] \in {"failed", "ended"}} \cup {Len(t)}
          ELSE {i \in DOMAIN x.told : x.told[i] \in {"failed", "ended"}}
    BY <1>2
  <1>5. \A f : HeardOf(Tell(x, e), f) <=> f = e \/ HeardOf(x, f) BY <1>3 DEF HeardOf, t
  <1>6. EndsOf(Tell(x, e)) = IF e \in {"failed", "ended"} THEN EndsOf(x) \cup {Len(Tell(x, e).told)} ELSE EndsOf(x)
    BY <1>4 DEF EndsOf, t
  <1>7. /\ Tell(x, e).final = x.final /\ Tell(x, e).status = x.status
        /\ Tell(x, e).astray = x.astray /\ Tell(x, e).is_canceled = x.is_canceled
        /\ Tell(x, e).connection = x.connection /\ Tell(x, e).answering = x.answering
        /\ Tell(x, e).direction = x.direction /\ SameTables(x, Tell(x, e))
    BY DEF Sane, CallType, Tell, SameTables
  <1> QED BY <1>5, <1>6, <1>7
LEMMA TellIsGood ==
  ASSUME NEW x, Sane(x), Good(x), x.astray \/ EndsOf(x) = {},
         NEW e \in {"new", "accepted", "confirmed"},
         e = "accepted" /\ Incoming(x) => x.final = "2xx"
  PROVE  Good(Tell(x, e))
  <1>1. e \in Events BY DEF Events
  <1>2. Listed(Tell(x, e)) BY <1>1, TellSays, SameTablesAreListed DEF Good
  <1>3. Truthful(Tell(x, e)) BY <1>1, TellSays DEF Good, Truthful, Honest, Incoming, Over
  <1> QED BY <1>2, <1>3 DEF Good

LEMMA CloseSays ==
  ASSUME NEW x, Sane(x)
  PROVE  /\ _close(x).told = x.told /\ _close(x).final = x.final
         /\ _close(x).status = "TERMINATED" /\ _close(x).astray = x.astray
         /\ _close(x).is_canceled = x.is_canceled /\ _close(x).direction = x.direction
         /\ _close(x).forks = x.forks /\ _close(x).hangup = x.hangup
         /\ ~Over(x) => /\ _close(x).connection # "open" /\ ~_close(x).answering
                        /\ _close(x).early = {} /\ _close(x).dialog = None
                        /\ _close(x).dialogs = x.dialogs \ (x.early \cup {x.dialog})
                        /\ ~_close(x).sessions
         /\ Over(x) => _close(x) = x
  <1>1. Closed(x.connection) # "open" BY DEF Closed
  <1>2. CASE x.status = "TERMINATED" BY <1>2 DEF _close, Over
  <1>3. CASE x.status # "TERMINATED" BY <1>1, <1>3 DEF _close, Over, Sane, CallType
  <1> QED BY <1>2, <1>3
LEMMA CloseIsListed ==
  ASSUME NEW x, Sane(x), Listed(x)
  PROVE  Listed(_close(x))
  <1>1. CASE Over(x) BY <1>1, CloseSays
  <1>2. CASE ~Over(x)
    BY <1>2, CloseSays DEF Listed, LiveIn, MineOf, LeakOf, Over
  <1> QED BY <1>1, <1>2
LEMMA EndIsGood ==
  ASSUME NEW x, Sane(x), Listed(x), Endable(x), NEW e \in {"failed", "ended"},
         e = "failed" /\ Incoming(x) => x.final # "2xx"
  PROVE  Good(Tell(_close(x), e))
  <1> DEFINE y == _close(x)
  <1>1. Sane(y) /\ Listed(y) BY CloseKeeps, CloseIsListed DEF Keeps
  <1>2. /\ y.told = x.told /\ y.final = x.final /\ y.status = "TERMINATED"
        /\ y.astray = x.astray /\ y.direction = x.direction
        /\ y.astray \/ (y.connection # "open" /\ ~y.answering)
    BY CloseSays DEF Endable
  <1>3. EndsOf(y) = EndsOf(x) /\ \A f : HeardOf(y, f) <=> HeardOf(x, f)
    BY <1>2 DEF EndsOf, HeardOf
  <1> HIDE DEF y
  <1>4. e \in Events BY DEF Events
  <1>5. Listed(Tell(y, e)) BY <1>1, <1>4, TellSays, SameTablesAreListed
  <1>6. Honest(Tell(y, e))
    BY <1>1, <1>2, <1>3, <1>4, TellSays DEF Endable, Honest, Incoming
  <1>7. y.astray \/ EndsOf(Tell(y, e)) = {Len(Tell(y, e).told)}
    BY <1>1, <1>2, <1>3, <1>4, TellSays DEF Endable
  <1>8. EndsOf(Tell(y, e)) # {} /\ Over(Tell(y, e))
        /\ Tell(y, e).astray = y.astray
        /\ Tell(y, e).connection = y.connection /\ Tell(y, e).answering = y.answering
    <2>1. EndsOf(Tell(y, e)) = EndsOf(y) \cup {Len(Tell(y, e).told)} BY <1>1, <1>4, TellSays
    <2>2. Tell(y, e).status = "TERMINATED" BY <1>1, <1>2, <1>4, TellSays
    <2>3. Tell(y, e).astray = y.astray
        /\ Tell(y, e).connection = y.connection /\ Tell(y, e).answering = y.answering
      BY <1>1, <1>4, TellSays
    <2> QED BY <2>1, <2>2, <2>3 DEF Over
  <1>9. Truthful(Tell(y, e)) BY <1>2, <1>6, <1>7, <1>8 DEF Truthful
  <1> QED BY <1>5, <1>9 DEF Good, y
LEMMA GoodIsEndable ==
  ASSUME NEW x, Good(x), ~Over(x) \/ x.astray
  PROVE  Endable(x) /\ Listed(x)
  BY DEF Good, Truthful, Endable
LEMMA FailedIsGood ==
  ASSUME NEW x, Sane(x), Good(x), ~Over(x) \/ x.astray
  PROVE  Good(_ended(x)) /\ (~(Incoming(x) /\ x.final = "2xx") => Good(_failed(x)))
  BY GoodIsEndable, EndIsGood DEF _ended, _failed
LEMMA FailedRefuseIsGood ==
  ASSUME NEW x, Sane(x), Good(x), ~Over(x) \/ x.astray, ~(Incoming(x) /\ x.final = "2xx")
  PROVE  Good(_failed(Refuse(x))) /\ Good(_ended(Refuse(x)))
  <1>1. Sane(Refuse(x)) BY RefuseKeeps DEF Keeps
  <1>2. /\ Good(Refuse(x)) /\ (~Over(Refuse(x)) \/ Refuse(x).astray)
        /\ ~(Incoming(Refuse(x)) /\ Refuse(x).final = "2xx")
    BY RefuseIsGood DEF Over, Incoming
  <1> QED BY <1>1, <1>2, FailedIsGood

\* terminate() in any status.
LEMMA TerminateIsGood ==
  ASSUME NEW x, Sane(x), Good(x)
  PROVE  Good(terminate(x))
  <1>0. x.status \in {"NULL", "INVITE_SENT", "1XX_RECEIVED", "WAITING_FOR_ANSWER", "ANSWERED"}
          => ~Over(x) /\ ~(Incoming(x) /\ x.final = "2xx")
    BY DEF Sane, Agreed, AnsweredIsOver, Over
  <1>1. CASE x.status \in {"NULL", "INVITE_SENT", "1XX_RECEIVED"}
    <2>1. terminate(x) = _failed(Cancel(x)) BY <1>1 DEF terminate, MustWait
    <2>2. /\ SameTables(x, Cancel(x)) /\ Cancel(x).told = x.told /\ Cancel(x).final = x.final
          /\ Cancel(x).status = x.status /\ Cancel(x).astray = x.astray
          /\ Cancel(x).direction = x.direction
      BY DEF Cancel, SameTables, Sane, CallType
    <2>3. Sane(Cancel(x)) BY CancelKeeps DEF Keeps
    <2>4. Listed(Cancel(x)) BY <2>2, SameTablesAreListed DEF Good
    <2>5. EndsOf(Cancel(x)) = EndsOf(x) /\ \A f : HeardOf(Cancel(x), f) <=> HeardOf(x, f)
      BY <2>2 DEF EndsOf, HeardOf
    <2>6. Endable(Cancel(x))
      BY <1>0, <1>1, <2>2, <2>5 DEF Good, Truthful, Endable, Honest, Incoming, Over
    <2>7. ~(Incoming(Cancel(x)) /\ Cancel(x).final = "2xx")
      BY <1>0, <1>1, <2>2 DEF Incoming
    <2> QED BY <2>1, <2>3, <2>4, <2>6, <2>7, EndIsGood DEF _failed
  <1>2. CASE x.status \in {"WAITING_FOR_ANSWER", "ANSWERED"}
    <2>1. terminate(x) = _failed(Refuse(x)) BY <1>2 DEF terminate, MustWait
    <2> QED BY <1>0, <1>2, <2>1, FailedRefuseIsGood
  <1>3. CASE MustWait(x)
    <2> DEFINE e == _ended(x)
               w == [e EXCEPT !.hangup = TRUE, !.dialog = x.dialog,
                              !.dialogs = @ \cup ({x.dialog} \ {None})]
    <2>0. ~Over(x) BY <1>3 DEF MustWait, Over
    <2>1. terminate(x) = w BY <1>3 DEF terminate, MustWait
    <2>2. Sane(e) /\ Good(e) BY <2>0, FailedKeeps, FailedIsGood DEF Keeps
    <2>3. /\ e.status = "TERMINATED" /\ ~e.sessions /\ e.early = {} /\ e.forks = x.forks
          /\ e.dialogs = x.dialogs \ (x.early \cup {x.dialog})
      BY <2>0, CloseSays, CloseKeeps, TellSays DEF _ended, SameTables, Keeps, Events
    <2> HIDE DEF e
    <2>4. SameTale(e, w) BY <2>2 DEF SameTale, Sane, CallType
    <2>5. /\ w.hangup /\ w.dialog = x.dialog /\ w.early = {} /\ w.forks = x.forks
          /\ w.dialogs = e.dialogs \cup ({x.dialog} \ {None}) /\ ~w.sessions
          /\ w.status = "TERMINATED"
      BY <2>2, <2>3 DEF Sane, CallType
    <2> HIDE DEF w
    <2>6. LeakOf(x) \subseteq MineOf(x) BY DEF Good, Listed
    <2>7. LeakOf(w) \subseteq MineOf(w) BY <2>3, <2>5, <2>6 DEF LeakOf, MineOf
    <2>8. Listed(w) BY <2>5, <2>7 DEF Listed, LiveIn, Over
    <2> QED BY <2>1, <2>2, <2>4, <2>8, SameTaleIsTrue DEF Good
  <1>4. CASE x.status \in {"WAITING_FOR_ACK", "CONFIRMED"} /\ ~MustWait(x) /\ x.dialog # None
    <2>1. Caused(x) \/ (Incoming(x) /\ (x.acked \/ x.tx = "TERMINATED"))
      BY <1>4 DEF MustWait, Caused, Sane, Agreed, EstablishedIsAnswered, Sides, Incoming
    <2>2. terminate(x) = _ended(SendBye(x)) BY <1>4 DEF terminate, MustWait
    <2>3. Sane(SendBye(x)) BY <2>1, SendByeKeeps DEF Keeps
    <2>4. Quiet(x, SendBye(x)) BY SendIsQuiet
    <2>5. Good(SendBye(x)) /\ ~Over(SendBye(x))
      BY <1>4, <2>4, QuietIsGood DEF Quiet, SameTale, Over
    <2> QED BY <2>2, <2>3, <2>5, FailedIsGood
  <1>5. CASE /\ x.status \notin {"NULL", "INVITE_SENT", "1XX_RECEIVED",
                                 "WAITING_FOR_ANSWER", "ANSWERED"}
             /\ ~MustWait(x)
             /\ ~(x.status \in {"WAITING_FOR_ACK", "CONFIRMED"} /\ x.dialog # None)
    <2>1. terminate(x) = x BY <1>5 DEF terminate
    <2> QED BY <2>1
  <1> QED BY <1>1, <1>2, <1>3, <1>4, <1>5
\* A caller that accepts and ends: the session is astray, and listed no more.
Astray(x) == x.astray /\ Over(x) /\ ~Incoming(x) /\ Listed(x)
LEMMA AcceptAndTerminateSays ==
  ASSUME NEW x, Sane(x), Listed(x), Caused(x), NEW d \in End, NEW contact \in BOOLEAN,
         d \in Dialogs \/ x.dialog # None
  PROVE  /\ Astray(_acceptAndTerminate(x, d, contact))
         /\ EndsOf(x) # {} => EndsOf(_acceptAndTerminate(x, d, contact)) # {}
  <1> DEFINE made == IF x.dialog # None THEN x
                     ELSE IF d \in x.early THEN [x EXCEPT !.dialog = d, !.early = @ \ {d}]
                     ELSE IF contact THEN [x EXCEPT !.dialog = d, !.dialogs = @ \cup {d}]
                     ELSE _failed(x)
             sent == IF made.dialog = None THEN made ELSE SendBye(SendAck(made))
             gone == [sent EXCEPT !.status = "TERMINATED", !.astray = TRUE]
  <1>1. Sane(made) /\ ~Incoming(made) /\ LeakOf(made) \subseteq MineOf(made)
        /\ (EndsOf(x) # {} => EndsOf(made) # {})
    <2>1. CASE x.dialog # None BY <2>1 DEF Listed, Caused
    <2>2. CASE x.dialog = None /\ d \in x.early
      <3> DEFINE y == [x EXCEPT !.dialog = d, !.early = @ \ {d}]
      <3>1. x.early \ {d} \in Ends /\ d # None
        BY <2>2, DialogAssumption DEF Sane, CallType, Ends
      <3>2. y \in CallType BY <3>1 DEF Sane, CallType
      <3>3. Sane(y) /\ ~Incoming(y)
        BY <3>1, <3>2 DEF Caused, Sane, CallType, Agreed, ByeInTime, AnsweredIsOver,
           EstablishedIsAnswered, Sides, Incoming
      <3>4. /\ y.dialog = d /\ y.early = x.early \ {d} /\ y.dialogs = x.dialogs
            /\ y.forks = x.forks /\ y.told = x.told
        BY DEF Sane, CallType
      <3>5. made = y BY <2>2
      <3> HIDE DEF y
      <3>6. LeakOf(y) \subseteq MineOf(y) BY <2>2, <3>4 DEF Listed, LeakOf, MineOf
      <3>7. EndsOf(y) = EndsOf(x) BY <3>4 DEF EndsOf
      <3> QED BY <3>3, <3>5, <3>6, <3>7
    <2>3. CASE x.dialog = None /\ d \notin x.early /\ contact
      <3> DEFINE y == [x EXCEPT !.dialog = d, !.dialogs = @ \cup {d}]
      <3>1. x.dialogs \cup {d} \in Ends /\ d # None
        BY <2>3, DialogAssumption DEF Sane, CallType, Ends
      <3>2. y \in CallType BY ZenonT(60), <3>1 DEF Sane, CallType
      <3>3. Sane(y) /\ ~Incoming(y)
        BY <3>1, <3>2 DEF Caused, Sane, CallType, Agreed, ByeInTime, AnsweredIsOver,
           EstablishedIsAnswered, Sides, Incoming
      <3>4. /\ y.dialog = d /\ y.early = x.early /\ y.dialogs = x.dialogs \cup {d}
            /\ y.forks = x.forks /\ y.told = x.told
        BY DEF Sane, CallType
      <3>5. made = y BY <2>3
      <3> HIDE DEF y
      <3>6. LeakOf(y) \subseteq MineOf(y) BY <2>3, <3>1, <3>4 DEF Listed, LeakOf, MineOf
      <3>7. EndsOf(y) = EndsOf(x) BY <3>4 DEF EndsOf
      <3> QED BY <3>3, <3>5, <3>6, <3>7
    <2>4. CASE x.dialog = None /\ d \notin x.early /\ ~contact
      <3>1. made = Tell(_close(x), "failed") BY <2>4 DEF _failed
      <3>2. Sane(_close(x)) /\ Listed(_close(x)) /\ ~Incoming(_close(x))
        BY CloseKeeps, CloseIsListed DEF Keeps, Caused, Incoming
      <3> HIDE DEF made
      <3>3. "failed" \in Events BY DEF Events
      <3>4. Listed(made)
        <4>1. /\ SameTables(_close(x), made) /\ made.status = _close(x).status
              /\ made.direction = _close(x).direction /\ made.astray = _close(x).astray
          BY <3>1, <3>2, <3>3, TellSays
        <4> QED BY <3>2, <4>1, SameTablesAreListed
      <3>5. EndsOf(made) = EndsOf(_close(x)) \cup {Len(made.told)}
        BY <3>1, <3>2, <3>3, TellSays
      <3>6. Sane(made) /\ made.direction = x.direction
        BY <3>1, FailedKeeps DEF Keeps, _failed
      <3> QED BY <3>4, <3>5, <3>6 DEF Listed, Caused, Incoming
    <2> QED BY <2>1, <2>2, <2>3, <2>4
  <1>2. _acceptAndTerminate(x, d, contact) = gone BY DEF _acceptAndTerminate
  <1>3. Keeps(x, made)
    <2>1. made.direction = x.direction /\ made.accepted = x.accepted
      BY FailedKeeps DEF Keeps, Sane, CallType
    <2> QED BY <1>1, <2>1 DEF Keeps
  <1> HIDE DEF made
  <1>4. Sane(sent) /\ Quiet(made, sent)
    <2>1. CASE made.dialog = None BY <1>1, <2>1 DEF Quiet, SameTale, SameTables
    <2>2. CASE made.dialog # None
      <3>1. Keeps(made, SendAck(made)) /\ Quiet(made, SendAck(made))
        BY <1>1, SendAckKeeps, SendIsQuiet
      <3>2. Caused(SendAck(made)) BY <1>3, <3>1 DEF Caused, Keeps, Incoming
      <3>3. Sane(SendBye(SendAck(made))) /\ Quiet(SendAck(made), SendBye(SendAck(made)))
        BY <3>1, <3>2, SendByeKeeps, SendIsQuiet DEF Keeps
      <3> QED BY <2>2, <3>1, <3>3, QuietTwice
    <2> QED BY <2>1, <2>2
  <1> HIDE DEF sent
  <1>5. /\ gone.status = "TERMINATED" /\ gone.astray /\ gone.direction = sent.direction
        /\ gone.told = sent.told /\ SameTables(sent, gone)
    BY <1>4 DEF Sane, CallType, SameTables
  <1> HIDE DEF gone
  <1>6. Astray(gone)
    BY <1>1, <1>4, <1>5 DEF Quiet, SameTale, SameTables, Astray, Listed, Over, Incoming, LiveIn,
       LeakOf, MineOf
  <1>7. EndsOf(gone) = EndsOf(made) BY <1>4, <1>5 DEF Quiet, SameTale, EndsOf
  <1> QED BY <1>1, <1>2, <1>6, <1>7
LEMMA AcceptAndTerminateIsGood ==
  ASSUME NEW x, Sane(x), Listed(x), Caused(x), NEW d \in End, NEW contact \in BOOLEAN,
         d \in Dialogs \/ x.dialog # None
  PROVE  /\ Good(_failed(_acceptAndTerminate(x, d, contact)))
         /\ EndsOf(x) # {} => Good(_acceptAndTerminate(x, d, contact))
  <1> DEFINE y == _acceptAndTerminate(x, d, contact)
  <1>1. Sane(y) BY AcceptAndTerminateKeeps DEF Keeps
  <1>2. Astray(y) /\ (EndsOf(x) # {} => EndsOf(y) # {}) BY AcceptAndTerminateSays
  <1> HIDE DEF y
  <1>3. Endable(y) /\ ~Incoming(y) /\ Listed(y) BY <1>2 DEF Astray, Endable, Honest
  <1>4. EndsOf(x) # {} => Good(y) BY <1>2 DEF Astray, Good, Truthful, Honest
  <1>5. Good(_failed(y)) BY <1>1, <1>3, EndIsGood DEF _failed
  <1> QED BY <1>4, <1>5 DEF y

\* A change of the status of a session that goes on.
LEMMA GoesOnIsGood ==
  ASSUME NEW x, Sane(x), Good(x), ~Over(x) \/ x.astray, NEW status \in Statuses, status # "TERMINATED",
         status \notin {"WAITING_FOR_ANSWER"},
         status \in {"ANSWERED", "WAITING_FOR_ACK", "CONFIRMED"} => LiveIn(x) \/ x.direction = "outgoing"
                                                                     \/ x.astray
  PROVE  Good([x EXCEPT !.status = status])
  <1> DEFINE y == [x EXCEPT !.status = status]
  <1>1. /\ y.status = status /\ y.told = x.told /\ y.final = x.final /\ y.astray = x.astray
        /\ y.is_canceled = x.is_canceled /\ y.connection = x.connection
        /\ y.answering = x.answering /\ y.direction = x.direction /\ SameTables(x, y)
    BY DEF Sane, CallType, SameTables
  <1> HIDE DEF y
  <1>2. EndsOf(y) = EndsOf(x) /\ \A e : HeardOf(y, e) <=> HeardOf(x, e)
    BY <1>1 DEF EndsOf, HeardOf
  <1>3. Truthful(y) BY <1>1, <1>2 DEF Good, Truthful, Honest, Incoming, Over
  <1>4. Listed(y) BY <1>1 DEF Good, Listed, LiveIn, MineOf, LeakOf, Over, SameTables
  <1> QED BY <1>3, <1>4 DEF Good, y

LEMMA SendInviteIsGood ==
  ASSUME NEW x, Sane(x), Good(x), ~Over(x), x.direction = "outgoing"
  PROVE  Good(SendInvite(x))
  <1> DEFINE u == [x EXCEPT !.status = "INVITE_SENT"]
             sent == [u EXCEPT !.chain = "none"]
             calls == [sent EXCEPT !.tx = "CALLING"]
  <1>1. SendInvite(x) = IF Sends THEN calls ELSE [terminate(sent) EXCEPT !.tx = "TERMINATED"]
    BY DEF SendInvite
  <1>2. Good(u) BY Names, GoesOnIsGood
  <1>3. u \in CallType /\ u.direction = "outgoing" BY Names DEF Sane, CallType
  <1>4. Sane(u)
    BY <1>3 DEF Sane, CallType, Agreed, ByeInTime, AnsweredIsOver,
       EstablishedIsAnswered, Sides, Incoming
  <1> HIDE DEF u
  <1>5. Quiet(u, sent) BY <1>4, FieldIsQuiet
  <1>6. sent \in CallType BY <1>3, Names DEF CallType
  <1>7. Sane(sent)
    BY <1>3, <1>4, <1>6 DEF Sane, CallType, Agreed, ByeInTime, AnsweredIsOver,
       EstablishedIsAnswered, Sides, Incoming
  <1> HIDE DEF sent
  <1>8. Good(sent) BY <1>2, <1>5, QuietIsGood
  <1>9. Good(calls)
    <2>1. Quiet(sent, calls) BY <1>7, FieldIsQuiet
    <2> HIDE DEF calls
    <2> QED BY <1>8, <2>1, QuietIsGood
  <1>10. Sane(terminate(sent)) /\ Good(terminate(sent))
    BY <1>7, <1>8, TerminateKeeps, TerminateIsGood DEF Keeps
  <1>11. Quiet(terminate(sent), [terminate(sent) EXCEPT !.tx = "TERMINATED"])
    BY <1>10, FieldIsQuiet
  <1>12. Good([terminate(sent) EXCEPT !.tx = "TERMINATED"]) BY <1>10, <1>11, QuietIsGood
  <1> QED BY <1>1, <1>9, <1>12

LEMMA DialoguedIsGood ==
  ASSUME NEW x, Sane(x), Good(x), NEW d \in Dialogs, NEW contact \in BOOLEAN,
         NEW early \in BOOLEAN, early \/ x.dialog = None, ~Over(x) \/ x.astray, ~Incoming(x)
  PROVE  Good(Dialogued(x, d, contact, early))
  <1>0. d # None BY DialogAssumption
  <1>1. ASSUME NEW y, SameTale(x, y), y.sessions = x.sessions, y.forks = x.forks,
               y.hangup = x.hangup, MineOf(x) \subseteq x.dialogs => MineOf(y) \subseteq y.dialogs,
               LeakOf(x) \subseteq MineOf(x) => LeakOf(y) \subseteq MineOf(y)
        PROVE  Good(y)
    <2>1. x.status # "WAITING_FOR_ANSWER" BY DEF Sane, Agreed, Sides
    <2>2. Truthful(y) BY <1>1, SameTaleIsTrue DEF Good
    <2>3. Listed(y)
      BY <1>1, <2>1 DEF SameTale, Good, Listed, LiveIn, Over
    <2> QED BY <2>2, <2>3 DEF Good
  <1>2. CASE d \in x.early /\ early BY <1>2 DEF Dialogued
  <1>3. CASE d \in x.early /\ ~early
    <2> DEFINE y == [x EXCEPT !.dialog = d, !.early = @ \ {d}]
    <2>1. SameTale(x, y) /\ y.sessions = x.sessions /\ y.forks = x.forks /\ y.hangup = x.hangup
          /\ y.dialog = d /\ y.early = x.early \ {d} /\ y.dialogs = x.dialogs
      BY DEF Sane, CallType, SameTale
    <2>2. Dialogued(x, d, contact, early) = y BY <1>3 DEF Dialogued
    <2> HIDE DEF y
    <2>3. MineOf(y) = MineOf(x) BY <1>0, <1>3, <2>1 DEF MineOf
    <2> QED BY <1>1, <2>1, <2>2, <2>3 DEF LeakOf
  <1>4. CASE d \notin x.early /\ contact /\ early
    <2> DEFINE y == [x EXCEPT !.early = @ \cup {d}, !.dialogs = @ \cup {d}]
    <2>1. SameTale(x, y) /\ y.sessions = x.sessions /\ y.forks = x.forks /\ y.hangup = x.hangup
          /\ y.dialog = x.dialog /\ y.early = x.early \cup {d} /\ y.dialogs = x.dialogs \cup {d}
      BY DEF Sane, CallType, SameTale
    <2>2. Dialogued(x, d, contact, early) = y BY <1>4 DEF Dialogued
    <2> HIDE DEF y
    <2>3. MineOf(y) = MineOf(x) \cup {d} BY <1>0, <2>1 DEF MineOf
    <2> QED BY <1>1, <2>1, <2>2, <2>3 DEF LeakOf
  <1>5. CASE d \notin x.early /\ contact /\ ~early
    <2> DEFINE y == [x EXCEPT !.dialog = d, !.dialogs = @ \cup {d}]
    <2>1. SameTale(x, y) /\ y.sessions = x.sessions /\ y.forks = x.forks /\ y.hangup = x.hangup
          /\ y.dialog = d /\ y.early = x.early /\ y.dialogs = x.dialogs \cup {d}
      BY DEF Sane, CallType, SameTale
    <2>2. Dialogued(x, d, contact, early) = y BY <1>5 DEF Dialogued
    <2> HIDE DEF y
    <2>3. MineOf(y) = MineOf(x) \cup {d} BY <1>0, <1>5, <2>1 DEF MineOf
    <2> QED BY <1>1, <2>1, <2>2, <2>3 DEF LeakOf
  <1>6. CASE d \notin x.early /\ ~contact
    <2>1. Dialogued(x, d, contact, early) = _failed(x) BY <1>6 DEF Dialogued
    <2> QED BY <2>1, FailedIsGood
  <1> QED BY <1>2, <1>3, <1>4, <1>5, <1>6

LEMMA RingingIsGood ==
  ASSUME NEW x, Sane(x), Good(x), ~Incoming(x), NEW d \in End, NEW contact \in BOOLEAN,
         NEW sdp \in BOOLEAN
  PROVE  Good(Ringing(x, d, contact, sdp))
  <1> DEFINE made == IF contact THEN Dialogued(x, d, TRUE, TRUE) ELSE x
             rings == [made EXCEPT !.status = "1XX_RECEIVED"]
             q == Append(rings.queue, Op("progress", 0))
             plays == [rings EXCEPT !.queue = q]
  <1>1. CASE d = None \/ ~Waiting(x) BY <1>1 DEF Ringing
  <1>2. CASE ~(d = None \/ ~Waiting(x))
    <2>1. d \in Dialogs /\ ~Over(x) BY <1>2 DEF End, Waiting, Over
    <2>2. Sane(made) /\ Waiting(made) /\ Good(made)
      <3>1. CASE contact
        <4>1. Keeps(x, Dialogued(x, d, TRUE, TRUE)) /\ Dialogued(x, d, TRUE, TRUE).status = x.status
          BY <2>1, DialoguedKeeps
        <4>2. Good(Dialogued(x, d, TRUE, TRUE)) BY <2>1, DialoguedIsGood
        <4> QED BY <1>2, <3>1, <4>1, <4>2 DEF Keeps, Waiting
      <3>2. CASE ~contact BY <1>2, <3>2
      <3> QED BY <3>1, <3>2
    <2>3. Ringing(x, d, contact, sdp) = IF sdp THEN plays ELSE rings BY <1>2 DEF Ringing
    <2> HIDE DEF made
    <2>4. Sane(rings) BY <2>2, TryingKeeps DEF Keeps
    <2>5. Good(rings)
      <3>1. ~Over(made) BY <2>2 DEF Waiting, Over
      <3> QED BY <2>2, <3>1, Names, GoesOnIsGood
    <2> HIDE DEF rings, q
    <2>6. Quiet(rings, plays) BY <2>4, FieldIsQuiet
    <2> QED BY <2>3, <2>5, <2>6, QuietIsGood
  <1> QED BY <1>1, <1>2
LEMMA ProvisionalIsGood ==
  ASSUME NEW x, Sane(x), Good(x), ~Incoming(x), NEW code, NEW d \in End,
         NEW contact \in BOOLEAN, NEW sdp \in BOOLEAN
  PROVE  Good(Provisional(x, code, d, contact, sdp))
  <1>1. Good(Trying(x))
    <2>1. CASE ~Waiting(x) BY <2>1 DEF Trying
    <2>2. CASE Waiting(x)
      <3>1. ~Over(x) /\ Trying(x) = [x EXCEPT !.status = "1XX_RECEIVED"]
        BY <2>2 DEF Waiting, Over, Trying
      <3> QED BY <3>1, Names, GoesOnIsGood
    <2> QED BY <2>1, <2>2
  <1>2. Good(Ringing(x, d, contact, sdp)) BY RingingIsGood
  <1> QED BY <1>1, <1>2 DEF Provisional, Sane, CallType
LEMMA RefusedIsGood ==
  ASSUME NEW x, Sane(x), Good(x), ~Incoming(x)
  PROVE  Good(Refused(x))
  <1>1. Waiting(x) => ~Over(x) BY DEF Waiting, Over
  <1> QED BY <1>1, FailedIsGood DEF Refused
LEMMA AgainIsGood ==
  ASSUME NEW x, Sane(x), Good(x), Caused(x), NEW d \in Dialogs, NEW contact \in BOOLEAN
  PROVE  Good(Again(x, d, contact))
  <1> DEFINE y == [x EXCEPT !.dialogs = @ \cup {d}, !.forks = @ \cup {d}]
  <1>0. x.dialogs \cup {d} \in Ends /\ x.forks \cup {d} \in Ends BY DEF Sane, CallType, Ends
  <1>1. y \in CallType BY ZenonT(60), <1>0 DEF Sane, CallType
  <1>2. Keeps(x, y) BY <1>1 DEF Keeps, Sane, CallType, Agreed, ByeInTime, AnsweredIsOver,
             EstablishedIsAnswered, Sides, Incoming
  <1>3. SameTale(x, y) /\ y.dialogs = x.dialogs \cup {d} /\ y.forks = x.forks \cup {d}
        /\ y.sessions = x.sessions /\ y.early = x.early /\ y.dialog = x.dialog /\ y.hangup = x.hangup
    BY DEF Sane, CallType, SameTale
  <1>4. Again(x, d, contact) = IF d = x.dialog THEN SendAck(x)
                               ELSE IF ~contact THEN x ELSE SendBye(SendAck(y))
    BY DEF Again
  <1> HIDE DEF y
  <1>5. MineOf(y) = MineOf(x) /\ LeakOf(y) \subseteq LeakOf(x) BY <1>3 DEF MineOf, LeakOf
  <1>6. Listed(y) BY <1>3, <1>5 DEF SameTale, Good, Listed, LiveIn, Over
  <1>7. Good(y) BY <1>3, <1>6, SameTaleIsTrue DEF Good
  <1>8. Keeps(y, SendAck(y)) /\ Quiet(y, SendAck(y)) BY <1>2, SendAckKeeps, SendIsQuiet DEF Keeps
  <1>9. Quiet(SendAck(y), SendBye(SendAck(y))) BY <1>8, SendIsQuiet DEF Keeps
  <1>10. Good(SendBye(SendAck(y))) BY <1>7, <1>8, <1>9, QuietIsGood
  <1>11. Good(SendAck(x))
    <2>1. Quiet(x, SendAck(x)) BY SendIsQuiet
    <2> QED BY <2>1, QuietIsGood
  <1> QED BY <1>4, <1>10, <1>11
LEMMA AcceptedIsGood ==
  ASSUME NEW x, Sane(x), Good(x), x.direction = "outgoing", x.accepted # {}, NEW d \in Dialogs,
         NEW contact \in BOOLEAN, NEW sdp \in BOOLEAN
  PROVE  Good(Accepted(x, d, contact, sdp))
  <1> DEFINE confirmed == [x EXCEPT !.status = "CONFIRMED"]
             made == Dialogued(confirmed, d, contact, FALSE)
             q == Append(made.queue, Op("offer", 0))
             asks == [made EXCEPT !.queue = q]
  <1>0. Caused(x) /\ d \in End BY DEF Caused, Incoming, End
  <1>1. confirmed \in CallType BY Names DEF Sane, CallType
  <1>2. Keeps(x, confirmed)
    BY <1>1 DEF Keeps, Sane, CallType, Agreed, ByeInTime, AnsweredIsOver,
             EstablishedIsAnswered, Sides, Incoming
  <1>3. CASE x.dialog # None
    <2>1. Accepted(x, d, contact, sdp) = Again(x, d, contact) BY <1>3 DEF Accepted
    <2> QED BY <1>0, <2>1, AgainIsGood
  <1>4. CASE x.dialog = None /\ x.is_canceled
    <2>1. Accepted(x, d, contact, sdp) = _acceptAndTerminate(x, d, contact)
      BY <1>4 DEF Accepted
    <2>2. EndsOf(x) # {} BY <1>4 DEF Good, Truthful
    <2> QED BY <1>0, <2>1, <2>2, AcceptAndTerminateIsGood DEF Good
  <1>5. CASE x.dialog = None /\ ~x.is_canceled /\ ~Waiting(x)
    <2>1. Accepted(x, d, contact, sdp) = x BY <1>5 DEF Accepted
    <2> QED BY <2>1
  <1>6. CASE x.dialog = None /\ ~x.is_canceled /\ Waiting(x)
    <2>1. Accepted(x, d, contact, sdp) =
            IF ~sdp THEN _failed(_acceptAndTerminate(confirmed, d, contact))
            ELSE IF made.dialog = None THEN made ELSE asks
      BY <1>6 DEF Accepted
    <2>2. Good(confirmed)
      <3>1. ~Over(x) BY <1>6 DEF Waiting, Over
      <3> QED BY <3>1, Names, GoesOnIsGood
    <2>3. confirmed.dialog = None /\ ~Over(confirmed) BY <1>6 DEF Sane, CallType, Over
    <2> HIDE DEF confirmed
    <2>4. Caused(confirmed) BY <1>0, <1>2 DEF Caused, Keeps, Incoming
    <2>5. Good(_failed(_acceptAndTerminate(confirmed, d, contact)))
      BY <1>0, <1>2, <2>2, <2>4, AcceptAndTerminateIsGood DEF Keeps, Good
    <2>6. Sane(made) /\ Good(made)
      <3>1. Sane(confirmed) /\ ~Incoming(confirmed) BY <1>2, <2>4 DEF Keeps, Caused
      <3>2. Sane(made) BY <2>4, <3>1, DialoguedKeeps DEF Keeps
      <3>3. Good(made) BY <2>2, <2>3, <3>1, DialoguedIsGood
      <3> QED BY <3>2, <3>3
    <2> HIDE DEF made, q
    <2>7. Quiet(made, asks) BY <2>6, FieldIsQuiet
    <2> QED BY <2>1, <2>5, <2>6, <2>7, QuietIsGood
  <1> QED BY <1>3, <1>4, <1>5, <1>6 DEF Sane, CallType
\* The operators of a callee, and those that answer its requests.
LEMMA SendAnswerIsGood ==
  ASSUME NEW x, Sane(x), Good(x), Incoming(x), x.chain = "local", ~Over(x)
  PROVE  Good(SendAnswer(x))
  <1> DEFINE r == [x EXCEPT !.chain = "none", !.tx = "ACCEPTED"]
             t == x.timers \cup {"2xx", "ack"}
             sent == [r EXCEPT !.final = "2xx", !.status = "WAITING_FOR_ACK", !.timers = t]
  <1>1. x.status = "ANSWERED" /\ x.final # "2xx" /\ ~x.astray /\ EndsOf(x) = {}
        /\ ~HeardOf(x, "failed") /\ ~HeardOf(x, "accepted") /\ ~x.is_canceled
    <2>1. x.status = "ANSWERED" /\ x.final # "2xx"
      BY DEF Sane, Agreed, Sides, AnsweredIsOver, Over
    <2>2. ~x.astray /\ EndsOf(x) = {} /\ ~HeardOf(x, "accepted") /\ ~x.is_canceled
      BY <2>1 DEF Good, Truthful, Honest
    <2>3. ~HeardOf(x, "failed") BY <2>2 DEF HeardOf, EndsOf
    <2> QED BY <2>1, <2>2, <2>3
  <1>2. CASE x.tx # "PROCEEDING"
    <2>1. SendAnswer(x) = Dropped(x) BY <1>2 DEF SendAnswer, Dropped
    <2> QED BY <2>1, SendIsQuiet, QuietIsGood
  <1>3. CASE x.tx = "PROCEEDING"
    <2>1. SendAnswer(x) = IF ~Sends THEN _failed(TxOver(r)) ELSE Tell(sent, "accepted")
      BY <1>3 DEF SendAnswer, Sane, CallType
    <2>2. r \in CallType BY Names DEF Sane, CallType
    <2>3. Sane(r)
      BY <1>1, <1>3, <2>2 DEF Sane, CallType, Agreed, ByeInTime, AnsweredIsOver,
         EstablishedIsAnswered, Sides, Incoming
    <2>4. Quiet(x, r) BY DEF Sane, CallType, Quiet, SameTale, SameTables
    <2>5. t \in TimerSets /\ "noAnswer" \notin t
      BY DEF Sane, CallType, TimerSets, Agreed, Sides
    <2> HIDE DEF t
    <2>6. sent \in CallType BY ZenonT(60), <2>2, <2>5, Names DEF CallType
    <2>7. Sane(sent)
      BY <1>3, <2>5, <2>6 DEF Sane, CallType, Agreed, ByeInTime, AnsweredIsOver,
         EstablishedIsAnswered, Sides, Incoming
    <2>8. /\ SameTables(x, sent) /\ sent.told = x.told /\ sent.final = "2xx"
          /\ sent.status = "WAITING_FOR_ACK" /\ sent.astray = x.astray
          /\ sent.is_canceled = x.is_canceled /\ sent.direction = x.direction
      BY DEF Sane, CallType, SameTables
    <2> HIDE DEF sent, r
    <2>9. EndsOf(sent) = EndsOf(x) /\ \A e : HeardOf(sent, e) <=> HeardOf(x, e)
      BY <2>8 DEF EndsOf, HeardOf
    <2>10. Listed(sent)
      BY <1>1, <2>8 DEF Good, Listed, LiveIn, MineOf, LeakOf, Over, SameTables
    <2>11. Good(Tell(sent, "accepted"))
      <3>1. "accepted" \in Events BY DEF Events
      <3>2. Listed(Tell(sent, "accepted"))
        BY <2>7, <2>10, <3>1, TellSays, SameTablesAreListed
      <3>3. Truthful(Tell(sent, "accepted"))
        BY <1>1, <2>7, <2>8, <2>9, <3>1, TellSays DEF Truthful, Honest, Incoming, Over
      <3> QED BY <3>2, <3>3 DEF Good
    <2>12. Sane(TxOver(r)) /\ Good(TxOver(r)) /\ SameTale(r, TxOver(r))
      BY <2>3, <2>4, QuietIsGood, TxOverIsGood, TxOverKeeps, TxOverIsListed DEF Keeps, Good
    <2>13. Good(_failed(TxOver(r)))
      BY <1>1, <2>4, <2>12, FailedIsGood DEF Quiet, SameTale, Over
    <2> QED BY <2>1, <2>11, <2>13
  <1> QED BY <1>2, <1>3
LEMMA ConfirmedIsGood ==
  ASSUME NEW x, Sane(x), Good(x), ~Over(x) \/ x.astray
  PROVE  Good(Confirmed(x))
  <1> DEFINE y == [x EXCEPT !.is_confirmed = TRUE]
  <1>1. Quiet(x, y) BY DEF Sane, CallType, Quiet, SameTale, SameTables
  <1>2. y \in CallType BY DEF Sane, CallType
  <1>3. Sane(y) BY <1>2 DEF Sane, CallType, Agreed, ByeInTime,
             AnsweredIsOver, EstablishedIsAnswered, Sides, Incoming
  <1>4. Confirmed(x) = IF x.is_confirmed THEN x ELSE Tell(y, "confirmed") BY DEF Confirmed
  <1> HIDE DEF y
  <1>5. Good(y) /\ (y.astray \/ EndsOf(y) = {})
    BY <1>1, QuietIsGood DEF Quiet, SameTale, Good, Truthful, Over
  <1>6. Good(Tell(y, "confirmed")) BY <1>3, <1>5, TellIsGood
  <1> QED BY <1>4, <1>6
LEMMA AckIsGood ==
  ASSUME NEW x, Sane(x), Good(x), x.acked, NEW sdp \in BOOLEAN
  PROVE  Good(Ack(x, sdp))
  <1> DEFINE t == x.timers \ {"ack", "2xx"}
             u == [x EXCEPT !.status = "CONFIRMED"]
             heard == [u EXCEPT !.timers = t]
             q == Append(heard.queue, Op("ack", 0))
             asks == [heard EXCEPT !.queue = q]
  <1>1. CASE x.hangup
    <2>1. Ack(x, sdp) = HangUp(x) BY <1>1 DEF Ack
    <2> QED BY <1>1, <2>1, HangUpIsListed, SameTaleIsTrue DEF Good
  <1>2. CASE ~x.hangup /\ x.status # "WAITING_FOR_ACK"
    <2>1. Ack(x, sdp) = x BY <1>2 DEF Ack
    <2> QED BY <2>1
  <1>3. CASE ~x.hangup /\ x.status = "WAITING_FOR_ACK"
    <2>1. Ack(x, sdp) = IF ~x.late_sdp THEN Confirmed(heard)
                        ELSE IF sdp THEN asks ELSE terminate(heard)
      BY <1>3 DEF Ack
    <2>2. t \in TimerSets /\ "noAnswer" \notin t
      BY <1>3 DEF Sane, CallType, TimerSets, Agreed, Sides
    <2> HIDE DEF t
    <2>3. Good(u)
      <3>1. ~Over(x) /\ LiveIn(x) BY <1>3 DEF Over, LiveIn
      <3> QED BY <3>1, Names, GoesOnIsGood
    <2>4. u \in CallType BY Names DEF Sane, CallType
    <2>5. Sane(u)
      BY <1>3, <2>4 DEF Sane, CallType, Agreed, ByeInTime, AnsweredIsOver,
         EstablishedIsAnswered, Sides, Incoming
    <2>6. u.status = "CONFIRMED" BY DEF Sane, CallType
    <2> HIDE DEF u
    <2>7. Quiet(u, heard) BY <2>5, FieldIsQuiet
    <2>8. heard \in CallType BY <2>2, <2>4 DEF CallType
    <2>9. Sane(heard)
      BY <2>2, <2>5, <2>6, <2>8 DEF Sane, CallType, Agreed, ByeInTime, AnsweredIsOver,
         EstablishedIsAnswered, Sides, Incoming
    <2> HIDE DEF heard
    <2>10. Good(heard) /\ ~Over(heard) BY <2>3, <2>6, <2>7, QuietIsGood DEF Quiet, SameTale, Over
    <2>11. Good(Confirmed(heard)) /\ Good(terminate(heard))
      BY <2>9, <2>10, ConfirmedIsGood, TerminateIsGood
    <2> HIDE DEF q
    <2>12. Quiet(heard, asks) BY <2>9, FieldIsQuiet
    <2>13. Good(asks) BY <2>10, <2>12, QuietIsGood
    <2> HIDE DEF asks
    <2>14. Ack(x, sdp) = IF ~x.late_sdp THEN Confirmed(heard)
                        ELSE IF sdp THEN asks ELSE terminate(heard)
      BY <2>1 DEF q
    <2> QED BY <2>11, <2>13, <2>14
  <1> QED BY <1>1, <1>2, <1>3 DEF Sane, CallType
LEMMA ByeIsGood ==
  ASSUME NEW x, Sane(x), Good(x)
  PROVE  Good(Bye(x))
  <1>1. Bye(x) = IF ~x.hangup /\ x.status \in {"CONFIRMED", "WAITING_FOR_ACK"} THEN _ended(x)
                 ELSE IF ~x.hangup /\ x.status = "WAITING_FOR_ANSWER" THEN _ended(Refuse(x))
                 ELSE x
    BY DEF Bye
  <1>2. x.status \in {"CONFIRMED", "WAITING_FOR_ACK"} => Good(_ended(x))
    BY FailedIsGood DEF Over
  <1>3. x.status = "WAITING_FOR_ANSWER" => Good(_ended(Refuse(x)))
    BY FailedRefuseIsGood DEF Over, Sane, Agreed, AnsweredIsOver
  <1> QED BY <1>1, <1>2, <1>3
LEMMA CutIsGood ==
  ASSUME NEW x, Sane(x), Good(x)
  PROVE  Good(Cut(x))
  <1>1. Sane(Rejected(x)) /\ Good(Rejected(x))
    BY RejectedKeeps, QueueIsQuiet, QuietIsGood DEF Keeps
  <1> QED BY <1>1, TerminateIsGood DEF Cut
\* The operators of a change of the call. The 200 of a re-INVITE revives a session.
LEMMA AcceptIsGood ==
  ASSUME NEW x, Sane(x), Good(x), x.direction # "none"
  PROVE  Good(Accept(x))
  <1> DEFINE y(r) == [x EXCEPT !.reinvite = r]
             t == x.timers \cup {"2xx", "ack"}
             waits == [x EXCEPT !.reinvite = "ACCEPTED", !.status = "WAITING_FOR_ACK",
                                !.astray = @ \/ Over(x), !.timers = t]
  <1>1. Accept(x) \in {x, y("TERMINATED"), y("COMPLETED")} \/ (uas_pending(x) /\ Accept(x) = waits)
    BY DEF Accept
  <1>2. Quiet(x, y("TERMINATED")) /\ Quiet(x, y("COMPLETED")) BY FieldIsQuiet
  <1> HIDE DEF y
  <1>3. CASE Accept(x) \in {x, y("TERMINATED"), y("COMPLETED")}
    BY <1>2, <1>3, QuietIsGood
  <1>4. CASE uas_pending(x) /\ Accept(x) = waits
    <2>1. /\ SameTables(x, waits) /\ waits.told = x.told /\ waits.final = x.final
          /\ waits.status = "WAITING_FOR_ACK" /\ (waits.astray <=> x.astray \/ Over(x))
          /\ waits.is_canceled = x.is_canceled /\ waits.connection = x.connection
          /\ waits.answering = x.answering /\ waits.direction = x.direction
      BY DEF Sane, CallType, SameTables
    <2> HIDE DEF waits
    <2>2. Incoming(x) => x.final = "2xx"
      BY <1>4 DEF uas_pending, Sane, Agreed, EstablishedIsAnswered
    <2>3. Over(x) \/ LiveIn(x) \/ x.direction = "outgoing"
      BY <2>2 DEF Sane, CallType, Directions, Agreed, AnsweredIsOver, LiveIn, Over, Incoming
    <2>4. EndsOf(waits) = EndsOf(x) /\ \A e : HeardOf(waits, e) <=> HeardOf(x, e)
      BY <2>1 DEF EndsOf, HeardOf
    <2>5. Truthful(waits)
      <3>1. Honest(waits) BY <2>1, <2>2, <2>4 DEF Good, Truthful, Honest, Incoming
      <3>2. Over(waits) \/ waits.is_canceled => EndsOf(waits) # {}
        BY <2>1, <2>4 DEF Good, Truthful, Over
      <3>3. EndsOf(waits) # {} => waits.astray
        BY <2>1, <2>4 DEF Good, Truthful
      <3> QED BY <2>1, <3>1, <3>2, <3>3 DEF Truthful, Over
    <2>6. Listed(waits)
      BY <2>1, <2>3 DEF Good, Listed, LiveIn, MineOf, LeakOf, Over, SameTables
    <2> QED BY <1>4, <2>5, <2>6 DEF Good
  <1> QED BY <1>1, <1>3, <1>4
LEMMA OfferedIsGood ==
  ASSUME NEW x, Sane(x), Good(x), Incoming(x) => x.final = "2xx", NEW method \in Methods,
         NEW sdp \in BOOLEAN, NEW welcome \in BOOLEAN
  PROVE  Good(Offered(Begin(x, method), sdp, welcome))
  <1>1. ASSUME NEW y, Sane(y) PROVE Quiet(y, Offered(y, sdp, welcome))
    <2> DEFINE late == IF y.method = "INVITE" THEN [y EXCEPT !.late_sdp = ~sdp] ELSE y
               local == [late EXCEPT !.queue = Append(@, Op("relocal", 0))]
               remote == [late EXCEPT !.queue = Append(@, Op("roffer", 0))]
    <2>1. Offered(y, sdp, welcome) \in {y, Decline(y), local, remote}
      BY DEF Offered, Sane, CallType
    <2>2. Quiet(y, local) /\ Quiet(y, remote)
      BY <1>1 DEF Sane, CallType, Quiet, SameTale, SameTables
    <2> HIDE DEF local, remote
    <2>3. Quiet(y, y) BY DEF Quiet, SameTale, SameTables
    <2>4. Quiet(y, Decline(y)) BY <1>1, SendIsQuiet
    <2> QED BY <2>1, <2>2, <2>3, <2>4
  <1>2. Sane(Begin(x, method)) BY BeginKeeps DEF Keeps
  <1>3. Quiet(x, Begin(x, method))
    <2> DEFINE asked == [x EXCEPT !.reinvite = "PROCEEDING", !.method = method]
    <2>1. Quiet(x, asked) BY DEF Sane, CallType, Quiet, SameTale, SameTables
    <2>2. Sane(asked)
      <3>1. asked \in CallType BY ZenonT(60), Names DEF Sane, CallType
      <3> QED BY <3>1 DEF Sane, CallType, Agreed, ByeInTime, AnsweredIsOver,
                 EstablishedIsAnswered, Sides, Incoming
    <2>3. Begin(x, method) = IF x.uac_pending THEN Decline(asked) ELSE asked BY DEF Begin
    <2> HIDE DEF asked
    <2>4. Quiet(asked, Decline(asked)) BY <2>2, SendIsQuiet
    <2> QED BY <2>1, <2>3, <2>4, QuietTwice
  <1> QED BY <1>1, <1>2, <1>3, QuietIsGood
LEMMA OfferIsQuiet ==
  ASSUME NEW x, Sane(x), NEW i, NEW state, NEW b
  PROVE  /\ Quiet(x, Step(x, i, state)) /\ Quiet(x, Final(x, i)) /\ Quiet(x, Abandoned(x))
         /\ Quiet(x, [Step(x, i, state) EXCEPT !.uac_pending = b])
  BY DEF Sane, CallType, Quiet, SameTale, SameTables, Step, Final, Abandoned
LEMMA SendOfferIsGood ==
  ASSUME NEW x, Sane(x), Good(x), NEW i, NEW state, NEW unsent, Good(unsent)
  PROVE  Good(SendOffer(x, i, state, unsent))
  <1>1. PICK b \in BOOLEAN : b OBVIOUS
  <1>2. Quiet(x, [Step(x, i, state) EXCEPT !.uac_pending = b]) BY OfferIsQuiet
  <1>3. SendOffer(x, i, state, unsent) =
          IF Sends THEN [Step(x, i, state) EXCEPT !.uac_pending = b] ELSE unsent
    BY <1>1 DEF SendOffer
  <1> QED BY <1>2, <1>3, QuietIsGood

(***************************************************************************)
(* The steps, of what is told and what is listed.                           *)
(***************************************************************************)
LEMMA BlankIsGood ==
  ASSUME NEW x, Blank(x)
  PROVE  Good(x)
  BY DEF Blank, Good, Truthful, Honest, Listed, EndsOf, HeardOf, LiveIn, MineOf, LeakOf, Over,
     Incoming
LEMMA TerminateStays == CallInv /\ Good(session) /\ Terminate => Good(session')
  BY TerminateIsGood DEF CallInv, Terminate
LEMMA DisconnectStays ==
  CallInv /\ Good(session) /\ onTransportDisconnect => Good(session')
  <1> SUFFICES ASSUME Sane(session), Good(session), onTransportDisconnect PROVE Good(session')
    BY DEF CallInv
  <1> DEFINE ends == IF Unanswered(session) THEN terminate(session) ELSE session
             over == IF session.tx \in {"none", "TERMINATED"} THEN ends ELSE TxOver(ends)
  <1>1. session' = Abandoned(over) BY DEF onTransportDisconnect
  <1>2. Sane(ends) /\ Good(ends) BY TerminateKeeps, TerminateIsGood DEF Keeps
  <1> HIDE DEF ends
  <1>3. Sane(over) /\ Good(over) BY <1>2, TxOverKeeps, TxOverIsGood DEF Keeps
  <1> HIDE DEF over
  <1>4. Quiet(over, Abandoned(over)) BY <1>3, OfferIsQuiet
  <1> QED BY <1>1, <1>3, <1>4, QuietIsGood
LEMMA ConnectIsTold == CallInv /\ connect => Good(session')
  <1> SUFFICES ASSUME CallInv, connect PROVE Good(session') OBVIOUS
  <1> DEFINE y == [session EXCEPT !.direction = "outgoing", !.connection = "open",
                                  !.chain = "media", !.sessions = TRUE]
  <1>1. session' = Tell(y, "new") /\ Sane(session) /\ Blank(session)
    BY DEF connect, CallInv, Fresh
  <1>2. y \in CallType BY ZenonT(60), <1>1, Names DEF Sane, CallType, Directions, Connections
  <1>3. \A o : ~Holds(session.queue, o) BY <1>1, Nothing DEF Blank
  <1>4. Sane(y)
    BY <1>1, <1>2, <1>3 DEF Sane, CallType, Blank, Agreed, ByeInTime, AnsweredIsOver,
       EstablishedIsAnswered, Sides, Incoming
  <1>5. y.direction = "outgoing" /\ y.sessions /\ y.told = <<>> /\ y.dialogs = {}
        /\ y.dialog = None /\ y.early = {} /\ y.status = "NULL" /\ ~y.is_canceled
        /\ ~y.hangup /\ ~y.astray
    BY <1>1 DEF Sane, CallType, Blank
  <1> HIDE DEF y
  <1>6. Good(y) /\ EndsOf(y) = {}
    BY <1>5 DEF Good, Truthful, Honest, Listed, EndsOf, HeardOf, LiveIn, MineOf, LeakOf, Over,
       Incoming
  <1> QED BY <1>1, <1>4, <1>6, TellIsGood
LEMMA IncomingIsTold == CallInv /\ init_incoming => Good(session')
  <1> SUFFICES ASSUME CallInv, init_incoming PROVE Good(session') OBVIOUS
  <1> DEFINE asked == [session EXCEPT !.direction = "incoming", !.tx = "PROCEEDING"]
             t(expires) == IF expires THEN {"noAnswer", "expires"} ELSE {"noAnswer"}
  <1>1. Sane(session) /\ Blank(session) BY DEF init_incoming, CallInv, Fresh
  <1>2. \A o : ~Holds(session.queue, o) BY <1>1, Nothing DEF Blank
  <1>3. asked \in CallType BY <1>1, Names DEF Sane, CallType, Directions
  <1>4. Sane(asked)
    BY <1>1, <1>2, <1>3 DEF Sane, CallType, Blank, Agreed, ByeInTime, AnsweredIsOver,
       EstablishedIsAnswered, Sides, Incoming
  <1>5. /\ asked.direction = "incoming" /\ asked.chain = "none" /\ ~asked.bye
        /\ asked.final = "none" /\ asked.reinvite = "none" /\ asked.dialog = None
        /\ asked.told = <<>> /\ asked.dialogs = {} /\ asked.early = {} /\ asked.forks = {}
        /\ asked.status = "NULL" /\ ~asked.is_canceled /\ ~asked.hangup /\ ~asked.astray
        /\ ~asked.sessions
    BY <1>1 DEF Blank, Sane, CallType
  <1>6. \/ session' = Refuse(asked)
        \/ session' = Refuse(_failed(asked))
        \/ \E sdp, expires \in BOOLEAN :
             session' \in {terminate(Arrives(asked, sdp, expires)),
                           Arrives(asked, sdp, expires), TxOver(Arrives(asked, sdp, expires))}
    BY DEF init_incoming
  <1> HIDE DEF asked
  <1>7. Good(asked)
    BY <1>5 DEF Good, Truthful, Honest, Listed, EndsOf, HeardOf, LiveIn, MineOf, LeakOf, Over,
       Incoming
  <1>8. Good(Refuse(asked)) BY <1>4, <1>7, RefuseIsGood
  <1>9. Sane(_failed(asked)) /\ Good(_failed(asked))
    BY <1>4, <1>5, <1>7, FailedKeeps, FailedIsGood DEF Keeps, Over
  <1>10. Good(Refuse(_failed(asked))) BY <1>9, RefuseIsGood
  <1>11. ASSUME NEW sdp \in BOOLEAN, NEW expires \in BOOLEAN
         PROVE  Sane(Arrives(asked, sdp, expires)) /\ Good(Arrives(asked, sdp, expires))
    <2> DEFINE u == t(expires)
               a == [asked EXCEPT !.status = "WAITING_FOR_ANSWER", !.early = {Caller},
                                  !.dialogs = {Caller}]
               b == [a EXCEPT !.late_sdp = ~sdp, !.sessions = TRUE, !.timers = u]
    <2>1. u \in TimerSets BY DEF TimerSets
    <2>2. Arrives(asked, sdp, expires) = Tell(b, "new") BY DEF Arrives
    <2> HIDE DEF u
    <2>3. a \in CallType BY <1>4, Constants, Names DEF Sane, CallType
    <2>4. b \in CallType
      <3> HIDE DEF a
      <3> QED BY ZenonT(60), <2>1, <2>3 DEF CallType
    <2>5. Sane(b)
      BY <2>4, <1>4, <1>5 DEF Sane, CallType, Agreed, ByeInTime, AnsweredIsOver,
         EstablishedIsAnswered, Sides, Incoming
    <2>6. /\ b.direction = "incoming" /\ b.final = "none" /\ b.dialog = None
          /\ b.told = <<>> /\ b.dialogs = {Caller} /\ b.early = {Caller} /\ b.forks = {}
          /\ b.status = "WAITING_FOR_ANSWER" /\ ~b.is_canceled /\ ~b.hangup /\ ~b.astray
          /\ b.sessions
      BY <1>4, <1>5 DEF Sane, CallType
    <2> HIDE DEF b
    <2>7. Caller # None BY DialogAssumption
    <2>8. Listed(b) BY <2>6, <2>7 DEF Listed, LiveIn, MineOf, LeakOf, Over
    <2>9. Truthful(b) /\ EndsOf(b) = {}
      BY <2>6 DEF Truthful, Honest, EndsOf, HeardOf, Over, Incoming
    <2>10. Good(Tell(b, "new")) BY <2>5, <2>8, <2>9, TellIsGood DEF Good
    <2>11. Sane(Tell(b, "new")) BY <2>5, TellKeeps DEF Keeps, Events
    <2> QED BY <2>2, <2>10, <2>11
  <1> QED BY <1>6, <1>8, <1>10, <1>11, TerminateIsGood, TxOverIsGood
LEMMA answerStays == CallInv /\ Good(session) /\ answer => Good(session')
  <1> SUFFICES ASSUME Sane(session), Good(session), answer PROVE Good(session') BY DEF CallInv
  <1> DEFINE e == session.early \ {Caller}
             t == session.timers \ {"noAnswer"}
             y == [session EXCEPT !.status = "ANSWERED", !.dialog = Caller, !.early = e,
                                  !.timers = t, !.connection = "open", !.chain = "media"]
  <1>1. session.status = "WAITING_FOR_ANSWER" BY DEF answer
  <1>2. session' = y BY DEF answer, Sane, CallType
  <1>3. /\ y.status = "ANSWERED" /\ y.dialog = Caller /\ y.early = session.early \ {Caller}
        /\ y.told = session.told /\ y.final = session.final /\ y.astray = session.astray
        /\ y.is_canceled = session.is_canceled /\ y.direction = session.direction
        /\ y.sessions = session.sessions /\ y.dialogs = session.dialogs
        /\ y.forks = session.forks /\ y.hangup = session.hangup
    BY DEF Sane, CallType
  <1> HIDE DEF y
  <1>4. EndsOf(y) = EndsOf(session) /\ \A f : HeardOf(y, f) <=> HeardOf(session, f)
    BY <1>3 DEF EndsOf, HeardOf
  <1>5. Truthful(y) BY <1>1, <1>3, <1>4 DEF Good, Truthful, Honest, Incoming, Over
  <1>6. session.early = {Caller} /\ session.dialog = None BY <1>1 DEF Good, Listed
  <1>7. MineOf(y) = {Caller} \ {None} /\ MineOf(session) = {Caller} \ {None}
    BY <1>3, <1>6 DEF MineOf
  <1>8. LeakOf(y) = LeakOf(session) BY <1>3 DEF LeakOf
  <1>9. Listed(y) BY <1>1, <1>3, <1>7, <1>8 DEF Good, Listed, LiveIn, Over
  <1> QED BY <1>2, <1>5, <1>9 DEF Good
LEMMA ResponsesStay ==
  CallInv /\ Good(session) /\ (ReceiveProvisional \/ ReceiveAccepted \/ ReceiveRefused)
    => Good(session')
  <1> SUFFICES ASSUME Sane(session), Good(session),
                      ReceiveProvisional \/ ReceiveAccepted \/ ReceiveRefused
               PROVE  Good(session')
    BY DEF CallInv
  <1>0. session.ends \subseteq Dialogs /\ session.ends \cup {None} \subseteq End
    BY DEF Sane, CallType, Ends, End
  <1>1. ASSUME NEW state \in TxStates, session.direction = "outgoing"
        PROVE  /\ Sane([session EXCEPT !.tx = state]) /\ Good([session EXCEPT !.tx = state])
               /\ ~Incoming([session EXCEPT !.tx = state])
    <2>1. [session EXCEPT !.tx = state] \in CallType BY DEF Sane, CallType
    <2>2. Quiet(session, [session EXCEPT !.tx = state]) BY FieldIsQuiet
    <2>3. Good([session EXCEPT !.tx = state]) BY <2>2, QuietIsGood
    <2> QED BY <1>1, <2>1, <2>3 DEF Sane, CallType, Agreed, ByeInTime, AnsweredIsOver,
         EstablishedIsAnswered, Sides, Incoming
  <1>2. CASE ReceiveProvisional
    <2>1. PICK code \in {"100", "1xx"}, d \in End, contact \in BOOLEAN, sdp \in BOOLEAN :
            /\ session.direction = "outgoing"
            /\ session' = Provisional([session EXCEPT !.tx = "PROCEEDING"], code, d, contact, sdp)
      BY <1>0, <1>2 DEF ReceiveProvisional
    <2> DEFINE y == [session EXCEPT !.tx = "PROCEEDING"]
    <2>2. Sane(y) /\ Good(y) /\ ~Incoming(y) BY <1>1, <2>1, Names
    <2>3. session' = Provisional(y, code, d, contact, sdp) BY <2>1
    <2> HIDE DEF y
    <2> QED BY <2>2, <2>3, ProvisionalIsGood
  <1>3. CASE ReceiveAccepted
    <2>1. PICK d \in Dialogs, contact \in BOOLEAN, sdp \in BOOLEAN :
            /\ session.direction = "outgoing"
            /\ session' = Accepted([session EXCEPT !.tx = "ACCEPTED", !.accepted = @ \cup {d}],
                                   d, contact, sdp)
      BY <1>0, <1>3 DEF ReceiveAccepted
    <2> DEFINE s == session.accepted \cup {d}
               y == [session EXCEPT !.tx = "ACCEPTED", !.accepted = s]
    <2>2. s \in Ends /\ s # {} BY DEF Sane, CallType, Ends
    <2> HIDE DEF s
    <2>3. y \in CallType BY ZenonT(60), <2>2, Names DEF Sane, CallType
    <2>4. Sane(y) /\ y.direction = "outgoing" /\ y.accepted # {}
      BY <2>1, <2>2, <2>3 DEF Sane, CallType, Agreed, ByeInTime, AnsweredIsOver,
         EstablishedIsAnswered, Sides, Incoming
    <2>5. Quiet(session, y) BY DEF Sane, CallType, Quiet, SameTale, SameTables
    <2>6. session' = Accepted(y, d, contact, sdp) BY <2>1 DEF s
    <2> HIDE DEF y
    <2>7. Good(y) BY <2>5, QuietIsGood
    <2> QED BY <2>4, <2>6, <2>7, AcceptedIsGood
  <1>4. CASE ReceiveRefused
    <2>1. /\ session.direction = "outgoing"
          /\ session' = Refused([session EXCEPT !.tx = "COMPLETED"])
      BY <1>4 DEF ReceiveRefused
    <2> QED BY <1>1, <2>1, RefusedIsGood, Names
  <1> QED BY <1>2, <1>3, <1>4

LEMMA RequestsStay ==
  CallInv /\ Good(session) /\ (ReceiveCancel \/ ReceiveAck \/ ReceiveBye) => Good(session')
  <1> SUFFICES ASSUME Sane(session), Good(session), ReceiveCancel \/ ReceiveAck \/ ReceiveBye
               PROVE  Good(session')
    BY DEF CallInv
  <1>1. CASE ReceiveCancel
    <2>1. session' = IF session.status \in {"WAITING_FOR_ANSWER", "ANSWERED"}
                     THEN _failed(Refuse(session)) ELSE session
      BY <1>1 DEF ReceiveCancel
    <2>2. session.status \in {"WAITING_FOR_ANSWER", "ANSWERED"} => Good(_failed(Refuse(session)))
      BY FailedRefuseIsGood DEF Over, Sane, Agreed, AnsweredIsOver
    <2> QED BY <2>1, <2>2
  <1>2. CASE ReceiveAck
    <2> DEFINE y == [session EXCEPT !.acked = TRUE]
    <2>1. PICK sdp \in BOOLEAN : session' = Ack(y, sdp) BY <1>2 DEF ReceiveAck
    <2>2. y \in CallType BY DEF Sane, CallType
    <2>3. Sane(y) /\ y.acked
      BY <2>2 DEF Sane, CallType, Agreed, ByeInTime, AnsweredIsOver,
         EstablishedIsAnswered, Sides, Incoming
    <2>4. Quiet(session, y) BY DEF Sane, CallType, Quiet, SameTale, SameTables
    <2> HIDE DEF y
    <2> QED BY <2>1, <2>3, <2>4, QuietIsGood, AckIsGood
  <1>3. CASE ReceiveBye
    <2>1. session' = Bye(session) BY <1>3 DEF ReceiveBye
    <2> QED BY <2>1, ByeIsGood
  <1> QED BY <1>1, <1>2, <1>3

\* What still waits for the browser: no answer() after the 200, no open connection after
\* the end.
LEMMA WaitsIsUnanswered ==
  ASSUME NEW x, Sane(x), Good(x)
  PROVE  /\ x.chain # "none" => ~(Incoming(x) /\ x.final = "2xx")
         /\ x.connection = "open" \/ x.answering => ~Over(x) \/ x.astray
  BY DEF Sane, Agreed, AnsweredIsOver, Good, Truthful
LEMMA MediaStays ==
  CallInv /\ Good(session) /\ MediaSteps => Good(session')
  <1> SUFFICES ASSUME CallInv, Good(session), MediaSteps PROVE Good(session') OBVIOUS
  <1> Sane(session) BY DEF CallInv
  <1> DEFINE d == Dropped(session)
  <1>1. Sane(d) /\ Good(d) /\ Quiet(session, d)
    BY DroppedKeeps, SendIsQuiet, QuietIsGood DEF Keeps
  <1>2. session.chain # "none" => ~(Incoming(d) /\ d.final = "2xx")
    BY <1>1, WaitsIsUnanswered DEF Quiet, SameTale, Incoming
  <1>3. d = Dropped(session) OBVIOUS
  <1> HIDE DEF d
  <1>4. Good(Refuse(d)) BY <1>1, RefuseIsGood
  <1>5. session.chain # "none" /\ (~Over(session) \/ session.astray) =>
          Good(_failed(Refuse(d))) /\ Good(_failed(d))
    BY <1>1, <1>2, FailedRefuseIsGood, FailedIsGood DEF Quiet, SameTale, Over
  <1>6. ASSUME NEW c PROVE Good([session EXCEPT !.chain = c])
    <2>1. Quiet(session, [session EXCEPT !.chain = c]) BY FieldIsQuiet
    <2> QED BY <2>1, QuietIsGood
  <1>7. CASE \E granted \in BOOLEAN : Media(granted)
    <2>1. PICK granted \in BOOLEAN : Media(granted) BY <1>7
    <2> DEFINE c == IF session.direction = "incoming" /\ ~session.late_sdp THEN "remote" ELSE "local"
    <2>2. session.chain = "media" BY <2>1 DEF Media
    <2>3. \/ session' \in {d, [session EXCEPT !.chain = c]}
          \/ ~Over(session) /\ session' = _failed(Refuse(d))
      BY <1>3, <2>1 DEF Media
    <2> HIDE DEF c
    <2> QED BY <1>1, <1>5, <1>6, <2>2, <2>3
  <1>8. CASE \E set \in BOOLEAN : RemoteDescription(set)
    <2>1. /\ session.chain = "remote" /\ session.connection = "open"
          /\ session' \in {[session EXCEPT !.chain = "local"], _failed(Refuse(d))}
      BY <1>3, <1>8 DEF RemoteDescription
    <2> QED BY <1>5, <1>6, <2>1, WaitsIsUnanswered
  <1>9. CASE LocalDescription
    <2>1. session.chain = "local" BY <1>9 DEF LocalDescription
    <2>2. CASE Over(session)
      <3>1. session' = d BY <1>3, <1>9, <2>2 DEF LocalDescription
      <3> QED BY <1>1, <3>1
    <2>3. CASE ~Over(session) /\ session.direction = "incoming"
      <3> DEFINE r == RunSessionTimer(session)
      <3>1. session' = SendAnswer(r) BY <1>9, <2>3 DEF LocalDescription
      <3>2. r.chain = "local" BY <2>1 DEF RunSessionTimer, Sane, CallType
      <3>3. Sane(r) /\ Quiet(session, r) BY RunSessionTimerKeeps, SendIsQuiet DEF Keeps
      <3> HIDE DEF r
      <3>4. Good(r) /\ Incoming(r) /\ ~Over(r)
        BY <2>3, <3>3, QuietIsGood DEF Quiet, SameTale, Incoming, Over
      <3> QED BY <3>1, <3>2, <3>3, <3>4, SendAnswerIsGood
    <2>4. CASE ~Over(session) /\ session.direction # "incoming"
      <3>1. session' = SendInvite(session) BY <1>9, <2>4 DEF LocalDescription
      <3>2. session.direction # "none" BY <2>1 DEF CallInv, Fresh, Blank
      <3>3. session.direction = "outgoing" BY <2>4, <3>2 DEF Sane, CallType, Directions
      <3> QED BY <2>4, <3>1, <3>3, SendInviteIsGood
    <2> QED BY <2>2, <2>3, <2>4
  <1>10. CASE NoLocalDescription
    <2>1. /\ session.chain = "local" /\ session.connection = "open"
          /\ session' \in {Refuse(d), _failed(d)}
      BY <1>3, <1>10 DEF NoLocalDescription
    <2> QED BY <1>4, <1>5, <2>1, WaitsIsUnanswered
  <1> QED BY <1>7, <1>8, <1>9, <1>10 DEF MediaSteps

LEMMA HeadIsGood ==
  Sane(session) /\ Good(session) /\ session.queue # <<>> =>
    Sane(Settled(session)) /\ Good(Settled(session)) /\ Quiet(session, Settled(session))
  BY HeadKeeps, QueueIsQuiet, QuietIsGood DEF Keeps
LEMMA AnswersStay ==
  CallInv /\ Good(session) /\ AnswersSteps => Good(session')
  <1> SUFFICES ASSUME Sane(session), Good(session), AnswersSteps PROVE Good(session') BY DEF CallInv
  <1>1. ASSUME session.queue # <<>>, session.connection = "open"
        PROVE  Good(Confirmed(Settled(session))) /\ Good(Cut(Settled(session)))
    <2> DEFINE s == Settled(session)
    <2>1. Sane(s) /\ Good(s) /\ Quiet(session, s) BY <1>1, HeadIsGood
    <2> HIDE DEF s
    <2>2. ~Over(s) \/ s.astray BY <1>1, <2>1, WaitsIsUnanswered DEF Quiet, SameTale, Over
    <2>3. Good(Confirmed(s)) /\ Good(Cut(s)) BY <2>1, <2>2, ConfirmedIsGood, CutIsGood
    <2> QED BY <2>3 DEF s
  <1>5. CASE \E done \in BOOLEAN : AnswerInAck(done) \/ SetAnswer(done)
    <2>1. /\ session.queue # <<>> /\ session.connection = "open"
          /\ session' \in {Confirmed(Settled(session)), Settled(session), Cut(Settled(session))}
      BY <1>5 DEF AnswerInAck, SetAnswer, HeadIs
    <2> QED BY <1>1, <2>1, HeadIsGood
  <1>6. CASE \E done \in BOOLEAN : Progress(done)
    <2>1. PICK done \in BOOLEAN : Progress(done) BY <1>6
    <2> DEFINE y == Settled(session)
               b == y.stable \/ done
    <2>2. session.queue # <<>> /\ session' = [y EXCEPT !.stable = b]
      BY <2>1 DEF Progress, HeadIs
    <2>3. Sane(y) /\ Good(y) BY <2>2, HeadIsGood
    <2> HIDE DEF y, b
    <2>4. Quiet(y, [y EXCEPT !.stable = b]) BY <2>3, FieldIsQuiet
    <2> QED BY <2>2, <2>3, <2>4, QuietIsGood
  <1>7. CASE \E done \in BOOLEAN : RenewOffer(done)
    <2> DEFINE s == Settled(session)
               y == [s EXCEPT !.stable = FALSE, !.answering = TRUE]
    <2>1. HeadIs("offer") /\ session.connection = "open"
      BY <1>7 DEF RenewOffer
    <2>2. session' \in {y, _failed(_acceptAndTerminate(y, y.dialog, TRUE))}
      BY <1>7 DEF RenewOffer
    <2>3. session.queue # <<>> /\ Holds(session.queue, "offer")
      BY <2>1, Taken DEF HeadIs, Sane, CallType
    <2>4. session.direction = "outgoing" /\ session.accepted # {} /\ session.dialog # None
      BY <2>1, <2>3 DEF Sane, Agreed, Sides
    <2>5. Keeps(session, s) BY HeadKeeps, <2>3
    <2>6. Good(s) /\ Quiet(session, s) BY <2>3, HeadIsGood
    <2> HIDE DEF s
    <2>7. y \in CallType BY ZenonT(60), <2>5 DEF Keeps, Sane, CallType
    <2>8. Sane(y) /\ y.dialog # None
      BY <2>4, <2>5, <2>6, <2>7 DEF Keeps, Sane, CallType, Agreed, ByeInTime, AnsweredIsOver,
         EstablishedIsAnswered, Sides, Incoming, Quiet, SameTables
    <2>9. /\ SameTables(s, y) /\ y.told = s.told /\ y.final = s.final /\ y.status = s.status
          /\ y.astray = s.astray /\ y.is_canceled = s.is_canceled /\ y.connection = "open"
          /\ y.direction = s.direction /\ y.accepted = session.accepted
      BY <2>1, <2>5, <2>6 DEF Keeps, Sane, CallType, SameTables, Quiet, SameTale
    <2> HIDE DEF y
    <2>10. EndsOf(y) = EndsOf(s) /\ \A e : HeardOf(y, e) <=> HeardOf(s, e)
      BY <2>9 DEF EndsOf, HeardOf
    <2>11. Good(y)
      <3>1. Listed(y) BY <2>6, <2>9, SameTablesAreListed DEF Good
      <3>2. ~Over(s) \/ s.astray
        BY <2>1, <2>6, WaitsIsUnanswered DEF Quiet, SameTale, Over
      <3>3. Truthful(y) BY <2>6, <2>9, <2>10, <3>2 DEF Good, Truthful, Honest, Incoming, Over
      <3> QED BY <3>1, <3>3 DEF Good
    <2>12. Caused(y) /\ y.dialog \in End
      BY <2>4, <2>6, <2>8, <2>9 DEF Caused, Incoming, Sane, CallType, Quiet, SameTale
    <2>13. Good(_failed(_acceptAndTerminate(y, y.dialog, TRUE)))
      BY <2>8, <2>11, <2>12, AcceptAndTerminateIsGood DEF Good
    <2> QED BY <2>2, <2>11, <2>13
  <1>8. CASE \E done \in BOOLEAN : RemoteAnswer(done)
    <2> DEFINE y == [session EXCEPT !.answering = FALSE]
               r == RunSessionTimer(y)
               t == Tell(r, "accepted")
               a == SendAck(t)
    <2>1. session.answering /\ session' \in {Confirmed(a), _failed(_acceptAndTerminate(y, y.dialog, TRUE))}
      BY <1>8 DEF RemoteAnswer
    <2>2. session.direction = "outgoing" /\ session.accepted # {} /\ session.dialog # None
      BY <2>1 DEF Sane, Agreed, Sides
    <2>3. y \in CallType BY DEF Sane, CallType
    <2>4. Sane(y) /\ y.dialog # None
      BY <2>2, <2>3 DEF Sane, CallType, Agreed, ByeInTime, AnsweredIsOver,
         EstablishedIsAnswered, Sides, Incoming
    <2>5. /\ SameTables(session, y) /\ y.told = session.told /\ y.final = session.final
          /\ y.status = session.status /\ y.astray = session.astray /\ ~y.answering
          /\ y.is_canceled = session.is_canceled /\ y.connection = session.connection
          /\ y.direction = session.direction /\ y.accepted = session.accepted
      BY DEF Sane, CallType, SameTables
    <2> HIDE DEF y
    <2>6. EndsOf(y) = EndsOf(session) /\ \A e : HeardOf(y, e) <=> HeardOf(session, e)
      BY <2>5 DEF EndsOf, HeardOf
    <2>7. Listed(y) BY <2>5, SameTablesAreListed DEF Good
    <2>8. ~Over(y) \/ y.astray BY <2>1, <2>5, WaitsIsUnanswered DEF Over
    <2>9. Good(y)
      <3>1. Truthful(y) BY <2>5, <2>6 DEF Good, Truthful, Honest, Incoming, Over
      <3> QED BY <2>7, <3>1 DEF Good
    <2>10. Sane(r) /\ Quiet(y, r) BY <2>4, RunSessionTimerKeeps, SendIsQuiet DEF Keeps
    <2> HIDE DEF r
    <2>11. Good(r) /\ (~Over(r) \/ r.astray) /\ r.direction = "outgoing"
      BY <2>2, <2>5, <2>8, <2>9, <2>10, QuietIsGood DEF Quiet, SameTale, Over
    <2>12. r.astray \/ EndsOf(r) = {} BY <2>11 DEF Good, Truthful
    <2>13. Good(t) BY <2>10, <2>11, <2>12, TellIsGood DEF Incoming
    <2>14. Sane(t) /\ (~Over(t) \/ t.astray)
      BY <2>10, <2>11, TellKeeps, TellSays DEF Keeps, Events, Over
    <2> HIDE DEF t
    <2>15. Sane(a) /\ Quiet(t, a) BY <2>14, SendAckKeeps, SendIsQuiet DEF Keeps
    <2> HIDE DEF a
    <2>16. Good(a) /\ (~Over(a) \/ a.astray)
      BY <2>13, <2>14, <2>15, QuietIsGood DEF Quiet, SameTale, Over
    <2>17. Good(Confirmed(a)) BY <2>15, <2>16, ConfirmedIsGood
    <2>18. Caused(y) /\ y.dialog \in End
      BY <2>2, <2>4, <2>5 DEF Caused, Incoming, Sane, CallType
    <2>19. Good(_failed(_acceptAndTerminate(y, y.dialog, TRUE)))
      BY <2>4, <2>7, <2>18, AcceptAndTerminateIsGood
    <2> QED BY <2>1, <2>17, <2>19
  <1> QED BY <1>5, <1>6, <1>7, <1>8 DEF AnswersSteps
LEMMA OffersStepsStay ==
  CallInv /\ Good(session) /\ OffersSteps => Good(session')
  <1> SUFFICES ASSUME CallInv, Good(session), OffersSteps PROVE Good(session') OBVIOUS
  <1> Sane(session) BY DEF CallInv
  <1> DEFINE s == Settled(session)
  <1>1. session.queue # <<>>
    BY DEF OffersSteps, SetOffer, MakeAnswer, MakeOffer, MakeNothing, LocalOffer, HeadIs
  <1>2. Sane(s) /\ Good(s) /\ Quiet(session, s) BY <1>1, HeadIsGood
  <1>3. session.direction # "none" BY <1>1 DEF CallInv, Fresh, Blank
  <1>4. s.direction # "none" BY <1>2, <1>3 DEF Quiet, SameTale
  <1>5. s = Settled(session) OBVIOUS
  <1> HIDE DEF s
  <1>6. ASSUME NEW x, Sane(x), Good(x) PROVE Good(Decline(x)) /\ Good(RunSessionTimer(x))
    BY <1>6, SendIsQuiet, QuietIsGood
  <1>7. CASE \E done \in BOOLEAN : SetOffer(done)
    <2> DEFINE q == <<Op("ranswer", 0)>> \o Tail(session.queue)
               d == Decline(s)
    <2>1. session' \in {[session EXCEPT !.queue = q], RunSessionTimer(d)}
      BY <1>5, <1>7 DEF SetOffer
    <2> HIDE DEF q
    <2>2. Quiet(session, [session EXCEPT !.queue = q]) BY FieldIsQuiet
    <2>3. Sane(d) /\ Good(d) BY <1>2, <1>6, DeclineKeeps DEF Keeps
    <2> HIDE DEF d
    <2> QED BY <1>6, <2>1, <2>2, <2>3, QuietIsGood
  <1>8. CASE MakeAnswer \/ MakeOffer
    <2> DEFINE r == RunSessionTimer(s)
    <2>1. session' \in {s, Accept(r)} BY <1>5, <1>8 DEF MakeAnswer, MakeOffer
    <2>2. Sane(r) /\ Good(r) /\ Quiet(s, r)
      BY <1>2, <1>6, RunSessionTimerKeeps, SendIsQuiet DEF Keeps
    <2> HIDE DEF r
    <2>3. r.direction # "none" BY <1>4, <2>2 DEF Quiet, SameTale
    <2> QED BY <1>2, <2>1, <2>2, <2>3, AcceptIsGood
  <1>9. CASE MakeNothing
    <2>1. PICK broken \in BOOLEAN :
            LET failed == Decline([s EXCEPT !.rtc_broken = @ \/ broken])
            IN  session' = IF HeadIs("ranswer") THEN RunSessionTimer(failed) ELSE failed
      BY <1>5, <1>9 DEF MakeNothing
    <2> DEFINE b == s.rtc_broken \/ broken
               y == [s EXCEPT !.rtc_broken = b]
               d == Decline(y)
    <2>2. session' \in {d, RunSessionTimer(d)} BY <2>1
    <2>3. b \in BOOLEAN BY <1>2 DEF Sane, CallType
    <2> HIDE DEF b
    <2>4. Sane(y) /\ Quiet(s, y) BY <1>2, <2>3, FlagsKeep, FieldIsQuiet DEF Keeps
    <2> HIDE DEF y
    <2>5. Sane(d) /\ Good(d) BY <1>2, <1>6, <2>4, DeclineKeeps, QuietIsGood DEF Keeps
    <2> HIDE DEF d
    <2> QED BY <1>6, <2>2, <2>5
  <1>10. CASE \E done \in BOOLEAN : LocalOffer(done)
    <2> DEFINE i == Head(session.queue).offer
               over == Step(s, i, "over")
               y(b) == [over EXCEPT !.rtc_broken = b]
    <2>1. Head(session.queue).op = "reoffer" BY <1>10 DEF LocalOffer, HeadIs
    <2>2. \/ session' \in {over, SendOffer(s, i, "sent", Cut(over))}
          \/ \E broken \in BOOLEAN : session' = Cut(y(over.rtc_broken \/ broken))
      BY <1>5, <1>10 DEF LocalOffer
    <2>3. i \in Offers BY <1>1, <2>1, Taken DEF Sane, CallType, Entries
    <2>a. Asks(session.queue, i) /\ Once(session.queue, i) /\ session.offers[i] = "queued"
      BY <1>1, <2>1, <2>3, Taken DEF Sane, CallType, Agreed, Tidy
    <2>b. ~Asks(s.queue, i) /\ s.offers = session.offers
      BY <1>1, <1>5, <2>1, <2>3, <2>a, Taken, Kept, Constants
         DEF Settled, Rejected, Decline, Sane, CallType
    <2> HIDE DEF i
    <2>4. Sane(over) /\ Quiet(s, over)
      BY <1>2, <2>3, <2>a, <2>b, StepKeeps, OfferIsQuiet DEF Keeps, OfferStates
    <2> HIDE DEF over
    <2>5. Good(over) /\ Good(Cut(over)) BY <1>2, <2>4, QuietIsGood, CutIsGood
    <2>6. Good(SendOffer(s, i, "sent", Cut(over))) BY <1>2, <2>5, SendOfferIsGood
    <2>7. ASSUME NEW b \in BOOLEAN PROVE Good(Cut(y(b)))
      <3>1. Sane(y(b)) /\ Quiet(over, y(b)) BY <2>4, FlagsKeep, FieldIsQuiet DEF Keeps
      <3> HIDE DEF y
      <3> QED BY <2>5, <3>1, QuietIsGood, CutIsGood
    <2>8. \A broken \in BOOLEAN : (over.rtc_broken \/ broken) \in BOOLEAN OBVIOUS
    <2> HIDE DEF y
    <2> QED BY <2>2, <2>5, <2>6, <2>7, <2>8
  <1> QED BY <1>7, <1>8, <1>9, <1>10 DEF OffersSteps
LEMMA BrowserStays == CallInv /\ Good(session) /\ Browser => Good(session')
  BY MediaStays, AnswersStay, OffersStepsStay
     DEF Browser, MediaSteps, AnswersSteps, OffersSteps

LEMMA OwnChangeStays ==
  ASSUME CallInv, Good(session), NEW i \in Offers,
         renegotiate(i) \/ OfferAccepted(i) \/ OfferRefused(i) \/ OfferCrossed(i) \/ Reattempt(i)
  PROVE  Good(session')
  <1> Sane(session) BY DEF CallInv
  <1> DEFINE f == Final(session, i)
  <1>1. Sent(i) => Sane(f)
    <2>1. Sent(i) => ~Asks(session.queue, i) BY NotAsked DEF Sent
    <2> QED BY <2>1, FinalKeeps DEF Keeps
  <1>2. Good(f)
    <2>1. Quiet(session, f) BY OfferIsQuiet
    <2> QED BY <2>1, QuietIsGood
  <1>3. f = Final(session, i) OBVIOUS
  <1> HIDE DEF f
  <1>4. CASE renegotiate(i)
    <2> DEFINE s == Step(session, i, "queued")
               q == Append(s.queue, Op("reoffer", i))
    <2>1. session' = [s EXCEPT !.queue = q] BY <1>4 DEF renegotiate
    <2>2. session.offers[i] = "none" BY <1>4 DEF renegotiate
    <2>3. Sane(s) BY <2>2, NotAsked, StepKeeps DEF OfferStates, Keeps
    <2>4. Quiet(session, s) BY OfferIsQuiet
    <2> HIDE DEF s, q
    <2>5. Quiet(s, [s EXCEPT !.queue = q]) BY <2>3, FieldIsQuiet
    <2> QED BY <2>1, <2>4, <2>5, QuietIsGood
  <1>5. CASE OfferAccepted(i)
    <2> DEFINE a == SendAck(f)
               h == RunSessionTimer(a)
               q == Append(h.queue, Op("reanswer", i))
    <2>0. Sent(i) BY <1>5 DEF OfferAccepted
    <2>1. session' \in {f, [h EXCEPT !.queue = q], terminate(h)}
      BY <1>3, <1>5 DEF OfferAccepted
    <2>2. Sane(a) /\ Good(a) BY <1>1, <1>2, <2>0, SendAckKeeps, SendIsQuiet, QuietIsGood DEF Keeps
    <2> HIDE DEF a
    <2>3. Sane(h) /\ Good(h) BY <2>2, RunSessionTimerKeeps, SendIsQuiet, QuietIsGood DEF Keeps
    <2> HIDE DEF h, q
    <2>4. Quiet(h, [h EXCEPT !.queue = q]) BY <2>3, FieldIsQuiet
    <2> QED BY <1>2, <2>1, <2>3, <2>4, QuietIsGood, TerminateIsGood
  <1>6. CASE OfferRefused(i)
    BY <1>1, <1>2, <1>3, <1>6, TerminateIsGood DEF OfferRefused
  <1>7. CASE OfferCrossed(i)
    <2>1. session' = Step(f, i, "retry") /\ Sent(i) BY <1>3, <1>7 DEF OfferCrossed, Step, Sent
    <2>2. Quiet(f, Step(f, i, "retry")) BY <1>1, <2>1, OfferIsQuiet
    <2> QED BY <1>2, <2>1, <2>2, QuietIsGood
  <1>8. CASE Reattempt(i)
    <2> DEFINE s == Step(session, i, "over")
    <2>1. session' = SendOffer(session, i, "resent", terminate(s)) /\ session.offers[i] = "retry"
      BY <1>8 DEF Reattempt
    <2>2. Sane(s) BY <2>1, NotAsked, StepKeeps DEF OfferStates, Keeps
    <2>3. Quiet(session, s) BY OfferIsQuiet
    <2> HIDE DEF s
    <2>4. Good(terminate(s)) BY <2>2, <2>3, QuietIsGood, TerminateIsGood
    <2> QED BY <2>1, <2>4, SendOfferIsGood
  <1> QED BY <1>4, <1>5, <1>6, <1>7, <1>8
LEMMA ChangeStays == CallInv /\ Good(session) /\ Change => Good(session')
  <1> SUFFICES ASSUME CallInv, Good(session), Change PROVE Good(session') OBVIOUS
  <1> Sane(session) BY DEF CallInv
  <1>1. CASE Refreshed
    <2> DEFINE x == [session EXCEPT !.update = FALSE]
    <2>1. session' \in {x, RunSessionTimer(x), terminate(x)} BY <1>1 DEF Refreshed
    <2>2. Sane(x) BY SessionTimerKeeps DEF Keeps
    <2>3. Quiet(session, x) BY DEF Sane, CallType, Quiet, SameTale, SameTables
    <2> HIDE DEF x
    <2>4. Good(x) BY <2>3, QuietIsGood
    <2>5. Good(RunSessionTimer(x)) BY <2>2, <2>4, SendIsQuiet, QuietIsGood
    <2> QED BY <2>1, <2>2, <2>4, <2>5, TerminateIsGood
  <1>2. CASE ReceiveReinvite \/ ReceiveUpdate
    <2>1. PICK method \in Methods, sdp \in BOOLEAN, welcome \in BOOLEAN :
            session' = Offered(Begin(session, method), sdp, welcome)
      BY <1>2, Names DEF ReceiveReinvite, ReceiveUpdate
    <2>2. Incoming(session) => session.final = "2xx"
      BY <1>2 DEF ReceiveReinvite, ReceiveUpdate, FromOtherEnd, Incoming
    <2> QED BY <2>1, <2>2, OfferedIsGood
  <1>3. CASE ReceiveRefresh
    <2>1. session' = RunSessionTimer(session) BY <1>3 DEF ReceiveRefresh
    <2> QED BY <2>1, SendIsQuiet, QuietIsGood
  <1> QED BY <1>1, <1>2, <1>3, OwnChangeStays DEF Change

LEMMA TimerStays == CallInv /\ Good(session) /\ Timer => Good(session')
  <1> SUFFICES ASSUME CallInv, Good(session), Timer PROVE Good(session') OBVIOUS
  <1> Sane(session) BY DEF CallInv
  <1> DEFINE y(name) == [session EXCEPT !.timers = @ \ {name}]
  <1>1. ASSUME NEW name PROVE Sane(y(name)) /\ Good(y(name)) /\ Quiet(session, y(name))
    <2>1. Sane(y(name)) BY TimerKeeps DEF Keeps
    <2>2. Quiet(session, y(name)) BY DEF Sane, CallType, Quiet, SameTale, SameTables
    <2> HIDE DEF y
    <2> QED BY <2>1, <2>2, QuietIsGood
  <1>2. ASSUME NEW name, session.status = "WAITING_FOR_ANSWER"
        PROVE  Good(_failed(Refuse(y(name))))
    <2>1. Sane(y(name)) /\ Good(y(name)) /\ Quiet(session, y(name)) BY <1>1
    <2>2. session.final # "2xx" \/ ~Incoming(session)
      BY <1>2 DEF Sane, Agreed, AnsweredIsOver
    <2> HIDE DEF y
    <2>3. ~Over(y(name)) /\ ~(Incoming(y(name)) /\ y(name).final = "2xx")
      BY <1>2, <2>1, <2>2 DEF Quiet, SameTale, Over, Incoming
    <2> QED BY <2>1, <2>3, FailedRefuseIsGood
  <1>3. CASE NoAnswerTimer
    <2>1. session' = _failed(Refuse(y("noAnswer"))) BY <1>3 DEF NoAnswerTimer
    <2>2. session.status = "WAITING_FOR_ANSWER" BY <1>3 DEF NoAnswerTimer, Sane, Agreed, Sides
    <2> HIDE DEF y
    <2> QED BY <1>2, <2>1, <2>2
  <1>4. CASE ExpiresTimer
    <2>1. session' = IF y("expires").status = "WAITING_FOR_ANSWER"
                     THEN _failed(Refuse(y("expires"))) ELSE y("expires")
      BY <1>4 DEF ExpiresTimer
    <2> HIDE DEF y
    <2>2. y("expires").status = session.status BY <1>1 DEF Quiet, SameTale
    <2> QED BY <1>1, <1>2, <2>1, <2>2
  <1>5. CASE ResendTimer
    <2>1. session' \in {y("2xx"), session, TxOver(session), [session EXCEPT !.reinvite = "TERMINATED"]}
      BY <1>5 DEF ResendTimer
    <2> HIDE DEF y
    <2>2. Good([session EXCEPT !.reinvite = "TERMINATED"]) BY FieldIsQuiet, QuietIsGood
    <2> QED BY <1>1, <2>1, <2>2, TxOverIsGood
  <1>6. CASE AckTimer
    <2>1. session' = IF y("ack").status = "WAITING_FOR_ACK" /\ y("ack").dialog # None
                     THEN _ended(SendBye(y("ack"))) ELSE y("ack")
      BY <1>6 DEF AckTimer
    <2>2. session.tx # "ACCEPTED" BY <1>6 DEF AckTimer
    <2>3. y("ack").tx = session.tx BY DEF Sane, CallType
    <2>4. Sane(y("ack")) /\ Good(y("ack")) BY <1>1
    <2> DEFINE z == y("ack")
    <2>5. z = y("ack") OBVIOUS
    <2> HIDE DEF y, z
    <2>6. CASE z.status = "WAITING_FOR_ACK" /\ z.dialog # None
      <3>1. Caused(z) \/ (Incoming(z) /\ (z.acked \/ z.tx = "TERMINATED"))
        BY <2>2, <2>3, <2>4, <2>5, <2>6 DEF Caused, Sane, Agreed, AnsweredIsOver,
           EstablishedIsAnswered, Sides, Incoming
      <3>2. Sane(SendBye(z)) /\ Good(SendBye(z)) /\ Quiet(z, SendBye(z))
        BY <2>4, <2>5, <3>1, SendByeKeeps, SendIsQuiet, QuietIsGood DEF Keeps
      <3>3. ~Over(SendBye(z)) BY <2>6, <3>2 DEF Quiet, SameTale, Over
      <3>4. Good(_ended(SendBye(z))) BY <3>2, <3>3, FailedIsGood
      <3> QED BY <2>1, <2>5, <2>6, <3>4
    <2> QED BY <2>1, <2>4, <2>5, <2>6
  <1>7. CASE TxTimer
    <2>1. session' \in {TxOver(session), terminate(TxOver(session))} BY <1>7 DEF TxTimer
    <2>2. Sane(TxOver(session)) /\ Good(TxOver(session)) BY TxOverKeeps, TxOverIsGood DEF Keeps
    <2> QED BY <2>1, <2>2, TerminateIsGood
  <1>8. CASE ReinviteTimer
    <2>1. session' = [session EXCEPT !.reinvite = "TERMINATED"] BY <1>8 DEF ReinviteTimer
    <2> QED BY <2>1, FieldIsQuiet, QuietIsGood
  <1>9. CASE SessionTimer
    <2> DEFINE x == [session EXCEPT !.session_timer = "none"]
    <2>1. session' \in {x, terminate(x), [x EXCEPT !.update = TRUE]} BY <1>9 DEF SessionTimer
    <2>2. Sane(x) BY SessionTimerKeeps DEF Keeps
    <2>3. Quiet(session, x) BY FieldIsQuiet
    <2> HIDE DEF x
    <2>4. Good(x) BY <2>3, QuietIsGood
    <2>5. Quiet(x, [x EXCEPT !.update = TRUE])
      BY <2>2 DEF Sane, CallType, Quiet, SameTale, SameTables
    <2> QED BY <2>1, <2>2, <2>4, <2>5, QuietIsGood, TerminateIsGood
  <1>10. CASE \E i \in Offers : Reattempt(i) BY <1>10, OwnChangeStays
  <1>11. CASE ProvisionalTimer
    <2>1. session' = TxOver(session) BY <1>11 DEF ProvisionalTimer
    <2> QED BY <2>1, TxOverIsGood
  <1> QED BY <1>3, <1>4, <1>5, <1>6, <1>7, <1>8, <1>9, <1>10, <1>11 DEF Timer

LEMMA GoodStep == CallInv /\ Good(session) /\ [Next]_vars => Good(session')
  <1> SUFFICES ASSUME CallInv, Good(session), [Next]_vars PROVE Good(session') OBVIOUS
  <1>1. CASE UNCHANGED vars BY <1>1 DEF vars
  <1>2. CASE Lost \/ onTransportConnect BY <1>2 DEF Lost, onTransportConnect
  <1> QED BY <1>1, <1>2, TerminateStays, DisconnectStays, ConnectIsTold, IncomingIsTold,
             answerStays, ResponsesStay, RequestsStay, BrowserStays, ChangeStays, TimerStays
          DEF Next, Initial

\* The invariant of the call, whole.
GoodInv == CallInv /\ Good(session)
LEMMA GoodAlways == Spec => []GoodInv
  <1>1. Init => GoodInv
    <2>1. Init => Blank(session) BY DEF Init, Unused, Blank
    <2> QED BY <2>1, InitIsSane, BlankIsGood DEF GoodInv
  <1>2. GoodInv /\ [Next]_vars => GoodInv' BY CallStep, GoodStep DEF GoodInv
  <1> QED BY <1>1, <1>2, PTL DEF Spec

\* Whatever the answer, the timers, CANCEL, BYE and the browser's promises race for, what
\* the application was told of the call is what became of it: "accepted" exactly when a
\* 200 was sent, never "failed" after it, an end for each call that ended, and nothing
\* after the end (but by a session that went astray in _acceptAndTerminate).
THEOREM ToldTheTruthAlways == Spec => []ToldTheTruth
  <1>1. GoodInv => ToldTheTruth
    BY DEF GoodInv, Good, Truthful, Honest, ToldTheTruth, SameAsAnswered, ToldOfTheEnd,
       NothingAfterTheEnd, Heard, HeardOf, EndsTold, EndsOf, Incoming
  <1> QED BY GoodAlways, <1>1, PTL
\* After any sequence of answers of forks, ends and changes of the media, the tables of the
\* user agent list a live session with its dialogs, and nothing of one that ended (unless
\* it went astray, where the tables are left as they are in _acceptAndTerminate), but the
\* dialog whose BYE waits for its ACK; and the flag of the dialog is up only while a
\* change of this end waits for its answer.
THEOREM CallIsListedAlways == Spec => []CallIsListed
  <1>1. GoodInv => CallIsListed
    <2> SUFFICES ASSUME GoodInv PROVE CallIsListed OBVIOUS
    <2>1. Listed(session) /\ Sane(session) BY DEF GoodInv, Good, CallInv
    <2>2. LiveIsListed BY <2>1 DEF Listed, LiveIsListed, Live, LiveIn, Mine, MineOf, Over
    <2>3. DialogsAreHeld BY <2>1 DEF Listed, DialogsAreHeld, Leaked, LeakOf, Mine, MineOf
    <2>4. EndedIsGone BY <2>1 DEF Listed, EndedIsGone, Leaked, LeakOf
    <2>5. PendingIsTrue BY <2>1 DEF Sane, Agreed, Tidy, PendingIsTrue, Sent
    <2> QED BY <2>2, <2>3, <2>4, <2>5 DEF CallIsListed
  <1> QED BY GoodAlways, <1>1, PTL
(***************************************************************************)
(* The INVITE transaction of the call. Most operators of the session leave   *)
(* it as it is; of the fields that its steps read, no chain begins anew and   *)
(* no call rings again.                                                      *)
(***************************************************************************)
Fields == {"direction", "tx", "final", "chain", "status"}
Has(x) == Fields \subseteq DOMAIN x
Rings(x) == x.status \in {"WAITING_FOR_ANSWER", "ANSWERED"}
\* What all but the first step of a call, and its answer, keep.
Frame(x, y) ==
  /\ Has(y) /\ y.direction = x.direction
  /\ x.chain = "none" => y.chain = "none"
  /\ Rings(y) => Rings(x)
Unmoved(x, y) == Frame(x, y) /\ y.tx = x.tx /\ y.final = x.final

LEMMA UnmovedTwice ==
  ASSUME NEW x, NEW y, NEW z, Unmoved(x, y), Unmoved(y, z)
  PROVE  Unmoved(x, z)
  BY DEF Unmoved, Frame

LEMMA StillHas ==
  ASSUME NEW x, NEW y, Unmoved(x, y)
  PROVE  Has(y)
  BY DEF Unmoved, Frame

LEMMA EndsUnmoved ==
  ASSUME NEW x, Has(x), NEW e
  PROVE  /\ Unmoved(x, x) /\ Unmoved(x, Tell(x, e)) /\ Unmoved(x, _close(x))
         /\ Unmoved(x, _failed(x)) /\ Unmoved(x, _ended(x))
         /\ Unmoved(x, SendAck(x)) /\ Unmoved(x, SendBye(x)) /\ Unmoved(x, Cancel(x))
         /\ Unmoved(x, Dropped(x)) /\ Unmoved(x, RunSessionTimer(x))
  <1>1. Unmoved(x, x) BY DEF Unmoved, Frame
  <1>2. ASSUME NEW y, Has(y), NEW f PROVE Unmoved(y, Tell(y, f))
    BY <1>2 DEF Has, Fields, Unmoved, Frame, Rings, Tell
  <1>3. Unmoved(x, _close(x)) BY DEF Has, Fields, Unmoved, Frame, Rings, _close, LeftOf
  <1>4. Unmoved(x, _failed(x)) /\ Unmoved(x, _ended(x))
    BY <1>2, <1>3, UnmovedTwice DEF _failed, _ended, Unmoved, Frame
  <1>5. Unmoved(x, SendAck(x)) BY DEF Has, Fields, Unmoved, Frame, Rings, SendAck
  <1>6. Unmoved(x, SendBye(x)) BY DEF Has, Fields, Unmoved, Frame, Rings, SendBye
  <1>7. Unmoved(x, Cancel(x)) BY DEF Has, Fields, Unmoved, Frame, Rings, Cancel
  <1>8. Unmoved(x, Dropped(x)) BY DEF Has, Fields, Unmoved, Frame, Rings, Dropped
  <1>9. Unmoved(x, RunSessionTimer(x))
    BY DEF Has, Fields, Unmoved, Frame, Rings, RunSessionTimer
  <1> QED BY <1>1, <1>2, <1>3, <1>4, <1>5, <1>6, <1>7, <1>8, <1>9

LEMMA FieldUnmoved ==
  ASSUME NEW x, Has(x), NEW v
  PROVE  /\ Unmoved(x, [x EXCEPT !.queue = v]) /\ Unmoved(x, [x EXCEPT !.stable = v])
         /\ Unmoved(x, [x EXCEPT !.answering = v]) /\ Unmoved(x, [x EXCEPT !.timers = v])
         /\ Unmoved(x, [x EXCEPT !.reinvite = v]) /\ Unmoved(x, [x EXCEPT !.rtc_broken = v])
         /\ Unmoved(x, [x EXCEPT !.update = v]) /\ Unmoved(x, [x EXCEPT !.session_timer = v])
         /\ Unmoved(x, [x EXCEPT !.acked = v]) /\ Unmoved(x, [x EXCEPT !.is_confirmed = v])
         /\ Unmoved(x, [x EXCEPT !.dialogs = v]) /\ Unmoved(x, [x EXCEPT !.uac_pending = v])
         /\ Unmoved(x, [x EXCEPT !.offers = v]) /\ Unmoved(x, [x EXCEPT !.late_sdp = v])
  BY DEF Has, Fields, Unmoved, Frame, Rings

LEMMA QueueUnmoved ==
  ASSUME NEW x, Has(x)
  PROVE  /\ Unmoved(x, Decline(x)) /\ Unmoved(x, Rejected(x)) /\ Unmoved(x, Settled(x))
         /\ Unmoved(x, Confirmed(x))
  <1>1. ASSUME NEW y, Has(y) PROVE Unmoved(y, Decline(y))
    BY <1>1, EndsUnmoved, FieldUnmoved DEF Decline
  <1>2. ASSUME NEW y, Has(y) PROVE Unmoved(y, Rejected(y))
    <2>1. Unmoved(y, Decline(y)) /\ Unmoved(y, y) BY <1>1, <1>2, EndsUnmoved
    <2>2. PICK a \in {y, Decline(y)} : Rejected(y) = [a EXCEPT !.queue = <<>>] BY DEF Rejected
    <2>3. Unmoved(y, a) /\ Has(a) BY <2>1, <1>2 DEF Unmoved, Frame
    <2>4. Unmoved(a, [a EXCEPT !.queue = <<>>]) BY <2>3, FieldUnmoved
    <2> QED BY <2>2, <2>3, <2>4, UnmovedTwice
  <1>3. Unmoved(x, Settled(x))
    <2> DEFINE n == [x EXCEPT !.queue = Tail(@)]
    <2>1. Unmoved(x, n) BY FieldUnmoved
    <2>2. Settled(x) = n \/ Settled(x) = Rejected(n) BY DEF Settled
    <2> HIDE DEF n
    <2>3. Unmoved(n, Rejected(n)) BY <1>2, <2>1 DEF Unmoved, Frame
    <2> QED BY <2>1, <2>2, <2>3, UnmovedTwice
  <1>4. Unmoved(x, Confirmed(x))
    <2> DEFINE n == [x EXCEPT !.is_confirmed = TRUE]
    <2>1. Unmoved(x, n) BY FieldUnmoved
    <2>2. Confirmed(x) = x \/ Confirmed(x) = Tell(n, "confirmed") BY DEF Confirmed
    <2> HIDE DEF n
    <2>3. Unmoved(n, Tell(n, "confirmed")) BY <2>1, EndsUnmoved, StillHas
    <2> QED BY <2>1, <2>2, <2>3, EndsUnmoved, UnmovedTwice
  <1> QED BY <1>1, <1>2, <1>3, <1>4

LEMMA DialoguedUnmoved ==
  ASSUME NEW x, Has(x), NEW d, NEW contact, NEW early
  PROVE  Unmoved(x, Dialogued(x, d, contact, early))
  <1>1. CASE d \in x.early
    <2>1. Unmoved(x, [x EXCEPT !.dialog = d, !.early = @ \ {d}])
      BY DEF Has, Fields, Unmoved, Frame, Rings
    <2> QED BY <1>1, <2>1, EndsUnmoved DEF Dialogued
  <1>2. CASE d \notin x.early /\ contact
    <2>1. /\ Unmoved(x, [x EXCEPT !.early = @ \cup {d}, !.dialogs = @ \cup {d}])
          /\ Unmoved(x, [x EXCEPT !.dialog = d, !.dialogs = @ \cup {d}])
      BY DEF Has, Fields, Unmoved, Frame, Rings
    <2> QED BY <1>2, <2>1 DEF Dialogued
  <1>3. CASE d \notin x.early /\ ~contact BY <1>3, EndsUnmoved DEF Dialogued
  <1> QED BY <1>1, <1>2, <1>3

LEMMA AstrayUnmoved ==
  ASSUME NEW x, Has(x), NEW d, NEW contact
  PROVE  Unmoved(x, _acceptAndTerminate(x, d, contact))
  <1> DEFINE made == IF x.dialog # None THEN x
                     ELSE IF d \in x.early THEN [x EXCEPT !.dialog = d, !.early = @ \ {d}]
                     ELSE IF contact THEN [x EXCEPT !.dialog = d, !.dialogs = @ \cup {d}]
                     ELSE _failed(x)
             sent == IF made.dialog = None THEN made ELSE SendBye(SendAck(made))
  <1>1. _acceptAndTerminate(x, d, contact) = [sent EXCEPT !.status = "TERMINATED", !.astray = TRUE]
    BY DEF _acceptAndTerminate
  <1>2. Unmoved(x, made)
    <2>1. /\ Unmoved(x, [x EXCEPT !.dialog = d, !.early = @ \ {d}])
          /\ Unmoved(x, [x EXCEPT !.dialog = d, !.dialogs = @ \cup {d}])
      BY DEF Has, Fields, Unmoved, Frame, Rings
    <2> QED BY <2>1, EndsUnmoved
  <1> HIDE DEF made
  <1>3. Unmoved(made, SendAck(made)) BY <1>2, EndsUnmoved, StillHas
  <1>4. Unmoved(SendAck(made), SendBye(SendAck(made)))
    BY <1>3, EndsUnmoved, StillHas
  <1>5. Unmoved(x, sent) BY <1>2, <1>3, <1>4, UnmovedTwice
  <1> HIDE DEF sent
  <1>6. Unmoved(sent, [sent EXCEPT !.status = "TERMINATED", !.astray = TRUE])
    BY <1>5 DEF Has, Fields, Unmoved, Frame, Rings
  <1> QED BY <1>1, <1>5, <1>6, UnmovedTwice

LEMMA ProvisionalUnmoved ==
  ASSUME NEW x, Has(x), NEW code, NEW d, NEW contact, NEW sdp
  PROVE  Unmoved(x, Provisional(x, code, d, contact, sdp))
  <1>1. ASSUME NEW y, Has(y) PROVE Unmoved(y, [y EXCEPT !.status = "1XX_RECEIVED"])
    BY <1>1 DEF Has, Fields, Unmoved, Frame, Rings
  <1>2. Unmoved(x, Trying(x)) BY <1>1, EndsUnmoved DEF Trying
  <1>3. Unmoved(x, Ringing(x, d, contact, sdp))
    <2> DEFINE made == IF contact THEN Dialogued(x, d, TRUE, TRUE) ELSE x
               rings == [made EXCEPT !.status = "1XX_RECEIVED"]
               asks == [rings EXCEPT !.queue = Append(@, Op("progress", 0))]
    <2>1. Unmoved(x, made) BY DialoguedUnmoved, EndsUnmoved
    <2>2. Ringing(x, d, contact, sdp) \in {x, rings, asks} BY DEF Ringing
    <2> HIDE DEF made
    <2>3. Unmoved(made, rings) BY <1>1, <2>1 DEF Unmoved, Frame
    <2> HIDE DEF rings
    <2>4. Unmoved(rings, asks) BY <2>3, FieldUnmoved, StillHas
    <2> HIDE DEF asks
    <2> QED BY <2>1, <2>2, <2>3, <2>4, EndsUnmoved, UnmovedTwice
  <1>4. Provisional(x, code, d, contact, sdp) \in {x, Trying(x), Ringing(x, d, contact, sdp)}
    BY DEF Provisional
  <1> QED BY <1>2, <1>3, <1>4, EndsUnmoved

LEMMA AcceptedUnmoved ==
  ASSUME NEW x, Has(x), NEW d, NEW contact, NEW sdp
  PROVE  Unmoved(x, Accepted(x, d, contact, sdp))
  <1> DEFINE confirmed == [x EXCEPT !.status = "CONFIRMED"]
             made == Dialogued(confirmed, d, contact, FALSE)
             asks == [made EXCEPT !.queue = Append(@, Op("offer", 0))]
             gone == _acceptAndTerminate(confirmed, d, contact)
  <1>1. Unmoved(x, Again(x, d, contact))
    <2> DEFINE f == [x EXCEPT !.dialogs = @ \cup {d}, !.forks = @ \cup {d}]
    <2>1. Again(x, d, contact) \in {x, SendAck(x), SendBye(SendAck(f))} BY DEF Again
    <2>2. Unmoved(x, f) BY DEF Has, Fields, Unmoved, Frame, Rings
    <2> HIDE DEF f
    <2>3. Unmoved(f, SendAck(f)) BY <2>2, EndsUnmoved, StillHas
    <2>4. Unmoved(SendAck(f), SendBye(SendAck(f))) BY <2>3, EndsUnmoved, StillHas
    <2> QED BY <2>1, <2>2, <2>3, <2>4, EndsUnmoved, UnmovedTwice
  <1>2. Accepted(x, d, contact, sdp) \in
          {x, Again(x, d, contact), _acceptAndTerminate(x, d, contact), _failed(gone), made, asks}
    BY DEF Accepted
  <1>3. Unmoved(x, confirmed) BY DEF Has, Fields, Unmoved, Frame, Rings
  <1> HIDE DEF confirmed
  <1>4. Unmoved(confirmed, made) BY <1>3, DialoguedUnmoved, StillHas
  <1>5. Unmoved(confirmed, gone) BY <1>3, AstrayUnmoved, StillHas
  <1> HIDE DEF made, gone
  <1>6. Unmoved(made, asks) BY <1>4, FieldUnmoved, StillHas
  <1>7. Unmoved(gone, _failed(gone)) BY <1>5, EndsUnmoved, StillHas
  <1> HIDE DEF asks
  <1>8. Unmoved(x, _failed(gone)) /\ Unmoved(x, made) /\ Unmoved(x, asks)
    BY <1>3, <1>4, <1>5, <1>6, <1>7, UnmovedTwice
  <1> QED BY <1>1, <1>2, <1>8, EndsUnmoved, AstrayUnmoved

LEMMA RefusedUnmoved ==
  ASSUME NEW x, Has(x)
  PROVE  Unmoved(x, Refused(x))
  BY EndsUnmoved DEF Refused

\* What changes the media.
LEMMA MediaUnmoved ==
  ASSUME NEW x, Has(x), NEW method, NEW sdp, NEW welcome, NEW i, NEW state
  PROVE  /\ Unmoved(x, Accept(x)) /\ Unmoved(x, Begin(x, method))
         /\ Unmoved(x, Offered(x, sdp, welcome)) /\ Unmoved(x, Step(x, i, state))
         /\ Unmoved(x, Final(x, i)) /\ Unmoved(x, Abandoned(x))
  <1>1. Unmoved(x, Accept(x)) BY DEF Accept, Has, Fields, Unmoved, Frame, Rings
  <1>2. Unmoved(x, Begin(x, method))
    <2> DEFINE a == [x EXCEPT !.reinvite = "PROCEEDING", !.method = method]
    <2>1. Begin(x, method) \in {a, Decline(a)} BY DEF Begin
    <2>2. Unmoved(x, a) BY DEF Has, Fields, Unmoved, Frame, Rings
    <2> HIDE DEF a
    <2>3. Unmoved(a, Decline(a)) BY <2>2, QueueUnmoved, StillHas
    <2> QED BY <2>1, <2>2, <2>3, UnmovedTwice
  <1>3. Unmoved(x, Offered(x, sdp, welcome))
    <2> DEFINE late == IF x.method = "INVITE" THEN [x EXCEPT !.late_sdp = ~sdp] ELSE x
               a == [late EXCEPT !.queue = Append(@, Op("relocal", 0))]
               b == [late EXCEPT !.queue = Append(@, Op("roffer", 0))]
    <2>1. Offered(x, sdp, welcome) \in {x, Decline(x), a, b} BY DEF Offered
    <2>2. Unmoved(x, late) BY FieldUnmoved, EndsUnmoved
    <2> HIDE DEF late
    <2>3. Unmoved(late, a) /\ Unmoved(late, b) BY <2>2, FieldUnmoved, StillHas
    <2> HIDE DEF a, b
    <2> QED BY <2>1, <2>2, <2>3, EndsUnmoved, QueueUnmoved, UnmovedTwice
  <1>4. Unmoved(x, Step(x, i, state)) BY DEF Step, Has, Fields, Unmoved, Frame, Rings
  <1>5. Unmoved(x, Final(x, i)) BY DEF Final, Step, Has, Fields, Unmoved, Frame, Rings
  <1>6. Unmoved(x, Abandoned(x)) BY DEF Abandoned, Has, Fields, Unmoved, Frame, Rings
  <1> QED BY <1>1, <1>2, <1>3, <1>4, <1>5, <1>6

(* The transaction ends, or rejects at the callee. *)
Stops(x, y) == Frame(x, y) /\ x.tx # "none" /\ y.tx = "TERMINATED" /\ y.final = x.final
Rejects(x, y) ==
  Frame(x, y) /\ Sends /\ Incoming(x) /\ x.tx = "PROCEEDING" /\ y.tx = "COMPLETED" /\ y.final = "reject"
Follows(x, y) == Unmoved(x, y) \/ Stops(x, y) \/ Rejects(x, y)
\* Only a call that arrived rings.
Sided(x) == Has(x) /\ (Rings(x) => Incoming(x))

LEMMA FollowsOn ==
  ASSUME NEW x, NEW y, NEW z,
         (Unmoved(x, y) /\ Follows(y, z)) \/ (Follows(x, y) /\ Unmoved(y, z))
  PROVE  Follows(x, z)
  BY DEF Follows, Unmoved, Stops, Rejects, Frame, Incoming
LEMMA SidedStays ==
  ASSUME NEW x, NEW y, Sided(x), Follows(x, y)
  PROVE  Sided(y)
  BY DEF Sided, Follows, Unmoved, Stops, Rejects, Frame, Incoming
LEMMA UnmovedFollows ==
  ASSUME NEW x, NEW y, Unmoved(x, y)
  PROVE  Follows(x, y)
  BY DEF Follows

LEMMA TxOverFollows ==
  ASSUME NEW x, Has(x)
  PROVE  Frame(x, TxOver(x)) /\ TxOver(x).tx = "TERMINATED" /\ TxOver(x).final = x.final
  <1> DEFINE over == [x EXCEPT !.tx = "TERMINATED"]
  <1>1. Has(over) /\ Frame(x, over) /\ over.tx = "TERMINATED" /\ over.final = x.final
    BY DEF Has, Fields, Frame, Rings
  <1>2. TxOver(x) \in {over, HangUp(over)} BY DEF TxOver
  <1> HIDE DEF over
  <1>3. Unmoved(over, HangUp(over))
    <2>1. Unmoved(over, SendBye(over)) BY <1>1, EndsUnmoved
    <2> DEFINE b == SendBye(over)
    <2>2. HangUp(over) = [b EXCEPT !.dialogs = @ \ {over.dialog}] BY DEF HangUp
    <2>3. Unmoved(over, b) BY <2>1
    <2> HIDE DEF b
    <2>4. Unmoved(b, [b EXCEPT !.dialogs = @ \ {over.dialog}]) BY <2>3, FieldUnmoved, StillHas
    <2> QED BY <2>2, <2>3, <2>4, UnmovedTwice
  <1> QED BY <1>1, <1>2, <1>3 DEF Unmoved, Frame

LEMMA RefuseFollows ==
  ASSUME NEW x, Has(x), x.tx = "PROCEEDING" => Incoming(x)
  PROVE  Follows(x, Refuse(x))
  <1>1. CASE x.tx # "PROCEEDING" BY <1>1, EndsUnmoved DEF Refuse, Follows
  <1>2. CASE x.tx = "PROCEEDING" /\ ~Sends
    BY <1>2, TxOverFollows DEF Refuse, Follows, Stops
  <1>3. CASE x.tx = "PROCEEDING" /\ Sends
    <2> DEFINE r == [x EXCEPT !.tx = "COMPLETED", !.final = "reject"]
    <2>1. Frame(x, r) /\ r.tx = "COMPLETED" /\ r.final = "reject"
      BY DEF Has, Fields, Frame, Rings
    <2>2. Refuse(x) = r BY <1>3 DEF Refuse
    <2> QED BY <1>3, <2>1, <2>2 DEF Follows, Rejects
  <1> QED BY <1>1, <1>2, <1>3

LEMMA FailedRefuseFollows ==
  ASSUME NEW x, Has(x), x.tx = "PROCEEDING" => Incoming(x)
  PROVE  Follows(x, _failed(Refuse(x))) /\ Follows(x, _ended(Refuse(x)))
  <1>1. Follows(x, Refuse(x)) /\ Has(Refuse(x))
    BY RefuseFollows DEF Follows, Unmoved, Stops, Rejects, Frame
  <1>2. Unmoved(Refuse(x), _failed(Refuse(x))) /\ Unmoved(Refuse(x), _ended(Refuse(x)))
    BY <1>1, EndsUnmoved
  <1> QED BY <1>1, <1>2, FollowsOn

LEMMA TerminateFollows ==
  ASSUME NEW x, Sided(x)
  PROVE  Follows(x, terminate(x))
  <1> Has(x) BY DEF Sided
  <1>1. CASE x.status \in {"NULL", "INVITE_SENT", "1XX_RECEIVED"}
    <2>1. terminate(x) = _failed(Cancel(x)) BY <1>1 DEF terminate, MustWait
    <2>2. Unmoved(x, Cancel(x)) BY EndsUnmoved
    <2>3. Unmoved(Cancel(x), _failed(Cancel(x))) BY <2>2, EndsUnmoved, StillHas
    <2> QED BY <2>1, <2>2, <2>3, UnmovedTwice, UnmovedFollows
  <1>2. CASE Rings(x)
    <2>1. terminate(x) = _failed(Refuse(x)) BY <1>2 DEF terminate, MustWait, Rings
    <2> QED BY <1>2, <2>1, FailedRefuseFollows DEF Sided
  <1>3. CASE MustWait(x)
    <2> DEFINE e == _ended(x)
               y == [e EXCEPT !.hangup = TRUE, !.dialog = x.dialog,
                              !.dialogs = @ \cup ({x.dialog} \ {None})]
    <2>1. terminate(x) = y BY <1>3 DEF terminate, MustWait
    <2>2. Unmoved(x, e) BY EndsUnmoved
    <2> HIDE DEF e
    <2>3. Unmoved(e, y) BY <2>2 DEF Has, Fields, Unmoved, Frame, Rings
    <2> HIDE DEF y
    <2> QED BY <2>1, <2>2, <2>3, UnmovedTwice, UnmovedFollows
  <1>4. CASE x.status \in {"WAITING_FOR_ACK", "CONFIRMED"} /\ ~MustWait(x) /\ x.dialog # None
    <2>1. terminate(x) = _ended(SendBye(x)) BY <1>4 DEF terminate, MustWait
    <2>2. Unmoved(x, SendBye(x)) BY EndsUnmoved
    <2>3. Unmoved(SendBye(x), _ended(SendBye(x))) BY <2>2, EndsUnmoved, StillHas
    <2> QED BY <2>1, <2>2, <2>3, UnmovedTwice, UnmovedFollows
  <1>5. CASE /\ x.status \notin {"NULL", "INVITE_SENT", "1XX_RECEIVED"} /\ ~Rings(x)
             /\ ~MustWait(x)
             /\ ~(x.status \in {"WAITING_FOR_ACK", "CONFIRMED"} /\ x.dialog # None)
    <2>1. terminate(x) = x BY <1>5 DEF terminate, Rings
    <2> QED BY <2>1, EndsUnmoved, UnmovedFollows
  <1> QED BY <1>1, <1>2, <1>3, <1>4, <1>5

LEMMA CutFollows ==
  ASSUME NEW x, Sided(x)
  PROVE  Follows(x, Cut(x))
  <1> Has(x) BY DEF Sided
  <1>1. Unmoved(x, Rejected(x)) BY QueueUnmoved
  <1>2. Sided(Rejected(x)) BY <1>1, SidedStays, UnmovedFollows
  <1>3. Follows(Rejected(x), terminate(Rejected(x))) BY <1>2, TerminateFollows
  <1>4. Follows(x, terminate(Rejected(x))) BY <1>1, <1>3, FollowsOn
  <1> QED BY <1>4, EndsUnmoved, UnmovedFollows DEF Cut

LEMMA RequestFollows ==
  ASSUME NEW x, Sided(x), NEW sdp
  PROVE  Follows(x, Ack(x, sdp)) /\ Follows(x, Bye(x))
  <1> Has(x) BY DEF Sided
  <1>1. Follows(x, Bye(x))
    <2>1. x.status = "WAITING_FOR_ANSWER" => Follows(x, _ended(Refuse(x)))
      BY FailedRefuseFollows DEF Sided, Rings
    <2>2. Follows(x, x) /\ Follows(x, _ended(x)) BY EndsUnmoved, UnmovedFollows
    <2> QED BY <2>1, <2>2 DEF Bye
  <1>2. Follows(x, Ack(x, sdp))
    <2> DEFINE heard == [x EXCEPT !.status = "CONFIRMED", !.timers = @ \ {"ack", "2xx"}]
               asks == [heard EXCEPT !.queue = Append(@, Op("ack", 0))]
    <2>1. Ack(x, sdp) \in {HangUp(x), x, Confirmed(heard), asks, terminate(heard)} BY DEF Ack
    <2>2. Unmoved(x, HangUp(x)) BY DEF HangUp, SendBye, Has, Fields, Unmoved, Frame, Rings
    <2>3. Unmoved(x, heard) /\ ~Rings(heard) BY DEF Has, Fields, Unmoved, Frame, Rings
    <2> HIDE DEF heard
    <2>4. Sided(heard) BY <2>3, StillHas DEF Sided
    <2>5. Unmoved(heard, asks) /\ Unmoved(heard, Confirmed(heard))
      BY <2>3, FieldUnmoved, QueueUnmoved, StillHas
    <2>6. Follows(x, terminate(heard)) BY <2>3, <2>4, TerminateFollows, FollowsOn
    <2> HIDE DEF asks
    <2>7. Unmoved(x, asks) /\ Unmoved(x, Confirmed(heard)) BY <2>3, <2>5, UnmovedTwice
    <2> QED BY <2>1, <2>2, <2>6, <2>7, EndsUnmoved, UnmovedFollows
  <1> QED BY <1>1, <1>2

(* What a step may do with the INVITE of the call. *)
SameWord(x, y) == y.tx = x.tx /\ y.final = x.final
\* Until the INVITE is sent, connect() waits for the browser, and afterwards never.
NotSent(x) == x.direction = "outgoing" /\ x.chain # "none" => x.tx = "none"
Advances(x, y) ==
  /\ y.direction = x.direction /\ NotSent(y)
  /\ \/ SameWord(x, y)
     \/ x.tx # "none" /\ y.tx = "TERMINATED" /\ y.final = x.final
     \/ /\ Incoming(x) /\ x.tx = "PROCEEDING"
        /\ <<y.tx, y.final>> \in {<<"COMPLETED", "reject">>, <<"ACCEPTED", "2xx">>}
     \/ /\ ~Incoming(x) /\ x.tx = "none" /\ y.tx \in {"CALLING", "TERMINATED"}
        /\ x.direction = "outgoing" /\ y.final = x.final
     \/ /\ x.direction = "outgoing" /\ x.tx \in {"CALLING", "PROCEEDING"}
        /\ y.tx \in {"PROCEEDING", "ACCEPTED", "COMPLETED"} /\ y.final = x.final
\* A call begins, at either end.
Begins(x, y) ==
  /\ x.direction = "none" /\ NotSent(y)
  /\ \/ y.direction = "outgoing" /\ SameWord(x, y)
     \/ /\ y.direction = "incoming"
        /\ \/ y.tx \in {"PROCEEDING", "TERMINATED"} /\ y.final = x.final
           \/ y.tx = "COMPLETED" /\ y.final = "reject"
WordInv == CallInv /\ NotSent(session)
Moves == Advances(session, session') \/ Begins(session, session')

LEMMA FollowsMoves ==
  ASSUME NEW x, NEW y, NotSent(x), Follows(x, y)
  PROVE  Advances(x, y)
  BY DEF Advances, NotSent, SameWord, Follows, Unmoved, Stops, Rejects, Frame, Incoming
LEMMA SessionIsSided ==
  ASSUME Sane(session)
  PROVE  Has(session) /\ Sided(session)
  <1>1. Has(session) BY DEF Sane, CallType, Has, Fields
  <1> QED BY <1>1 DEF Sided, Sane, Agreed, Sides, Rings

LEMMA DisconnectMoves == WordInv /\ onTransportDisconnect => Moves
  <1> SUFFICES ASSUME WordInv, onTransportDisconnect PROVE Moves OBVIOUS
  <1> Sided(session) /\ Has(session) BY SessionIsSided DEF WordInv, CallInv
  <1> DEFINE ends == IF Unanswered(session) THEN terminate(session) ELSE session
             over == IF session.tx \in {"none", "TERMINATED"} THEN ends ELSE TxOver(ends)
  <1>1. session' = Abandoned(over) /\ ~Sends BY DEF onTransportDisconnect, Sends
  <1>2. Follows(session, ends) BY TerminateFollows, EndsUnmoved, UnmovedFollows
  <1> HIDE DEF ends
  <1>3. Frame(session, ends) /\ Has(ends) /\ ends.final = session.final
        /\ (ends.tx = session.tx \/ (session.tx # "none" /\ ends.tx = "TERMINATED"))
    BY <1>1, <1>2 DEF Follows, Unmoved, Stops, Rejects, Frame
  <1>4. /\ Frame(ends, TxOver(ends)) /\ TxOver(ends).tx = "TERMINATED"
        /\ TxOver(ends).final = ends.final
    BY <1>3, TxOverFollows
  <1>5. Unmoved(session, over) \/ Stops(session, over)
    BY <1>3, <1>4 DEF Unmoved, Stops, Frame
  <1> HIDE DEF over
  <1>6. Has(over) BY <1>5 DEF Unmoved, Stops, Frame
  <1>7. Unmoved(over, Abandoned(over)) BY <1>6, MediaUnmoved
  <1>8. Follows(session, Abandoned(over)) BY <1>5, <1>7, FollowsOn DEF Follows
  <1> QED BY <1>1, <1>8, FollowsMoves DEF Moves, WordInv

LEMMA ConnectBegins == WordInv /\ connect => Moves
  <1> SUFFICES ASSUME WordInv, connect PROVE Moves OBVIOUS
  <1> DEFINE y == [session EXCEPT !.direction = "outgoing", !.connection = "open",
                                  !.chain = "media", !.sessions = TRUE]
  <1>1. session' = Tell(y, "new") /\ session.direction = "none" /\ session.tx = "none"
    BY DEF connect, WordInv, CallInv, Fresh, Blank
  <1>2. Has(session) BY SessionIsSided DEF WordInv, CallInv
  <1>3. Has(y) /\ y.direction = "outgoing" /\ y.tx = session.tx /\ y.final = session.final
    BY <1>2 DEF Has, Fields
  <1> HIDE DEF y
  <1>4. Unmoved(y, session') BY <1>1, <1>3, EndsUnmoved
  <1> QED BY <1>1, <1>3, <1>4 DEF Moves, Begins, NotSent, SameWord, Unmoved, Frame

LEMMA IncomingBegins == WordInv /\ init_incoming => Moves
  <1> SUFFICES ASSUME WordInv, init_incoming PROVE Moves OBVIOUS
  <1> DEFINE asked == [session EXCEPT !.direction = "incoming", !.tx = "PROCEEDING"]
  <1>1. session.direction = "none" /\ Has(session)
    BY SessionIsSided DEF init_incoming, WordInv, CallInv
  <1>2. /\ Has(asked) /\ asked.direction = "incoming" /\ asked.tx = "PROCEEDING"
        /\ asked.final = session.final
    BY <1>1 DEF Has, Fields
  <1>3. \/ session' = Refuse(asked)
        \/ session' = Refuse(_failed(asked))
        \/ \E sdp, expires \in BOOLEAN :
             session' \in {terminate(Arrives(asked, sdp, expires)),
                           Arrives(asked, sdp, expires), TxOver(Arrives(asked, sdp, expires))}
    BY DEF init_incoming
  <1> HIDE DEF asked
  <1>4. ASSUME NEW y, Has(y), y.direction = "incoming", y.tx = "PROCEEDING", y.final = session.final,
               Follows(y, session')
        PROVE  Moves
    BY <1>1, <1>4 DEF Follows, Unmoved, Stops, Rejects, Frame, Moves, Begins, NotSent
  <1>5. CASE session' = Refuse(asked)
    BY <1>2, <1>4, <1>5, RefuseFollows DEF Incoming
  <1>6. CASE session' = Refuse(_failed(asked))
    <2>1. Unmoved(asked, _failed(asked)) BY <1>2, EndsUnmoved
    <2>2. Follows(_failed(asked), session')
      BY <1>2, <1>6, <2>1, RefuseFollows DEF Unmoved, Frame, Incoming
    <2> QED BY <1>2, <1>4, <2>1, <2>2, FollowsOn
  <1>7. ASSUME NEW sdp, NEW expires,
               session' \in {terminate(Arrives(asked, sdp, expires)),
                             Arrives(asked, sdp, expires), TxOver(Arrives(asked, sdp, expires))}
        PROVE  Moves
    <2> DEFINE t == IF expires THEN {"noAnswer", "expires"} ELSE {"noAnswer"}
               b == [asked EXCEPT !.status = "WAITING_FOR_ANSWER", !.early = {Caller},
                                  !.dialogs = {Caller}, !.late_sdp = ~sdp, !.sessions = TRUE,
                                  !.timers = t]
               y == Arrives(asked, sdp, expires)
    <2>1. y = Tell(b, "new") BY DEF Arrives
    <2>2. /\ Has(b) /\ b.direction = "incoming" /\ b.tx = "PROCEEDING" /\ b.final = session.final
      BY <1>2 DEF Has, Fields
    <2> HIDE DEF b
    <2>3. Unmoved(b, y) BY <2>1, <2>2, EndsUnmoved
    <2> HIDE DEF y
    <2>4. /\ Has(y) /\ y.direction = "incoming" /\ y.tx = "PROCEEDING" /\ y.final = session.final
      BY <2>2, <2>3 DEF Unmoved, Frame
    <2>5. Follows(y, terminate(y)) BY <2>4, TerminateFollows DEF Sided, Incoming
    <2>6. Follows(y, y) BY <2>4, EndsUnmoved, UnmovedFollows
    <2>7. Follows(y, TxOver(y)) BY <2>4, TxOverFollows DEF Follows, Stops
    <2>8. session' \in {terminate(y), y, TxOver(y)} BY <1>7 DEF y
    <2> QED BY <1>4, <2>4, <2>5, <2>6, <2>7, <2>8
  <1> QED BY <1>3, <1>5, <1>6, <1>7

LEMMA answerMoves == WordInv /\ answer => Moves
  <1> SUFFICES ASSUME WordInv, answer PROVE Moves OBVIOUS
  <1> Sided(session) /\ Has(session) BY SessionIsSided DEF WordInv, CallInv
  <1>1. /\ session'.direction = session.direction /\ session'.tx = session.tx
        /\ session'.final = session.final
    BY DEF answer, Has, Fields
  <1>2. Incoming(session) BY DEF answer, Sided, Rings
  <1> QED BY <1>1, <1>2 DEF Moves, Advances, NotSent, SameWord, Incoming

LEMMA ResponsesMove ==
  WordInv /\ (ReceiveProvisional \/ ReceiveAccepted \/ ReceiveRefused) => Moves
  <1> SUFFICES ASSUME WordInv, ReceiveProvisional \/ ReceiveAccepted \/ ReceiveRefused
               PROVE  Moves
    OBVIOUS
  <1> Has(session) BY SessionIsSided DEF WordInv, CallInv
  <1>1. ASSUME NEW y, Has(y), y.direction = session.direction, y.chain = session.chain,
               session.direction = "outgoing", y.final = session.final, Unmoved(y, session'),
               \/ session.tx \in {"CALLING", "PROCEEDING"}
                  /\ y.tx \in {"PROCEEDING", "ACCEPTED", "COMPLETED"}
               \/ session.tx = "ACCEPTED" /\ y.tx = "ACCEPTED"
        PROVE  Moves
    BY <1>1 DEF WordInv, NotSent, Moves, Advances, SameWord, Unmoved, Frame
  <1>2. CASE ReceiveProvisional
    <2> DEFINE y == [session EXCEPT !.tx = "PROCEEDING"]
    <2>1. PICK code \in {"100", "1xx"}, d \in session.ends \cup {None},
               contact \in BOOLEAN, sdp \in BOOLEAN :
            session' = Provisional(y, code, d, contact, sdp)
      BY <1>2 DEF ReceiveProvisional
    <2>2. /\ Has(y) /\ y.direction = session.direction /\ y.chain = session.chain
          /\ y.final = session.final /\ y.tx = "PROCEEDING"
      BY DEF Has, Fields
    <2> HIDE DEF y
    <2>3. session.direction = "outgoing" /\ session.tx \in {"CALLING", "PROCEEDING"}
      BY <1>2 DEF ReceiveProvisional
    <2>4. Unmoved(y, session') BY <2>1, <2>2, ProvisionalUnmoved
    <2> QED BY <1>1, <2>2, <2>3, <2>4
  <1>3. CASE ReceiveAccepted
    <2> DEFINE y(d) == [session EXCEPT !.tx = "ACCEPTED", !.accepted = @ \cup {d}]
    <2>1. PICK d \in session.ends, contact \in BOOLEAN, sdp \in BOOLEAN :
            session' = Accepted(y(d), d, contact, sdp)
      BY <1>3 DEF ReceiveAccepted
    <2>2. /\ Has(y(d)) /\ y(d).direction = session.direction /\ y(d).chain = session.chain
          /\ y(d).final = session.final /\ y(d).tx = "ACCEPTED"
      BY DEF Has, Fields
    <2> HIDE DEF y
    <2>3. session.direction = "outgoing" /\ session.tx \in {"CALLING", "PROCEEDING", "ACCEPTED"}
      BY <1>3 DEF ReceiveAccepted
    <2>4. Unmoved(y(d), session') BY <2>1, <2>2, AcceptedUnmoved
    <2> QED BY <1>1, <2>2, <2>3, <2>4
  <1>4. CASE ReceiveRefused
    <2> DEFINE y == [session EXCEPT !.tx = "COMPLETED"]
    <2>1. session' = Refused(y) BY <1>4 DEF ReceiveRefused
    <2>2. /\ Has(y) /\ y.direction = session.direction /\ y.chain = session.chain
          /\ y.final = session.final /\ y.tx = "COMPLETED"
      BY DEF Has, Fields
    <2> HIDE DEF y
    <2>3. session.direction = "outgoing" /\ session.tx \in {"CALLING", "PROCEEDING"}
      BY <1>4 DEF ReceiveRefused
    <2>4. Unmoved(y, session') BY <2>1, <2>2, RefusedUnmoved
    <2> QED BY <1>1, <2>2, <2>3, <2>4
  <1> QED BY <1>2, <1>3, <1>4

LEMMA RequestsMove ==
  WordInv /\ (ReceiveCancel \/ ReceiveAck \/ ReceiveBye) => Moves
  <1> SUFFICES ASSUME WordInv, ReceiveCancel \/ ReceiveAck \/ ReceiveBye
               PROVE  Follows(session, session')
    BY FollowsMoves DEF Moves, WordInv
  <1> Sided(session) /\ Has(session) BY SessionIsSided DEF WordInv, CallInv
  <1>1. CASE ReceiveCancel
    <2>1. session' \in {session, _failed(Refuse(session))} /\ Incoming(session)
      BY <1>1 DEF ReceiveCancel, Incoming
    <2> QED BY <2>1, FailedRefuseFollows, EndsUnmoved, UnmovedFollows
  <1>2. CASE ReceiveAck
    <2> DEFINE y == [session EXCEPT !.acked = TRUE]
    <2>1. PICK sdp \in BOOLEAN : session' = Ack(y, sdp) BY <1>2 DEF ReceiveAck
    <2>2. Unmoved(session, y) BY FieldUnmoved
    <2> HIDE DEF y
    <2>3. Sided(y) BY <2>2, SidedStays, UnmovedFollows
    <2>4. Follows(y, Ack(y, sdp)) BY <2>3, RequestFollows
    <2> QED BY <2>1, <2>2, <2>4, FollowsOn
  <1>3. CASE ReceiveBye
    <2>1. session' = Bye(session) BY <1>3 DEF ReceiveBye
    <2> QED BY <2>1, RequestFollows
  <1> QED BY <1>1, <1>2, <1>3

LEMMA SendAnswerMoves ==
  ASSUME NEW x, Has(x), Incoming(x)
  PROVE  Advances(x, SendAnswer(x))
  <1> DEFINE replied == [x EXCEPT !.chain = "none", !.tx = "ACCEPTED"]
             sent == [replied EXCEPT !.final = "2xx", !.status = "WAITING_FOR_ACK",
                                     !.timers = @ \cup {"2xx", "ack"}]
  <1>1. CASE x.tx # "PROCEEDING"
    <2>1. SendAnswer(x) = Dropped(x) BY <1>1 DEF SendAnswer, Dropped
    <2> QED BY <2>1, EndsUnmoved DEF Advances, SameWord, NotSent, Unmoved, Frame, Incoming
  <1>2. Has(replied) /\ replied.direction = x.direction /\ replied.final = x.final
    BY DEF Has, Fields
  <1>3. /\ Has(sent) /\ sent.direction = x.direction /\ sent.tx = "ACCEPTED" /\ sent.final = "2xx"
    BY DEF Has, Fields
  <1>4. SendAnswer(x) \in {[x EXCEPT !.chain = "none"], _failed(TxOver(replied)), Tell(sent, "accepted")}
    BY DEF SendAnswer
  <1>5. CASE x.tx = "PROCEEDING" /\ ~Sends
    <2>1. SendAnswer(x) = _failed(TxOver(replied)) BY <1>5 DEF SendAnswer
    <2> HIDE DEF replied
    <2>2. /\ Frame(replied, TxOver(replied)) /\ TxOver(replied).tx = "TERMINATED"
          /\ TxOver(replied).final = replied.final
      BY <1>2, TxOverFollows
    <2>3. Unmoved(TxOver(replied), _failed(TxOver(replied))) BY <2>2, EndsUnmoved DEF Frame
    <2> QED BY <1>2, <1>5, <2>1, <2>2, <2>3 DEF Advances, NotSent, Unmoved, Frame, Incoming
  <1>6. CASE x.tx = "PROCEEDING" /\ Sends
    <2>1. SendAnswer(x) = Tell(sent, "accepted") BY <1>6 DEF SendAnswer
    <2> HIDE DEF sent
    <2>2. Unmoved(sent, Tell(sent, "accepted")) BY <1>3, EndsUnmoved
    <2> QED BY <1>3, <1>6, <2>1, <2>2 DEF Advances, NotSent, Unmoved, Frame, Incoming
  <1> QED BY <1>1, <1>5, <1>6

LEMMA SendInviteMoves ==
  ASSUME NEW x, Has(x), x.direction = "outgoing", x.tx = "none"
  PROVE  Advances(x, SendInvite(x))
  <1> DEFINE sent == [x EXCEPT !.status = "INVITE_SENT", !.chain = "none"]
             y == [sent EXCEPT !.tx = "CALLING"]
             t == terminate(sent)
             z == [t EXCEPT !.tx = "TERMINATED"]
  <1>1. Unmoved(x, sent) /\ sent.chain = "none" /\ ~Rings(sent)
    BY DEF Has, Fields, Unmoved, Frame, Rings
  <1>2. SendInvite(x) \in {y, z} BY DEF SendInvite
  <1> HIDE DEF sent
  <1>3. Has(y) /\ y.tx = "CALLING" /\ y.chain = "none" /\ y.direction = sent.direction
        /\ y.final = sent.final
    BY <1>1 DEF Has, Fields, Unmoved, Frame
  <1>4. Follows(sent, t) BY <1>1, TerminateFollows DEF Sided, Unmoved, Frame
  <1>5. Unmoved(sent, t)
    BY <1>1, <1>4 DEF Follows, Stops, Rejects, Unmoved, Frame
  <1> HIDE DEF t
  <1>6. Has(z) /\ z.tx = "TERMINATED" /\ z.chain = "none" /\ z.direction = sent.direction
        /\ z.final = sent.final
    BY <1>1, <1>5 DEF Has, Fields, Unmoved, Frame
  <1> HIDE DEF y, z
  <1> QED BY <1>1, <1>2, <1>3, <1>6 DEF Advances, NotSent, Unmoved, Frame, Incoming

LEMMA MediaMoves == WordInv /\ MediaSteps => Moves
  <1> SUFFICES ASSUME WordInv, MediaSteps PROVE Moves OBVIOUS
  <1> Sided(session) /\ Has(session) /\ Sane(session) BY SessionIsSided DEF WordInv, CallInv
  <1>1. Unmoved(session, Dropped(session)) /\ Has(Dropped(session)) BY EndsUnmoved, StillHas
  <1>2. session.chain # "none" => session.direction # "none"
    BY DEF WordInv, CallInv, Fresh, Blank
  <1>3. session.chain # "none" /\ session.tx = "PROCEEDING" => Incoming(session)
    BY <1>2 DEF WordInv, NotSent, Incoming, Sane, CallType, Directions
  <1>4. session.chain # "none" => /\ Follows(session, Refuse(Dropped(session)))
                                  /\ Follows(session, _failed(Refuse(Dropped(session))))
    <2> SUFFICES ASSUME session.chain # "none"
                 PROVE  /\ Follows(session, Refuse(Dropped(session)))
                        /\ Follows(session, _failed(Refuse(Dropped(session))))
      OBVIOUS
    <2>1. Dropped(session).tx = "PROCEEDING" => Incoming(Dropped(session))
      BY <1>1, <1>3 DEF Unmoved, Frame, Incoming
    <2> QED BY <1>1, <2>1, RefuseFollows, FailedRefuseFollows, FollowsOn
  <1>5. ASSUME NEW c, session.chain # "none"
        PROVE  Follows(session, [session EXCEPT !.chain = c])
    BY <1>5 DEF Has, Fields, Follows, Unmoved, Frame, Rings
  <1>6. CASE \E granted \in BOOLEAN : Media(granted)
    <2>1. PICK granted \in BOOLEAN : Media(granted) BY <1>6
    <2> DEFINE c == IF session.direction = "incoming" /\ ~session.late_sdp THEN "remote" ELSE "local"
    <2>2. session' \in {Dropped(session), [session EXCEPT !.chain = c],
                        _failed(Refuse(Dropped(session)))} /\ session.chain # "none"
      BY <2>1 DEF Media
    <2> HIDE DEF c
    <2>3. Follows(session, session') BY <1>1, <1>4, <1>5, <2>2, UnmovedFollows
    <2> QED BY <2>3, FollowsMoves DEF Moves, WordInv
  <1>7. CASE \E set \in BOOLEAN : RemoteDescription(set)
    <2>1. session' \in {[session EXCEPT !.chain = "local"], _failed(Refuse(Dropped(session)))}
          /\ session.chain # "none"
      BY <1>7 DEF RemoteDescription
    <2>2. Follows(session, session') BY <1>4, <1>5, <2>1
    <2> QED BY <2>2, FollowsMoves DEF Moves, WordInv
  <1>8. CASE LocalDescription
    <2>1. session.chain # "none" BY <1>8 DEF LocalDescription
    <2>2. CASE Over(session)
      <3>1. session' = Dropped(session) BY <1>8, <2>2 DEF LocalDescription
      <3> QED BY <1>1, <3>1, UnmovedFollows, FollowsMoves DEF Moves, WordInv
    <2>3. CASE ~Over(session) /\ session.direction = "incoming"
      <3> DEFINE r == RunSessionTimer(session)
      <3>1. session' = SendAnswer(r) BY <1>8, <2>3 DEF LocalDescription
      <3>2. Unmoved(session, r) BY EndsUnmoved
      <3> HIDE DEF r
      <3>3. Advances(r, SendAnswer(r))
        BY <2>3, <3>2, SendAnswerMoves DEF Unmoved, Frame, Incoming
      <3> QED BY <3>1, <3>2, <3>3
            DEF Moves, Advances, SameWord, NotSent, Unmoved, Frame, Incoming
    <2>4. CASE ~Over(session) /\ session.direction # "incoming"
      <3>1. session' = SendInvite(session) BY <1>8, <2>4 DEF LocalDescription
      <3>2. session.direction = "outgoing"
        BY <1>2, <2>1, <2>4 DEF Sane, CallType, Directions
      <3>3. session.tx = "none" BY <2>1, <3>2 DEF WordInv, NotSent
      <3> QED BY <3>1, <3>2, <3>3, SendInviteMoves DEF Moves
    <2> QED BY <2>2, <2>3, <2>4
  <1>9. CASE NoLocalDescription
    <2>1. session' \in {Refuse(Dropped(session)), _failed(Dropped(session))}
          /\ session.chain # "none"
      BY <1>9 DEF NoLocalDescription
    <2>2. Unmoved(Dropped(session), _failed(Dropped(session))) BY <1>1, EndsUnmoved
    <2>3. Unmoved(session, _failed(Dropped(session))) BY <1>1, <2>2, UnmovedTwice
    <2>4. Follows(session, session') BY <1>4, <2>1, <2>3, UnmovedFollows
    <2> QED BY <2>4, FollowsMoves DEF Moves, WordInv
  <1> QED BY <1>6, <1>7, <1>8, <1>9 DEF MediaSteps

LEMMA AnswersMove == WordInv /\ AnswersSteps => Moves
  <1> SUFFICES ASSUME WordInv, AnswersSteps PROVE Follows(session, session')
    BY FollowsMoves DEF Moves, WordInv
  <1> Sided(session) /\ Has(session) BY SessionIsSided DEF WordInv, CallInv
  <1> DEFINE s == Settled(session)
  <1>1. Unmoved(session, s) BY QueueUnmoved
  <1> HIDE DEF s
  <1>2. Has(s) /\ Sided(s) BY <1>1, StillHas, SidedStays, UnmovedFollows
  <1>3. CASE \E done \in BOOLEAN : AnswerInAck(done) \/ SetAnswer(done)
    <2>1. session' \in {Confirmed(s), s, Cut(s)} BY <1>3 DEF AnswerInAck, SetAnswer, s
    <2>2. Unmoved(s, Confirmed(s)) /\ Follows(s, Cut(s)) BY <1>2, QueueUnmoved, CutFollows
    <2> QED BY <1>1, <2>1, <2>2, FollowsOn, UnmovedFollows
  <1>4. CASE \E done \in BOOLEAN : Progress(done)
    <2>1. PICK done \in BOOLEAN : session' = [s EXCEPT !.stable = @ \/ done]
      BY <1>4 DEF Progress, s
    <2>2. Unmoved(s, session') BY <1>2, <2>1, FieldUnmoved
    <2> QED BY <1>1, <2>2, UnmovedTwice, UnmovedFollows
  <1>5. ASSUME NEW y, Has(y)
        PROVE  Unmoved(y, _failed(_acceptAndTerminate(y, y.dialog, TRUE)))
    <2>1. Unmoved(y, _acceptAndTerminate(y, y.dialog, TRUE)) BY <1>5, AstrayUnmoved
    <2>2. Has(_acceptAndTerminate(y, y.dialog, TRUE)) BY <2>1, StillHas
    <2> QED BY <2>1, <2>2, EndsUnmoved, UnmovedTwice
  <1>6. CASE \E done \in BOOLEAN : RenewOffer(done)
    <2> DEFINE y == [s EXCEPT !.stable = FALSE, !.answering = TRUE]
               gone == _failed(_acceptAndTerminate(y, y.dialog, TRUE))
    <2>1. session' \in {y, gone}
      BY <1>6 DEF RenewOffer, s
    <2>2. Unmoved(s, y) BY <1>2 DEF Has, Fields, Unmoved, Frame, Rings
    <2> HIDE DEF y
    <2>3. Unmoved(session, y) /\ Has(y) BY <1>1, <2>2, UnmovedTwice, StillHas
    <2>4. Unmoved(y, gone) BY <1>5, <2>3
    <2> HIDE DEF gone
    <2>5. Unmoved(session, session') BY <2>1, <2>3, <2>4, UnmovedTwice
    <2> QED BY <2>5, UnmovedFollows
  <1>7. CASE \E done \in BOOLEAN : RemoteAnswer(done)
    <2> DEFINE y == [session EXCEPT !.answering = FALSE]
               r == RunSessionTimer(y)
               t == Tell(r, "accepted")
               a == SendAck(t)
               gone == _failed(_acceptAndTerminate(y, y.dialog, TRUE))
    <2>1. session' \in {Confirmed(a), gone}
      BY <1>7 DEF RemoteAnswer
    <2>2. Unmoved(session, y) BY FieldUnmoved
    <2> HIDE DEF y
    <2>3. Unmoved(y, r) BY <2>2, EndsUnmoved, StillHas
    <2> HIDE DEF r
    <2>4. Unmoved(r, t) BY <2>3, EndsUnmoved, StillHas
    <2> HIDE DEF t
    <2>5. Unmoved(t, a) BY <2>4, EndsUnmoved, StillHas
    <2> HIDE DEF a
    <2>6. Unmoved(a, Confirmed(a)) BY <2>5, QueueUnmoved, StillHas
    <2>7. Unmoved(y, gone) BY <1>5, <2>2, StillHas
    <2> HIDE DEF gone
    <2>8. Unmoved(session, a) BY <2>2, <2>3, <2>4, <2>5, UnmovedTwice
    <2>9. Unmoved(session, session') BY <2>1, <2>2, <2>6, <2>7, <2>8, UnmovedTwice
    <2> QED BY <2>9, UnmovedFollows
  <1> QED BY <1>3, <1>4, <1>6, <1>7 DEF AnswersSteps

LEMMA OffersMove == WordInv /\ OffersSteps => Moves
  <1> SUFFICES ASSUME WordInv, OffersSteps PROVE Follows(session, session')
    BY FollowsMoves DEF Moves, WordInv
  <1> Sided(session) /\ Has(session) BY SessionIsSided DEF WordInv, CallInv
  <1> DEFINE s == Settled(session)
  <1>1. Unmoved(session, s) BY QueueUnmoved
  <1> HIDE DEF s
  <1>2. Has(s) /\ Sided(s) BY <1>1, StillHas, SidedStays, UnmovedFollows
  <1>3. ASSUME NEW x, Unmoved(session, x)
        PROVE  Unmoved(session, Decline(x)) /\ Unmoved(session, RunSessionTimer(x))
    BY <1>3, StillHas, QueueUnmoved, EndsUnmoved, UnmovedTwice
  <1>4. CASE \E done \in BOOLEAN : SetOffer(done)
    <2> DEFINE q == <<Op("ranswer", 0)>> \o Tail(session.queue)
    <2>1. session' \in {[session EXCEPT !.queue = q], RunSessionTimer(Decline(s))}
      BY <1>4 DEF SetOffer, s
    <2> HIDE DEF q
    <2>2. Unmoved(session, [session EXCEPT !.queue = q]) BY FieldUnmoved
    <2>3. Unmoved(session, RunSessionTimer(Decline(s))) BY <1>1, <1>3
    <2> QED BY <2>1, <2>2, <2>3, UnmovedFollows
  <1>5. CASE MakeAnswer \/ MakeOffer
    <2> DEFINE r == RunSessionTimer(s)
    <2>1. session' \in {s, Accept(r)} BY <1>5 DEF MakeAnswer, MakeOffer, s
    <2>2. Unmoved(session, r) BY <1>1, <1>3
    <2> HIDE DEF r
    <2>3. Unmoved(r, Accept(r)) BY <2>2, MediaUnmoved, StillHas
    <2> QED BY <1>1, <2>1, <2>2, <2>3, UnmovedTwice, UnmovedFollows
  <1>6. CASE MakeNothing
    <2>1. PICK broken \in BOOLEAN :
            LET failed == Decline([s EXCEPT !.rtc_broken = @ \/ broken])
            IN  session' = IF HeadIs("ranswer") THEN RunSessionTimer(failed) ELSE failed
      BY <1>6 DEF MakeNothing, s
    <2> DEFINE y == [s EXCEPT !.rtc_broken = @ \/ broken]
    <2>2. session' \in {Decline(y), RunSessionTimer(Decline(y))} BY <2>1
    <2>3. Unmoved(s, y) BY <1>2, FieldUnmoved
    <2> HIDE DEF y
    <2>4. Unmoved(session, y) BY <1>1, <2>3, UnmovedTwice
    <2>5. Unmoved(session, session') BY <1>3, <2>2, <2>4
    <2> QED BY <2>5, UnmovedFollows
  <1>7. CASE \E done \in BOOLEAN : LocalOffer(done)
    <2> DEFINE i == Head(session.queue).offer
               over == Step(s, i, "over")
               sent == [Step(s, i, "sent") EXCEPT !.uac_pending = TRUE]
               y(b) == [over EXCEPT !.rtc_broken = b]
    <2>1. \/ session' \in {over, sent, Cut(over)}
          \/ \E b : session' = Cut(y(b))
      BY <1>7 DEF LocalOffer, SendOffer, s
    <2> HIDE DEF i
    <2>2. Unmoved(session, over) /\ Unmoved(session, Step(s, i, "sent"))
      BY <1>1, <1>2, MediaUnmoved, UnmovedTwice
    <2>3. Unmoved(session, sent) BY <2>2, FieldUnmoved, StillHas, UnmovedTwice
    <2> HIDE DEF over, sent
    <2>4. ASSUME NEW z, Unmoved(session, z) PROVE Follows(session, Cut(z))
      <3>1. Sided(z) BY <2>4, SidedStays, UnmovedFollows
      <3> QED BY <2>4, <3>1, CutFollows, FollowsOn
    <2>5. ASSUME NEW b PROVE Unmoved(session, y(b))
      BY <2>2, FieldUnmoved, StillHas, UnmovedTwice
    <2> HIDE DEF y
    <2> QED BY <2>1, <2>2, <2>3, <2>4, <2>5, UnmovedFollows
  <1> QED BY <1>4, <1>5, <1>6, <1>7 DEF OffersSteps

LEMMA OwnChangeMoves ==
  ASSUME WordInv, NEW i \in Offers,
         renegotiate(i) \/ OfferAccepted(i) \/ OfferRefused(i) \/ OfferCrossed(i) \/ Reattempt(i)
  PROVE  Moves
  <1> SUFFICES Follows(session, session') BY FollowsMoves DEF Moves, WordInv
  <1> Sided(session) /\ Has(session) BY SessionIsSided DEF WordInv, CallInv
  <1> DEFINE f == Final(session, i)
             over == Step(session, i, "over")
             sent == [Step(session, i, "resent") EXCEPT !.uac_pending = TRUE]
  <1>1. Unmoved(session, f) /\ Unmoved(session, over) BY MediaUnmoved
  <1>2. ASSUME NEW x, Unmoved(session, x) PROVE Follows(session, terminate(x))
    <2>1. Sided(x) BY <1>2, SidedStays, UnmovedFollows
    <2> QED BY <1>2, <2>1, TerminateFollows, FollowsOn
  <1>3. CASE renegotiate(i)
    <2> DEFINE y == Step(session, i, "queued")
    <2>1. session' = [y EXCEPT !.queue = Append(@, Op("reoffer", i))] BY <1>3 DEF renegotiate
    <2>2. Unmoved(session, y) BY MediaUnmoved
    <2> HIDE DEF y
    <2>3. Unmoved(y, session') BY <2>1, <2>2, FieldUnmoved, StillHas
    <2> QED BY <2>2, <2>3, UnmovedTwice, UnmovedFollows
  <1>4. CASE OfferAccepted(i)
    <2> DEFINE a == SendAck(f)
               h == RunSessionTimer(a)
               q == [h EXCEPT !.queue = Append(@, Op("reanswer", i))]
    <2>1. session' \in {f, q, terminate(h)} BY <1>4 DEF OfferAccepted
    <2> HIDE DEF f
    <2>2. Unmoved(f, a) BY <1>1, EndsUnmoved, StillHas
    <2> HIDE DEF a
    <2>3. Unmoved(a, h) BY <2>2, EndsUnmoved, StillHas
    <2> HIDE DEF h
    <2>4. Unmoved(h, q) BY <2>3, FieldUnmoved, StillHas
    <2>5. Unmoved(session, h) BY <1>1, <2>2, <2>3, UnmovedTwice
    <2> HIDE DEF q
    <2> QED BY <1>1, <1>2, <2>1, <2>4, <2>5, UnmovedTwice, UnmovedFollows
  <1>5. CASE OfferRefused(i) BY <1>1, <1>2, <1>5 DEF OfferRefused
  <1>6. CASE OfferCrossed(i)
    <2>1. session' = Step(f, i, "retry") BY <1>6 DEF OfferCrossed, Step
    <2> HIDE DEF f
    <2>2. Unmoved(f, session') BY <1>1, <2>1, MediaUnmoved, StillHas
    <2> QED BY <1>1, <2>2, UnmovedTwice, UnmovedFollows
  <1>7. CASE Reattempt(i)
    <2>1. session' \in {sent, terminate(over)} BY <1>7 DEF Reattempt, SendOffer
    <2>2. Unmoved(session, Step(session, i, "resent")) BY MediaUnmoved
    <2>3. Unmoved(session, sent) BY <2>2, FieldUnmoved, StillHas, UnmovedTwice
    <2> HIDE DEF sent, over
    <2> QED BY <1>1, <1>2, <2>1, <2>3, UnmovedFollows
  <1> QED BY <1>3, <1>4, <1>5, <1>6, <1>7

LEMMA ChangeMoves == WordInv /\ Change => Moves
  <1> SUFFICES ASSUME WordInv, Change PROVE Moves OBVIOUS
  <1> Sided(session) /\ Has(session) BY SessionIsSided DEF WordInv, CallInv
  <1>1. CASE ReceiveReinvite \/ ReceiveUpdate
    <2>1. PICK method, sdp, welcome : session' = Offered(Begin(session, method), sdp, welcome)
      BY <1>1 DEF ReceiveReinvite, ReceiveUpdate
    <2> DEFINE b == Begin(session, method)
    <2>2. Unmoved(session, b) BY MediaUnmoved
    <2>3. session' = Offered(b, sdp, welcome) BY <2>1
    <2> HIDE DEF b
    <2>4. Unmoved(b, session') BY <2>2, <2>3, MediaUnmoved, StillHas
    <2> QED BY <2>2, <2>4, UnmovedTwice, UnmovedFollows, FollowsMoves DEF Moves, WordInv
  <1>2. CASE ReceiveRefresh
    <2>1. session' = RunSessionTimer(session) BY <1>2 DEF ReceiveRefresh
    <2> QED BY <2>1, EndsUnmoved, UnmovedFollows, FollowsMoves DEF Moves, WordInv
  <1>3. CASE Refreshed
    <2> DEFINE x == [session EXCEPT !.update = FALSE]
    <2>1. session' \in {x, RunSessionTimer(x), terminate(x)} BY <1>3 DEF Refreshed
    <2>2. Unmoved(session, x) BY FieldUnmoved
    <2> HIDE DEF x
    <2>3. Sided(x) /\ Has(x) BY <2>2, StillHas, SidedStays, UnmovedFollows
    <2>4. Unmoved(x, RunSessionTimer(x)) /\ Follows(x, terminate(x))
      BY <2>3, EndsUnmoved, TerminateFollows
    <2>5. Follows(session, session') BY <2>1, <2>2, <2>4, UnmovedFollows, FollowsOn
    <2> QED BY <2>5, FollowsMoves DEF Moves, WordInv
  <1> QED BY <1>1, <1>2, <1>3, OwnChangeMoves DEF Change

LEMMA TimerMoves == WordInv /\ Timer => Moves
  <1> SUFFICES ASSUME WordInv, Timer PROVE Moves OBVIOUS
  <1> Sided(session) /\ Has(session) /\ Sane(session) BY SessionIsSided DEF WordInv, CallInv
  <1> DEFINE y(name) == [session EXCEPT !.timers = @ \ {name}]
  <1>1. ASSUME NEW name PROVE Unmoved(session, y(name)) /\ Has(y(name)) /\ y(name).status = session.status
    <2>1. Unmoved(session, y(name)) BY FieldUnmoved
    <2>2. y(name).status = session.status BY DEF Has, Fields
    <2> QED BY <2>1, <2>2, StillHas
  <1> HIDE DEF y
  <1>2. ASSUME NEW name, Incoming(session) PROVE Follows(session, _failed(Refuse(y(name))))
    <2>1. Unmoved(session, y(name)) /\ Has(y(name)) BY <1>1
    <2>2. Incoming(y(name)) BY <1>2, <2>1 DEF Unmoved, Frame, Incoming
    <2> QED BY <2>1, <2>2, FailedRefuseFollows, FollowsOn
  <1>3. session.tx # "none" => Follows(session, TxOver(session))
    BY TxOverFollows DEF Follows, Stops
  <1>4. SUFFICES ASSUME ~(\E i \in Offers : Reattempt(i))
                 PROVE  Follows(session, session')
    BY OwnChangeMoves, FollowsMoves DEF Moves, WordInv
  <1>5. CASE NoAnswerTimer
    <2>1. session' = _failed(Refuse(y("noAnswer"))) BY <1>5 DEF NoAnswerTimer, y
    <2>2. Incoming(session) BY <1>5 DEF NoAnswerTimer, Sane, Agreed, Sides, Sided, Rings
    <2> QED BY <1>2, <2>1, <2>2
  <1>6. CASE ExpiresTimer
    <2>1. session' = IF y("expires").status = "WAITING_FOR_ANSWER"
                     THEN _failed(Refuse(y("expires"))) ELSE y("expires")
      BY <1>6 DEF ExpiresTimer, y
    <2>2. y("expires").status = "WAITING_FOR_ANSWER" => Incoming(session)
      BY <1>1 DEF Sided, Rings
    <2> QED BY <1>1, <1>2, <2>1, <2>2, UnmovedFollows
  <1>7. CASE ResendTimer
    <2>1. \/ session' \in {y("2xx"), session, [session EXCEPT !.reinvite = "TERMINATED"]}
          \/ session.tx = "ACCEPTED" /\ session' = TxOver(session)
      BY <1>7 DEF ResendTimer, y
    <2>2. Unmoved(session, [session EXCEPT !.reinvite = "TERMINATED"]) /\ Unmoved(session, session)
      BY FieldUnmoved, EndsUnmoved
    <2> QED BY <1>1, <1>3, <2>1, <2>2, UnmovedFollows
  <1>8. CASE AckTimer
    <2>1. session' \in {y("ack"), _ended(SendBye(y("ack")))} BY <1>8 DEF AckTimer, y
    <2> DEFINE b == SendBye(y("ack"))
    <2>2. Unmoved(y("ack"), b) BY <1>1, EndsUnmoved
    <2>3. Unmoved(session, b) BY <1>1, <2>2, UnmovedTwice
    <2>4. session' \in {y("ack"), _ended(b)} BY <2>1
    <2> HIDE DEF b
    <2>5. Unmoved(b, _ended(b)) BY <2>3, EndsUnmoved, StillHas
    <2> QED BY <1>1, <2>3, <2>4, <2>5, UnmovedTwice, UnmovedFollows
  <1>9. CASE TxTimer
    <2> DEFINE over == TxOver(session)
    <2>1. session' \in {over, terminate(over)} /\ session.tx # "none" BY <1>9 DEF TxTimer
    <2>2. Frame(session, over) /\ over.tx = "TERMINATED" /\ over.final = session.final
      BY TxOverFollows
    <2>3. Sided(over) BY <1>3, <2>1, SidedStays
    <2> HIDE DEF over
    <2>4. Follows(over, terminate(over)) BY <2>3, TerminateFollows
    <2>5. /\ Frame(over, terminate(over)) /\ terminate(over).tx = "TERMINATED"
          /\ terminate(over).final = over.final
      BY <2>2, <2>4 DEF Follows, Unmoved, Stops, Rejects
    <2> QED BY <2>1, <2>2, <2>5 DEF Follows, Stops, Frame
  <1>10. CASE ProvisionalTimer BY <1>3, <1>10 DEF ProvisionalTimer
  <1>11. CASE ReinviteTimer
    <2>1. session' = [session EXCEPT !.reinvite = "TERMINATED"] BY <1>11 DEF ReinviteTimer
    <2> QED BY <2>1, FieldUnmoved, UnmovedFollows
  <1>12. CASE SessionTimer
    <2> DEFINE x == [session EXCEPT !.session_timer = "none"]
    <2>1. session' \in {x, terminate(x), [x EXCEPT !.update = TRUE]} BY <1>12 DEF SessionTimer
    <2>2. Unmoved(session, x) BY FieldUnmoved
    <2> HIDE DEF x
    <2>3. Sided(x) /\ Has(x) BY <2>2, StillHas, SidedStays, UnmovedFollows
    <2>4. Unmoved(x, [x EXCEPT !.update = TRUE]) /\ Follows(x, terminate(x))
      BY <2>3, FieldUnmoved, TerminateFollows
    <2> QED BY <2>1, <2>2, <2>4, UnmovedFollows, FollowsOn
  <1> QED BY <1>4, <1>5, <1>6, <1>7, <1>8, <1>9, <1>10, <1>11, <1>12 DEF Timer

LEMMA NextMoves ==
  ASSUME WordInv, Next
  PROVE  Moves \/ UNCHANGED session
  <1>1. Terminate => Moves
    <2>1. Sided(session) BY SessionIsSided DEF WordInv, CallInv
    <2> QED BY <2>1, TerminateFollows, FollowsMoves DEF Terminate, Moves, WordInv
  <1>2. Browser => Moves
    BY MediaMoves, AnswersMove, OffersMove DEF Browser, MediaSteps, AnswersSteps, OffersSteps
  <1>3. Initial => Moves
    BY ConnectBegins, IncomingBegins, answerMoves, ResponsesMove, RequestsMove DEF Initial
  <1>4. Lost \/ onTransportConnect => UNCHANGED session BY DEF Lost, onTransportConnect
  <1> QED BY <1>1, <1>2, <1>3, <1>4, ChangeMoves, TimerMoves, DisconnectMoves DEF Next

LEMMA WordStep == WordInv /\ [Next]_vars => WordInv'
  <1> SUFFICES ASSUME WordInv, [Next]_vars PROVE WordInv' OBVIOUS
  <1>1. CallInv' BY CallStep DEF WordInv
  <1>2. CASE UNCHANGED session BY <1>1, <1>2 DEF WordInv, NotSent
  <1>3. CASE Moves BY <1>1, <1>3 DEF WordInv, Moves, Advances, Begins, NotSent
  <1> QED BY <1>2, <1>3, NextMoves DEF vars

\* What the session shows of its transaction.
LEMMA Shown ==
  ASSUME NEW x
  PROVE  /\ x.tx = "none" => TxSide(x) = "none" /\ TxPhase(x) = "none"
         /\ x.tx # "none" => TxSide(x) = IF x.direction = "outgoing" THEN "client" ELSE "server"
         /\ x.tx = "CALLING" => TxPhase(x) = "calling"
         /\ x.tx = "PROCEEDING" => TxPhase(x) = "proceeding"
         /\ x.tx = "ACCEPTED" => TxPhase(x) = "accepted"
         /\ x.tx = "COMPLETED" => TxPhase(x) = "completed"
         /\ x.tx = "TERMINATED" => TxPhase(x) = "over"
  <1>1. x.tx = "none" => TxPhase(x) = "none" BY DEF TxPhase
  <1>2. x.tx = "CALLING" => TxPhase(x) = "calling" BY DEF TxPhase
  <1>3. x.tx = "PROCEEDING" => TxPhase(x) = "proceeding" BY DEF TxPhase
  <1>4. x.tx = "ACCEPTED" => TxPhase(x) = "accepted" BY DEF TxPhase
  <1>5. x.tx = "COMPLETED" => TxPhase(x) = "completed" BY DEF TxPhase
  <1>6. x.tx = "TERMINATED" => TxPhase(x) = "over" BY DEF TxPhase
  <1> QED BY <1>1, <1>2, <1>3, <1>4, <1>5, <1>6 DEF TxSide

TheSide == [i \in {Caller} |-> TxSide(session)]
ThePhase == [i \in {Caller} |-> TxPhase(session)]
TheFinal == [i \in {Caller} |-> session.final]

\* A step of the call is a step of its abstract transaction, or none.
LEMMA MovesKeep ==
  ASSUME WordInv, Moves
  PROVE  [Invitation!Next]_(Invitation!vars)
  <1> DEFINE x == session
             y == session'
  <1>1. /\ TheSide' = [TheSide EXCEPT ![Caller] = TxSide(y)]
        /\ ThePhase' = [ThePhase EXCEPT ![Caller] = TxPhase(y)]
        /\ TheFinal' = [TheFinal EXCEPT ![Caller] = y.final]
    BY DEF TheSide, ThePhase, TheFinal
  <1>2. /\ TheSide[Caller] = TxSide(x) /\ ThePhase[Caller] = TxPhase(x)
        /\ TheFinal[Caller] = x.final
    BY DEF TheSide, ThePhase, TheFinal
  <1>a. /\ TxSide(y) = TxSide(x) => TheSide' = TheSide
        /\ TxPhase(y) = TxPhase(x) => ThePhase' = ThePhase
        /\ y.final = x.final => TheFinal' = TheFinal
    BY DEF TheSide, ThePhase, TheFinal
  <1>b. x.tx \in {"none", "CALLING", "PROCEEDING", "ACCEPTED", "COMPLETED", "TERMINATED"}
    BY DEF WordInv, CallInv, Sane, CallType, TxStates
  <1>c. x.direction = "none" => x.tx = "none" /\ x.final = "none"
    BY DEF WordInv, CallInv, Fresh, Blank
  <1> HIDE DEF x, y
  <1>3. ASSUME TxSide(y) = TxSide(x), TxPhase(y) = TxPhase(x), y.final = x.final
        PROVE  UNCHANGED Invitation!vars
    BY <1>3, <1>a DEF Invitation!vars, TheSide, ThePhase, TheFinal
  <1>4. ASSUME x.tx = "none", y.tx # "none", y.direction = "outgoing",
               y.tx \in {"CALLING", "TERMINATED"}, y.final = x.final
        PROVE  Invitation!Next
    <2>1. /\ TxSide(x) = "none" /\ TxSide(y) = "client" /\ TxPhase(y) \in {"calling", "over"}
      BY <1>4, Shown
    <2>2. Invitation!Call(Caller)
      BY <1>1, <1>2, <1>4, <1>a, <2>1 DEF Invitation!Call, TheSide, ThePhase, TheFinal
    <2> QED BY <2>2 DEF Invitation!Next
  <1>5. CASE Begins(x, y)
    <2>1. x.tx = "none" /\ TxSide(x) = "none" /\ TxPhase(x) = "none"
      BY <1>5, <1>c, Shown DEF Begins
    <2>2. CASE y.direction = "outgoing" /\ SameWord(x, y)
      BY <1>3, <2>1, <2>2, Shown DEF SameWord
    <2>3. CASE y.direction = "incoming" /\ y.tx \in {"PROCEEDING", "TERMINATED"} /\ y.final = x.final
      <3>1. TxSide(y) = "server" /\ TxPhase(y) \in {"proceeding", "over"} BY <2>3, Shown
      <3>2. Invitation!Serve(Caller)
        BY <1>1, <1>2, <1>a, <2>1, <2>3, <3>1 DEF Invitation!Serve, TheSide, ThePhase, TheFinal
      <3> QED BY <3>2 DEF Invitation!Next
    <2>4. CASE y.direction = "incoming" /\ y.tx = "COMPLETED" /\ y.final = "reject"
      <3>1. TxSide(y) = "server" /\ TxPhase(y) = "completed" BY <2>4, Shown
      <3>2. Invitation!Serve(Caller)
        BY <1>1, <1>2, <2>1, <2>4, <3>1 DEF Invitation!Serve, TheSide, ThePhase, TheFinal
      <3> QED BY <3>2 DEF Invitation!Next
    <2> QED BY <1>5, <2>2, <2>3, <2>4 DEF Begins
  <1>6. CASE Advances(x, y)
    <2>0. y.direction = x.direction BY <1>6 DEF Advances
    <2>1. CASE SameWord(x, y) BY <1>3, <2>0, <2>1 DEF SameWord, TxSide, TxPhase
    <2>2. CASE x.tx # "none" /\ y.tx = "TERMINATED" /\ y.final = x.final
      <3>1. TxSide(y) = TxSide(x) /\ TxPhase(y) = "over" /\ TxPhase(x) # "none"
        BY <1>b, <2>0, <2>2, Shown
      <3>2. ThePhase' = [i \in {Caller} |-> IF i \in {Caller} THEN "over" ELSE ThePhase[i]]
        BY <1>1, <3>1 DEF ThePhase
      <3>3. Invitation!End({Caller})
        BY <1>2, <1>a, <2>2, <3>1, <3>2 DEF Invitation!End, TheSide, ThePhase, TheFinal
      <3> QED BY <3>3 DEF Invitation!Next
    <2>3. ASSUME NEW code \in {"2xx", "reject"}, Incoming(x), x.tx = "PROCEEDING", y.final = code,
                 y.tx = IF code = "2xx" THEN "ACCEPTED" ELSE "COMPLETED"
          PROVE  Invitation!Next
      <3>1. /\ TxSide(y) = TxSide(x) /\ TxSide(x) = "server" /\ TxPhase(x) = "proceeding"
            /\ TxPhase(y) = IF code = "2xx" THEN "accepted" ELSE "completed"
        BY <2>0, <2>3, Shown DEF Incoming
      <3>2. Invitation!Answer(Caller, code)
        BY <1>1, <1>2, <1>a, <2>3, <3>1 DEF Invitation!Answer, TheSide, ThePhase, TheFinal
      <3> QED BY <3>2 DEF Invitation!Next
    <2>4. CASE /\ Incoming(x) /\ x.tx = "PROCEEDING"
               /\ <<y.tx, y.final>> \in {<<"COMPLETED", "reject">>, <<"ACCEPTED", "2xx">>}
      <3>1. \/ y.tx = "COMPLETED" /\ y.final = "reject"
            \/ y.tx = "ACCEPTED" /\ y.final = "2xx"
        BY <2>4
      <3> QED BY <2>3, <2>4, <3>1
    <2>5. CASE /\ x.tx = "none" /\ y.tx \in {"CALLING", "TERMINATED"}
               /\ x.direction = "outgoing" /\ y.final = x.final
      BY <1>4, <2>0, <2>5
    <2>6. CASE /\ x.direction = "outgoing" /\ x.tx \in {"CALLING", "PROCEEDING"}
               /\ y.tx \in {"PROCEEDING", "ACCEPTED", "COMPLETED"} /\ y.final = x.final
      <3>1. /\ TxSide(y) = TxSide(x) /\ TxSide(x) = "client"
            /\ TxPhase(x) = IF x.tx = "CALLING" THEN "calling" ELSE "proceeding"
        BY <2>0, <2>6, Shown
      <3>2. CASE y.tx = "PROCEEDING" /\ x.tx = "PROCEEDING"
        <4>1. TxPhase(y) = TxPhase(x) BY <3>2, Shown
        <4> QED BY <1>3, <2>6, <3>1, <4>1
      <3>3. CASE y.tx = "PROCEEDING" /\ x.tx = "CALLING"
        <4>1. TxPhase(y) = "proceeding" /\ TxPhase(x) = "calling" BY <3>3, Shown
        <4>2. Invitation!Provisional(Caller)
          BY <1>1, <1>2, <1>a, <2>6, <3>1, <4>1
             DEF Invitation!Provisional, TheSide, ThePhase, TheFinal
        <4> QED BY <4>2 DEF Invitation!Next
      <3>4. ASSUME NEW code \in {"2xx", "reject"},
                   y.tx = IF code = "2xx" THEN "ACCEPTED" ELSE "COMPLETED"
            PROVE  Invitation!Next
        <4>1. TxPhase(y) = (IF code = "2xx" THEN "accepted" ELSE "completed")
              /\ TxPhase(x) \in {"calling", "proceeding"}
          BY <2>6, <3>1, <3>4, Shown
        <4>2. Invitation!Answer(Caller, code)
          BY <1>1, <1>2, <1>a, <2>6, <3>1, <4>1
             DEF Invitation!Answer, TheSide, ThePhase, TheFinal
        <4> QED BY <4>2 DEF Invitation!Next
      <3> QED BY <2>6, <3>2, <3>3, <3>4
    <2> QED BY <1>6, <2>1, <2>2, <2>4, <2>5, <2>6 DEF Advances
  <1> QED BY <1>5, <1>6 DEF Moves, x, y

(* The INVITE transaction of a call does for it what JsTransactions shows that one does,
   whatever the user, the other end, the browser, the timers and the connection do to the
   call, in whatever order: it begins once, sends one final answer, and none after a
   CANCEL, a timer or the loss of the connection has ended it; it holds for any number of
   forks and of changes of the media. *)
THEOREM InviteKept == Spec => InviteKeepsItsWord
  <1>1. Init => Invitation!Init /\ WordInv
    <2> SUFFICES ASSUME Init PROVE Invitation!Init /\ WordInv OBVIOUS
    <2>0. PICK ends, role : session = [Unused EXCEPT !.ends = ends, !.role = role]
      BY DEF Init
    <2>a. session.direction = "none" BY <2>0 DEF Unused
    <2>1. CallInv /\ session.tx = "none" /\ session.final = "none" /\ session.direction = "none"
      BY <2>a, InitIsSane DEF CallInv, Fresh, Blank
    <2>2. TxSide(session) = "none" /\ TxPhase(session) = "none" BY <2>1, Shown
    <2> QED BY <2>1, <2>2 DEF Invitation!Init, Invitation!All, WordInv, NotSent
  <1>2. WordInv /\ [Next]_vars => [Invitation!Next]_(Invitation!vars)
    <2> SUFFICES ASSUME WordInv, [Next]_vars PROVE [Invitation!Next]_(Invitation!vars) OBVIOUS
    <2>1. CASE UNCHANGED session
      <3>1. TheSide' = TheSide /\ ThePhase' = ThePhase /\ TheFinal' = TheFinal
        BY <2>1 DEF TheSide, ThePhase, TheFinal
      <3> QED BY <3>1 DEF Invitation!vars, TheSide, ThePhase, TheFinal
    <2> QED BY <2>1, NextMoves, MovesKeep DEF vars
  <1> QED BY <1>1, <1>2, WordStep, PTL DEF Spec, InviteKeepsItsWord, Invitation!Spec
===============================================================================
