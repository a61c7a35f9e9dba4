--------------------------- MODULE JsRegistrator ---------------------------
(* The registration of JsSIP (modules Registrator and RequestSender of
   jssip.js), the REGISTER requests that are under way, and the registrar. The
   operators give the registrator after a call or an event. *)
EXTENDS Naturals, Sequences
LOCAL INSTANCE SequencesExt

CONSTANTS
  Answers        \* what the registrar may answer

VARIABLES
  registrator,   \* registered, registering, cseq, timer (_registrationTimer), requests; ignored: a 2xx without our contact was the last heard; crossed: see register
  bound          \* whether the registrar holds the binding

(* A request: whether it registers, its CSeq, what the registrar has answered,
   and the flags of its RequestSender. *)
AllAnswers == {"2xx", "noContact", "401", "stale", "4xx", "423"}
Request == [wants : BOOLEAN, cseq : Nat, answer : AllAnswers \cup {"none"}, challenged : BOOLEAN, staled : BOOLEAN]
RegistratorType ==
  [registered : BOOLEAN, registering : BOOLEAN, cseq : Nat, timer : BOOLEAN, ignored : BOOLEAN, crossed : BOOLEAN,
   requests : Seq(Request)]

ASSUME AnswersAssumption == Answers \subseteq AllAnswers

RegistratorInit ==
  /\ registrator = [registered |-> FALSE, registering |-> FALSE, cseq |-> 0, timer |-> FALSE, ignored |-> FALSE,
                    crossed |-> FALSE, requests |-> <<>>]
  /\ bound = FALSE

Quiet(r) == r.requests = <<>>
_registrationFailure(r) == [r EXCEPT !.registering = FALSE, !.registered = FALSE]
_unregistered(r) == [r EXCEPT !.registering = FALSE, !.registered = FALSE]
Fails(r, wants) == IF wants THEN _registrationFailure(r) ELSE _unregistered(r)
onTransportClosed_keepsRegistering(r) ==
  [r EXCEPT !.timer = FALSE, !.registered = FALSE, !.crossed = FALSE, !.requests = <<>>]
onTransportClosed(r) ==
  [r EXCEPT !.registering = FALSE, !.timer = FALSE, !.registered = FALSE, !.crossed = FALSE, !.requests = <<>>]

\* RequestSender.send: without a connection the transaction fails at once.
Sent(r, wants, n, challenged, staled, open) ==
  IF open
  THEN [r EXCEPT !.requests = Append(@, [wants |-> wants, cseq |-> n, answer |-> "none",
                                         challenged |-> challenged, staled |-> staled])]
  ELSE Fails(r, wants)
\* The constructor of RequestSender reports an error when the user agent was closed; the request is sent all the same.
New(r, wants, open, closed) ==
  LET next == [r EXCEPT !.cseq = @ + 1]
      told == IF closed THEN Fails(next, wants) ELSE next
  IN Sent(IF wants THEN [told EXCEPT !.registering = TRUE] ELSE told, wants, next.cseq, FALSE, FALSE, open)

\* Only _registering is tested: a REGISTER is also sent over a removal, or an older
\* REGISTER, that is not answered. crossed remembers it, until the connection is lost
\* or a registration starts anew.
Crossing(r) == ~Quiet(r) \/ (r.crossed /\ r.registered)
register(r, open, closed) ==
  IF r.registering THEN r ELSE New([r EXCEPT !.crossed = Crossing(r)], TRUE, open, closed)
unregister(r, open, closed) ==
  IF ~r.registered THEN r ELSE New([r EXCEPT !.registered = FALSE, !.timer = FALSE], FALSE, open, closed)
close(r, open) == unregister(r, open, FALSE)

\* The timer of the registration: nobody listens to registrationExpiring.
Expiring(r, open, closed) == register([r EXCEPT !.timer = FALSE], open, closed)

(***************************************************************************)
(* Responses.                                                               *)
(***************************************************************************)
Without(r, i) == [r EXCEPT !.requests = RemoveAt(@, i)]

\* onReceiveResponse of register: only the answer to the last CSeq counts.
CountsAlways(r, q) == TRUE
Counts(r, q) == q.cseq = r.cseq
Registered(r, answer, open, closed) ==
  LET heard == [r EXCEPT !.timer = FALSE, !.ignored = FALSE]
  IN CASE answer = "2xx" -> [heard EXCEPT !.registering = FALSE, !.registered = TRUE, !.timer = TRUE]
       [] answer = "noContact" -> [heard EXCEPT !.registering = FALSE, !.ignored = TRUE]
       [] answer = "423" -> register(heard, open, closed)
       [] OTHER -> _registrationFailure(heard)
Provisional(r, q) == IF q.wants /\ Counts(r, q) THEN [r EXCEPT !.timer = FALSE] ELSE r

\* RequestSender._receiveResponse: a challenge is answered once, and once more if it says stale.
Authenticates(q) ==
  q.answer \in {"401", "stale"} /\ (~q.challenged \/ (~q.staled /\ q.answer = "stale"))
_receiveResponse(r, i, open, closed) ==
  LET q == r.requests[i]
      rest == Without(r, i)
  IN IF Authenticates(q)
     THEN Sent([rest EXCEPT !.cseq = @ + 1], q.wants, q.cseq + 1, TRUE, q.staled \/ q.answer = "stale", open)
     ELSE IF ~q.wants THEN _unregistered(rest)
     ELSE IF Counts(r, q) THEN Registered(rest, q.answer, open, closed)
     ELSE rest

\* Timer F of the oldest request.
TimedOut(r) == Fails(Without(r, 1), r.requests[1].wants)

\* The registrar answers the requests in the order they were sent.
Unanswered(r) == {i \in DOMAIN r.requests : r.requests[i].answer = "none"}
Bindings(q, answer) ==
  CASE answer = "2xx" -> {q.wants}
    [] answer = "noContact" -> IF q.wants THEN BOOLEAN ELSE {FALSE}
    [] OTHER -> {bound}
Registrar(answer) ==
  \E i \in Unanswered(registrator) :
    /\ \A j \in Unanswered(registrator) : i <= j
    /\ registrator' = [registrator EXCEPT !.requests[i].answer = answer]
    /\ bound' \in Bindings(registrator.requests[i], answer)

(***************************************************************************)
(* Properties.                                                              *)
(***************************************************************************)

\* When nothing is under way, who believes to be registered is.
RegisteredIsBound == Quiet(registrator) /\ registrator.registered /\ ~registrator.ignored => bound

\* A registration is renewed before it expires: there is a timer, or a request
\* whose answer will count.
RenewedInTime ==
  registrator.registered =>
    \/ registrator.timer
    \/ registrator.ignored
    \/ \E i \in DOMAIN registrator.requests : registrator.requests[i].wants /\ Counts(registrator, registrator.requests[i])

(* What the registrator believes is so and stays so: no answer that comes late, out
   of order or to a request repeated with credentials makes it take an old
   registration for the present one, and none stops the renewal. (But an answer 2xx
   without our contact, which the log calls ignored, stops the timer; and after a
   register() over a request that was not answered the last CSeq may be another's.) *)
RegistrationIsTrue == ~registrator.crossed => RegisteredIsBound /\ RenewedInTime
=============================================================================
