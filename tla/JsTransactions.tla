--------------------------- MODULE JsTransactions ---------------------------
(* The SIP transactions of JsSIP (module Transactions of jssip.js) with the
   tables of the user agent they are kept in, over one transport connection.
   A step is one turn of JavaScript's event loop: a message that arrives, a timer
   that fires, a call of the transaction user or an event of the transport. *)
EXTENDS Naturals, Sequences, FiniteSets

CONSTANTS
  ClientTx,      \* client transactions; each has a branch of its own
  ServerTx,      \* server transactions
  Branches,      \* branches of the requests that arrive
  InDialog,      \* branches whose request has a To tag
  NoTx

ASSUME TxAssumption ==
  /\ ClientTx \cap ServerTx = {}
  /\ NoTx \notin ClientTx \cup ServerTx
  /\ InDialog \subseteq Branches

VARIABLES
  tx,            \* the transactions, by what they remember
  clients,       \* ua._transactions.nict and .ict: client transactions in the tables
  servers,       \* ua._transactions.nist and .ist: by type and branch
  wire           \* "open"; "closing": lost, the event has not run yet; "down"

vars == <<tx, clients, servers, wire>>

Tx == ClientTx \cup ServerTx
ServerKinds == {"nist", "ist"}
States == {"TRYING", "PROCEEDING", "CALLING", "ACCEPTED", "COMPLETED", "CONFIRMED", "TERMINATED"}
Timers == {"B", "D", "staleD", "F", "H", "I", "J", "K", "L", "M", "resend"}
Outcomes == {"answer", "timeout", "transport"}
Texts == {"empty", "100", "1xx", "2xx", "3-6xx"}

(* timers: those that will fire (staleD: a timer D whose handle was overwritten
   and which nothing can clear); last: last_response; told: what the user of a
   client transaction was told of its end; answers: the final responses a server
   transaction has sent. *)
NewTx(kind, branch, state) ==
  [kind |-> kind, branch |-> branch, state |-> state, timers |-> {}, last |-> "empty",
   failed |-> FALSE, told |-> <<>>, answers |-> {}]
Unused == NewTx("none", NoTx, "TERMINATED")

Init ==
  /\ tx = [t \in Tx |-> Unused]
  /\ clients = {}
  /\ servers = [k \in ServerKinds |-> [b \in Branches |-> NoTx]]
  /\ wire = "open"

Sends == wire = "open"
Tell(x, outcome) == [x EXCEPT !.told = Append(@, outcome)]
Terminated(x) == [x EXCEPT !.state = "TERMINATED"]
InTable(t) == IF t \in ClientTx THEN t \in clients ELSE servers[tx[t].kind][tx[t].branch] = t

\* destroyTransaction: the entry of the type and the branch goes, whoever has it.
Destroy(t) ==
  /\ clients' = clients \ {t}
  /\ servers' = IF t \in ClientTx THEN servers ELSE [servers EXCEPT ![tx[t].kind][tx[t].branch] = NoTx]
Keep == UNCHANGED <<clients, servers>>

(* onTransportError of the four types. *)
NictTransportError(x) == Tell(Terminated([x EXCEPT !.timers = @ \ {"F", "K"}]), "transport")
IctTransportError(x) ==
  LET stopped == Terminated([x EXCEPT !.timers = @ \ {"B", "D", "M"}])
  IN IF x.state # "ACCEPTED" THEN Tell(stopped, "transport") ELSE stopped
NistTransportError_live(x) == [x EXCEPT !.failed = TRUE, !.timers = @ \ {"J"}]
NistTransportError(x) == Terminated([x EXCEPT !.failed = TRUE, !.timers = @ \ {"J"}])
IstTransportError(x) == Terminated([x EXCEPT !.failed = TRUE, !.timers = @ \ {"resend", "L", "H", "I"}])
TransportError(x) ==
  CASE x.kind = "nict" -> NictTransportError(x)
    [] x.kind = "ict" -> IctTransportError(x)
    [] x.kind = "nist" /\ ~x.failed -> NistTransportError(x)
    [] x.kind = "ist" /\ ~x.failed -> IstTransportError(x)
    [] OTHER -> x

(***************************************************************************)
(* Client transactions.                                                     *)
(***************************************************************************)
Unstarted(t) == tx[t] = Unused

\* The constructor, newTransaction and send, called one after the other.
Start(t, kind, state, timer) ==
  LET started == [NewTx(kind, t, state) EXCEPT !.timers = {timer}]
  IN /\ Unstarted(t)
     /\ tx' = [tx EXCEPT ![t] = IF Sends THEN started ELSE TransportError(started)]
     /\ clients' = IF Sends THEN clients \cup {t} ELSE clients
     /\ UNCHANGED <<servers, wire>>
NictSend(t) == t \in ClientTx /\ Start(t, "nict", "TRYING", "F")
IctSend(t) == t \in ClientTx /\ Start(t, "ict", "CALLING", "B")

Receives(t, kind) == t \in clients /\ tx[t].kind = kind /\ wire # "down"

\* NonInviteClientTransaction.receiveResponse; a 408 is told as a timeout.
NictProvisional(t) ==
  /\ Receives(t, "nict")
  /\ tx[t].state \in {"TRYING", "PROCEEDING"}
  /\ tx' = [tx EXCEPT ![t].state = "PROCEEDING"]
  /\ Keep /\ UNCHANGED wire
NictCompleted_keepsF(x, outcome) == Tell([x EXCEPT !.state = "COMPLETED", !.timers = @ \cup {"K"}], outcome)
NictCompleted(x, outcome) ==
  Tell([x EXCEPT !.state = "COMPLETED", !.timers = (@ \ {"F"}) \cup {"K"}], outcome)
NictFinal(t, outcome) ==
  /\ Receives(t, "nict")
  /\ tx[t].state \in {"TRYING", "PROCEEDING"}
  /\ tx' = [tx EXCEPT ![t] = NictCompleted(@, outcome)]
  /\ Keep /\ UNCHANGED wire

\* InviteClientTransaction.receiveResponse.
IctProvisional_late(t) ==                          \* (for the checks: in any state)
  /\ Receives(t, "ict")
  /\ tx' = [tx EXCEPT ![t].state = "PROCEEDING"]
  /\ Keep /\ UNCHANGED wire
IctProvisional(t) ==
  /\ Receives(t, "ict")
  /\ tx[t].state \in {"CALLING", "PROCEEDING"}
  /\ tx' = [tx EXCEPT ![t].state = "PROCEEDING"]
  /\ Keep /\ UNCHANGED wire
IctAccepted_noM(x) == Tell([x EXCEPT !.state = "ACCEPTED"], "answer")
IctAccepted(x) == Tell([x EXCEPT !.state = "ACCEPTED", !.timers = @ \cup {"M"}], "answer")
IctSuccess(t) ==
  /\ Receives(t, "ict")
  /\ tx[t].state \in {"CALLING", "PROCEEDING"}
  /\ tx' = [tx EXCEPT ![t] = IctAccepted(@)]
  /\ Keep /\ UNCHANGED wire
\* sendACK: each one starts a timer D and forgets the handle of the one before.
sendACK(x) == [x EXCEPT !.timers = @ \cup {"D"} \cup (IF "D" \in @ THEN {"staleD"} ELSE {})]
IctCompleted(x) ==
  IF x.state = "COMPLETED" THEN sendACK(x) ELSE Tell(sendACK([x EXCEPT !.state = "COMPLETED"]), "answer")
IctFailure(t) ==
  /\ Receives(t, "ict")
  /\ tx[t].state \in {"CALLING", "PROCEEDING", "COMPLETED"}
  /\ tx' = [tx EXCEPT ![t] = IctCompleted(@)]
  /\ Keep /\ UNCHANGED wire

(***************************************************************************)
(* Server transactions. A request that reaches no transaction is given one.  *)
(***************************************************************************)
Trying(x) == [x EXCEPT !.last = "100"]             \* the invitation's request.reply(100)
NewServer(t, kind, b, state) ==
  /\ t \in ServerTx
  /\ Unstarted(t)
  /\ wire # "down"
  /\ servers[kind][b] = NoTx
  /\ tx' = [tx EXCEPT ![t] =
             LET x == NewTx(kind, b, state)
             IN IF kind = "nist" THEN x
                ELSE Trying(IF Sends THEN x ELSE TransportError(x))]
  /\ servers' = IF kind = "ist" /\ ~Sends THEN servers ELSE [servers EXCEPT ![kind][b] = t]
  /\ UNCHANGED <<clients, wire>>
NistNew(t, b) == NewServer(t, "nist", b, "TRYING")
IstNew(t, b) == NewServer(t, "ist", b, "PROCEEDING")   \* it replies 100 at once

(* An ACK is for the invitation of its branch; checkTransaction takes it, or
   lets it through (AckPasses) to the dialogs. *)
AckTaken(b) == servers["ist"][b] # NoTx /\ tx[servers["ist"][b]].state = "COMPLETED"
IstAck(b) ==
  LET t == servers["ist"][b]
  IN /\ wire # "down"
     /\ AckTaken(b)
     /\ tx' = [tx EXCEPT ![t].state = "CONFIRMED", ![t].timers = @ \cup {"I"}]
     /\ Keep /\ UNCHANGED wire

(* What checkTransaction sends when the request of a branch arrives again: the
   sanity check has dropped it before if it has no To tag. *)
ResendStates(kind) == IF kind = "ist" THEN {"PROCEEDING"} ELSE {"PROCEEDING", "COMPLETED"}
Resent(kind, b) ==
  LET t == servers[kind][b]
  IN IF b \in InDialog /\ t # NoTx /\ tx[t].state \in ResendStates(kind) THEN {tx[t].last} ELSE {}

(* request.reply of the user of the transaction, at any time after. *)
NistReply(t, code) ==
  LET x == tx[t]
      completed == [x EXCEPT !.state = "COMPLETED", !.last = code, !.timers = @ \cup {"J"}]
  IN /\ x.kind = "nist"
     /\ code \in {"2xx", "3-6xx"}
     /\ x.state \in {"TRYING", "PROCEEDING"}
     /\ IF Sends
        THEN tx' = [tx EXCEPT ![t] = [completed EXCEPT !.answers = @ \cup {code}]] /\ Keep
        ELSE tx' = [tx EXCEPT ![t] = TransportError(completed)] /\ Destroy(t)
     /\ UNCHANGED wire
NistReply100(t) ==
  LET x == tx[t]
      next == IF x.state = "TRYING" THEN [x EXCEPT !.state = "PROCEEDING"] ELSE [x EXCEPT !.last = "100"]
  IN /\ x.kind = "nist"
     /\ x.state \in {"TRYING", "PROCEEDING"}
     /\ IF Sends THEN tx' = [tx EXCEPT ![t] = next] /\ Keep
        ELSE tx' = [tx EXCEPT ![t] = TransportError(next)] /\ Destroy(t)
     /\ UNCHANGED wire

\* The interval that repeats a provisional response starts with the first one.
IstProvisional(t) ==
  LET x == tx[t]
  IN /\ x.kind = "ist"
     /\ x.state = "PROCEEDING"
     /\ IF Sends
        THEN tx' = [tx EXCEPT ![t] = [x EXCEPT !.last = "1xx", !.timers = @ \cup {"resend"}]] /\ Keep
        ELSE tx' = [tx EXCEPT ![t] = [TransportError(x) EXCEPT !.last = "1xx"]] /\ Destroy(t)
     /\ UNCHANGED wire
\* A 2xx stops the interval and starts L; in ACCEPTED it is only sent.
IstAccepted(x) ==
  IF x.state = "ACCEPTED" THEN x
  ELSE [x EXCEPT !.state = "ACCEPTED", !.last = "2xx", !.timers = (@ \ {"resend"}) \cup {"L"}]
IstSuccess(t) ==
  LET accepted == IstAccepted(tx[t])
  IN /\ tx[t].kind = "ist"
     /\ tx[t].state \in {"PROCEEDING", "ACCEPTED"}
     /\ IF Sends
        THEN tx' = [tx EXCEPT ![t] = [accepted EXCEPT !.answers = @ \cup {"2xx"}]] /\ Keep
        ELSE tx' = [tx EXCEPT ![t] = TransportError(accepted)] /\ Destroy(t)
     /\ UNCHANGED wire
RejectStates_accepted == {"PROCEEDING", "ACCEPTED"}
RejectStates == {"PROCEEDING"}
IstFailure(t) ==
  LET stopped == [tx[t] EXCEPT !.timers = @ \ {"resend"}]
  IN /\ tx[t].kind = "ist"
     /\ tx[t].state \in RejectStates
     /\ IF Sends
        THEN /\ tx' = [tx EXCEPT ![t] =
                        [stopped EXCEPT !.state = "COMPLETED", !.timers = @ \cup {"H"}, !.answers = @ \cup {"3-6xx"}]]
             /\ Keep
        ELSE tx' = [tx EXCEPT ![t] = TransportError(stopped)] /\ Destroy(t)
     /\ UNCHANGED wire

(***************************************************************************)
(* Timers. B, L and M ask for the state first, the others do not.            *)
(***************************************************************************)
Fired(t, timer) == [tx[t] EXCEPT !.timers = @ \ {timer}]
End(t, x) == tx' = [tx EXCEPT ![t] = Terminated(x)] /\ Destroy(t)
timer_F(t) == End(t, Tell(Fired(t, "F"), "timeout"))
timer_B(t) ==
  IF tx[t].state = "CALLING" THEN End(t, Tell(Fired(t, "B"), "timeout"))
  ELSE tx' = [tx EXCEPT ![t] = Fired(t, "B")] /\ Keep
timer_M(t) ==
  IF tx[t].state = "ACCEPTED" THEN End(t, [Fired(t, "M") EXCEPT !.timers = @ \ {"B"}])
  ELSE tx' = [tx EXCEPT ![t] = Fired(t, "M")] /\ Keep
timer_L(t) ==
  IF tx[t].state = "ACCEPTED" THEN End(t, Fired(t, "L")) ELSE tx' = [tx EXCEPT ![t] = Fired(t, "L")] /\ Keep
timer_D(t, name) == End(t, [Fired(t, name) EXCEPT !.timers = @ \ {"B"}])
timer_H(t) == End(t, Fired(t, "H"))
timer_I(t) == End(t, Fired(t, "I"))
timer_J(t) == End(t, Fired(t, "J"))
timer_K(t) == End(t, Fired(t, "K"))
\* The interval goes on until it is cleared.
resend_provisional(t) ==
  /\ ~Sends
  /\ tx' = [tx EXCEPT ![t] = TransportError(@)]
  /\ IF tx[t].failed THEN Keep ELSE Destroy(t)

Timer(t, timer) ==
  /\ timer \in tx[t].timers
  /\ UNCHANGED wire
  /\ \/ timer = "B" /\ timer_B(t)
     \/ timer = "M" /\ timer_M(t)
     \/ timer = "D" /\ "staleD" \notin tx[t].timers /\ timer_D(t, "D")
     \/ timer = "staleD" /\ timer_D(t, "staleD")
     \/ timer = "F" /\ timer_F(t)
     \/ timer = "H" /\ timer_H(t)
     \/ timer = "I" /\ timer_I(t)
     \/ timer = "J" /\ timer_J(t)
     \/ timer = "K" /\ timer_K(t)
     \/ timer = "L" /\ timer_L(t)
     \/ timer = "resend" /\ resend_provisional(t)

(***************************************************************************)
(* The transport. It is lost first, and the event that says so runs later:   *)
(* onTransportDisconnect calls onTransportError of all that is in the tables. *)
(***************************************************************************)
Lost == wire = "open" /\ wire' = "closing" /\ UNCHANGED <<tx, clients, servers>>
Listed == clients \cup ({servers[k][b] : k \in ServerKinds, b \in Branches} \ {NoTx})
onTransportDisconnect ==
  /\ wire # "down"
  /\ wire' = "down"
  /\ tx' = [t \in Tx |-> IF t \in Listed THEN TransportError(tx[t]) ELSE tx[t]]
  /\ clients' = {}
  /\ servers' = [k \in ServerKinds |-> [b \in Branches |-> NoTx]]
onTransportConnect == wire = "down" /\ wire' = "open" /\ UNCHANGED <<tx, clients, servers>>

ClientStep(t) ==
  \/ NictSend(t)
  \/ IctSend(t)
  \/ NictProvisional(t)
  \/ NictFinal(t, "answer")
  \/ NictFinal(t, "timeout")
  \/ IctProvisional(t)
  \/ IctSuccess(t)
  \/ IctFailure(t)
ServerStep(t) ==
  \/ \E b \in Branches : NistNew(t, b)
  \/ \E b \in Branches : IstNew(t, b)
  \/ \E code \in {"2xx", "3-6xx"} : NistReply(t, code)
  \/ NistReply100(t)
  \/ IstProvisional(t)
  \/ IstSuccess(t)
  \/ IstFailure(t)
Next ==
  \/ \E t \in ClientTx : ClientStep(t)
  \/ \E t \in ServerTx : ServerStep(t)
  \/ \E b \in Branches : IstAck(b)
  \/ \E t \in Tx, timer \in Timers : Timer(t, timer)
  \/ Lost
  \/ onTransportDisconnect
  \/ onTransportConnect

Spec == Init /\ [][Next]_vars
\* The event loop runs every timer that is due.
FairSpec == Spec /\ \A t \in Tx, timer \in Timers : WF_vars(Timer(t, timer))

(***************************************************************************)
(* Properties.                                                              *)
(***************************************************************************)
\* Every variable has a value of its type.
TxType ==
  [kind : {"none", "nict", "ict", "nist", "ist"}, branch : ClientTx \cup Branches \cup {NoTx},
   state : States, timers : SUBSET Timers, last : Texts, failed : BOOLEAN,
   told : Seq(Outcomes), answers : SUBSET Texts]
TypeOK ==
  /\ tx \in [Tx -> TxType]
  /\ clients \subseteq ClientTx
  /\ servers \in [ServerKinds -> [Branches -> ServerTx \cup {NoTx}]]
  /\ wire \in {"open", "closing", "down"}

(* The user of a client transaction is told how it ended once. The one
   exception is a connection lost between the final response and the timer of 0
   ms that follows it: the answer is then followed by a transport error (but the
   2xx of an invitation never is). *)
OneOutcome ==
  \A t \in ClientTx :
    LET told == tx[t].told
    IN Len(told) > 1 =>
         /\ Len(told) = 2
         /\ told[1] # "transport"
         /\ told[2] = "transport"
         /\ tx[t].state = "TERMINATED"

Live(t) == tx[t].state # "TERMINATED"
Reused(t) == \E u \in ServerTx \ {t} : tx[u].kind = tx[t].kind /\ tx[u].branch = tx[t].branch
LiveAreListed == \A t \in Tx : Live(t) => InTable(t) \/ (t \in ServerTx /\ Reused(t))

EndedAreGone == \A t \in Listed : Live(t)

(* The tables of the user agent hold what lives and nothing else: no message
   reaches a transaction that ended, and one that has not is found under its
   branch, unless the branch was used again - the timers of an earlier transaction
   (H is not cleared by the ACK) remove the entry of a later one. *)
TablesAreTrue == LiveAreListed /\ EndedAreGone

OneAnswer == \A t \in ServerTx : Cardinality(tx[t].answers) <= 1

ResendsWhileProceeding ==
  \A t \in ServerTx : "resend" \in tx[t].timers => tx[t].state = "PROCEEDING" /\ tx[t].last = "1xx"
NothingEmptyResent == \A b \in Branches : "empty" \notin Resent("ist", b)

(* A server transaction sends final responses of one class; the provisional
   response of an invitation is repeated only while it has no final one, and a
   repeated invitation is never answered with an empty text. *)
AnswersAreOne == OneAnswer /\ ResendsWhileProceeding /\ NothingEmptyResent

(* An ended transaction stays ended and tells its user nothing more. *)
EndIsFinal ==
  [][\A t \in Tx : tx[t].kind # "none" /\ tx[t].state = "TERMINATED" =>
        tx'[t].state = "TERMINATED" /\ tx'[t].told = tx[t].told]_vars

(* Each INVITE transaction, of either end, is what its user counts on; the other
   kinds never begin as one. *)
Phase(x) ==
  IF x.kind \notin {"ict", "ist"} THEN "none"
  ELSE CASE x.state = "CALLING" -> "calling"
         [] x.state = "ACCEPTED" -> "accepted"
         [] x.state \in {"COMPLETED", "CONFIRMED"} -> "completed"
         [] x.state = "TERMINATED" -> "over"
         [] OTHER -> "proceeding"
Side(x) == IF x.kind = "ict" THEN "client" ELSE IF x.kind = "ist" THEN "server" ELSE "none"
FinalSent(x) ==
  CASE x.kind # "ist" \/ x.answers = {} -> "none"
    [] x.kind = "ist" /\ x.answers = {"2xx"} -> "2xx"
    [] x.kind = "ist" /\ x.answers = {"3-6xx"} -> "reject"
    [] OTHER -> "both"
Invitation == INSTANCE InviteTransaction WITH
  Invites <- Tx,
  side <- [t \in Tx |-> Side(tx[t])],
  phase <- [t \in Tx |-> Phase(tx[t])],
  sent <- [t \in Tx |-> FinalSent(tx[t])]

InvitesKeepTheirWord == Invitation!Spec

(* What waits for a timer ends: a non-INVITE request, an invitation not even
   answered provisionally, and all that has had its final response. (A call that
   rings waits for ever if the other end does.) *)
WaitsForTimer(t) ==
  \/ tx[t].kind = "nict" /\ Live(t)
  \/ tx[t].state \in {"ACCEPTED", "COMPLETED", "CONFIRMED"}
Drains == \A t \in Tx : WaitsForTimer(t) ~> tx[t].state = "TERMINATED"
=============================================================================
