------------------------ MODULE JsTransactionsProofs ------------------------
(***************************************************************************)
(* Proofs about JsTransactions: what a transaction remembers fits its       *)
(* state, the tables of the user agent hold what is alive and nothing else, *)
(* and INVITE transactions are those of InviteTransaction, however many      *)
(* transactions and branches there are.                                     *)
(***************************************************************************)
EXTENDS JsTransactions, TLAPS, SequenceTheorems, FiniteSetTheorems

Once == {<<o>> : o \in Outcomes}
Twice == {<<o, "transport">> : o \in {"answer", "timeout"}}
Tellings == {<<>>} \cup Once \cup Twice
Answered == {<<"answer">>, <<"timeout">>}

\* TxType, with what the user was told bounded.
Typed(x) ==
  x \in [kind : {"none", "nict", "ict", "nist", "ist"}, branch : ClientTx \cup Branches \cup {NoTx},
         state : States, timers : SUBSET Timers, last : Texts, failed : BOOLEAN,
         told : Tellings, answers : SUBSET Texts]

\* A client transaction that was started: its timers and its user's news fit its state.
NictFits(x) ==
  /\ x.state \in {"TRYING", "PROCEEDING", "COMPLETED", "TERMINATED"}
  /\ x.timers \subseteq {"F", "K"}
  /\ "F" \in x.timers => x.state \in {"TRYING", "PROCEEDING"}
  /\ "K" \in x.timers => x.state \in {"COMPLETED", "TERMINATED"}
IctFits(x) ==
  /\ x.state \in {"CALLING", "PROCEEDING", "ACCEPTED", "COMPLETED", "TERMINATED"}
  /\ x.timers \subseteq {"B", "D", "staleD", "M"}
  /\ "D" \in x.timers \/ "staleD" \in x.timers => x.state \in {"COMPLETED", "TERMINATED"}
ClientFits(t, x) ==
  /\ x.branch = t
  /\ \/ x.kind = "nict" /\ NictFits(x)
     \/ x.kind = "ict" /\ IctFits(x)
  /\ x.state \in {"TRYING", "CALLING", "PROCEEDING"} => x.told = <<>>
  /\ x.state \in {"ACCEPTED", "COMPLETED"} => x.told \in Answered
  /\ x.state = "TERMINATED" => x.told \in Once \cup Twice

\* A server transaction that was started: its timers and its answers fit its state.
NistFits(x) ==
  /\ x.state \in {"TRYING", "PROCEEDING", "COMPLETED", "TERMINATED"}
  /\ x.timers \subseteq {"J"}
IstFits(x) ==
  /\ x.state \in {"PROCEEDING", "ACCEPTED", "COMPLETED", "CONFIRMED", "TERMINATED"}
  /\ x.timers \subseteq {"resend", "H", "I", "L"}
  /\ "resend" \in x.timers => x.state = "PROCEEDING" /\ x.last = "1xx"
  /\ x.state = "PROCEEDING" => x.timers \subseteq {"resend"}
  /\ x.last # "empty"
ServerFits(x) ==
  /\ x.branch \in Branches
  /\ \/ x.kind = "nist" /\ NistFits(x)
     \/ x.kind = "ist" /\ IstFits(x)
  /\ x.told = <<>>
  /\ x.failed => x.state = "TERMINATED"
  /\ x.state \in {"TRYING", "PROCEEDING"} => x.answers = {}
  /\ x.state = "ACCEPTED" => x.answers \subseteq {"2xx"}
  /\ \E c \in Texts : x.answers \subseteq {c}

Fits(t, x) ==
  /\ Typed(x)
  /\ \/ x = Unused
     \/ t \in ClientTx /\ ClientFits(t, x)
     \/ t \in ServerTx /\ ServerFits(x)

RecordInv == tx \in [Tx -> {tx[t] : t \in Tx}] /\ \A t \in Tx : Fits(t, tx[t])

\* An entry of a table is under its own type and branch.
Entries ==
  /\ clients \subseteq ClientTx
  /\ servers \in [ServerKinds -> [Branches -> ServerTx \cup {NoTx}]]
  /\ \A k \in ServerKinds, b \in Branches :
       servers[k][b] # NoTx => tx[servers[k][b]].kind = k /\ tx[servers[k][b]].branch = b

WireType == wire \in {"open", "closing", "down"}
IInv == RecordInv /\ Entries /\ LiveAreListed /\ EndedAreGone /\ WireType

------------------------------------------------------------------------------
(* What the handlers do to a record.                                         *)

\* y comes after x: the same transaction, and if it has ended, nothing is said after.
After(x, y) ==
  /\ x # Unused
  /\ y.kind = x.kind
  /\ y.branch = x.branch
  /\ x.state = "TERMINATED" => y.state = "TERMINATED" /\ y.told = x.told

LEMMA ToldFirst == \A o : Append(<<>>, o) = <<o>>
  OBVIOUS
LEMMA Appended ==
  ASSUME NEW S, NEW first \in Seq(S), NEW p \in S
  PROVE  /\ Append(first, p) \in Seq(S)
         /\ Len(Append(first, p)) = Len(first) + 1
         /\ \A i \in 1..Len(first) : Append(first, p)[i] = first[i]
         /\ Append(first, p)[Len(first) + 1] = p
  <1>1. Append(first, p) \in Seq(S)
    OBVIOUS
  <1>2. Len(Append(first, p)) = Len(first) + 1
    OBVIOUS
  <1>3. \A i \in 1..Len(first) : Append(first, p)[i] = first[i]
    BY AppendProperties
  <1>4. Append(first, p)[Len(first) + 1] = p
    OBVIOUS
  <1> QED BY <1>1, <1>2, <1>3, <1>4, Zenon

LEMMA ToldSecond ==
  ASSUME NEW o, NEW p
  PROVE  Append(<<o>>, p) = <<o, p>>
  <1> DEFINE S == {o, p}
             first == <<o>>
             both == Append(first, p)
  <1>1. first \in Seq(S) /\ Len(first) = 1 /\ first[1] = o /\ p \in S
    OBVIOUS
  <1> HIDE DEF first, S
  <1>2. /\ both \in Seq(S)
        /\ Len(both) = Len(first) + 1
        /\ \A i \in 1..Len(first) : both[i] = first[i]
        /\ both[Len(first) + 1] = p
    BY <1>1, Appended, Zenon
  <1> HIDE DEF both
  <1>3. both \in Seq(S) /\ Len(both) = 2 /\ both[1] = o /\ both[2] = p
    BY <1>1, <1>2
  <1>4. both = <<both[1], both[2]>>
    BY <1>3
  <1> QED BY <1>3, <1>4, Zenon DEF both, first

\* The news that follow each other are those of OneOutcome.
LEMMA ToldNext ==
  /\ \A o \in {"answer", "timeout"} : Append(<<>>, o) \in Answered
  /\ \A told \in {<<>>} \cup Answered : Append(told, "transport") \in Once \cup Twice
  /\ Answered \subseteq Once
  /\ Once \cup Twice \subseteq Tellings
  /\ <<>> \in Tellings
  <1>1. \A o \in {"answer", "timeout"} : Append(<<>>, o) \in Answered
    BY ToldFirst, Zenon DEF Answered
  <1>2. Append(<<>>, "transport") \in Once
    BY ToldFirst, Zenon DEF Once, Outcomes
  <1>3. \A told \in Answered : Append(told, "transport") \in Twice
    BY ToldSecond, Zenon DEF Twice, Answered
  <1>4. Answered \subseteq Once
    BY DEF Answered, Once, Outcomes
  <1> QED BY <1>1, <1>2, <1>3, <1>4, Zenon DEF Tellings

\* An error of the transport ends a live transaction, and is told once.
LEMMA ErrorEnds ==
  ASSUME NEW t \in Tx, NEW x, Fits(t, x), x.state # "TERMINATED"
  PROVE  LET y == TransportError(x)
         IN Fits(t, y) /\ After(x, y) /\ y.state = "TERMINATED"
  <1>1. x # Unused
    BY DEF Unused, NewTx
  <1>2. CASE t \in ClientTx /\ ClientFits(t, x)
    <2>1. CASE x.kind = "nict"
      <3>1. x.told \in {<<>>} \cup Answered
        BY <1>2, <2>1 DEF ClientFits, NictFits
      <3>2. Append(x.told, "transport") \in Once \cup Twice
        BY <3>1, ToldNext
      <3> QED BY <1>1, <1>2, <2>1, <3>2, ToldNext
            DEF Fits, Typed, ClientFits, NictFits, TransportError, NictTransportError, Terminated, Tell, After, States
    <2>2. CASE x.kind = "ict"
      <3>1. x.told \in {<<>>} \cup Answered
        BY <1>2, <2>2 DEF ClientFits, IctFits
      <3>2. Append(x.told, "transport") \in Once \cup Twice
        BY <3>1, ToldNext
      <3>3. x.state = "ACCEPTED" => x.told \in Once
        BY <1>2, ToldNext DEF ClientFits
      <3> QED BY <1>1, <1>2, <2>2, <3>2, <3>3, ToldNext
            DEF Fits, Typed, ClientFits, NictFits, IctFits, TransportError, IctTransportError, Terminated, Tell, After, States
    <2> QED BY <1>2, <2>1, <2>2 DEF ClientFits
  <1>3. CASE t \in ServerTx /\ ServerFits(x)
    <2>1. CASE x.kind = "nist"
      BY <1>1, <1>3, <2>1
      DEF Fits, Typed, ServerFits, NistFits, IstFits, TransportError, NistTransportError, Terminated, After, States
    <2>2. CASE x.kind = "ist"
      BY <1>1, <1>3, <2>2
      DEF Fits, Typed, ServerFits, NistFits, IstFits, TransportError, IstTransportError, Terminated, After, States
    <2> QED BY <1>3, <2>1, <2>2 DEF ServerFits
  <1> QED BY <1>1, <1>2, <1>3 DEF Fits

------------------------------------------------------------------------------
(* The shapes of a step: what it does to one record and to the tables.       *)

Puts(t, y) == tx' = [tx EXCEPT ![t] = y] /\ Fits(t, y)

\* The transaction goes on, or had ended before.
Inner(t) == \E y : Puts(t, y) /\ After(tx[t], y) /\ (y.state = "TERMINATED" => ~Live(t)) /\ Keep
\* It ends and leaves the tables.
Ended(t) == \E y : Puts(t, y) /\ After(tx[t], y) /\ y.state = "TERMINATED" /\ Destroy(t)
\* It begins, and is entered, or fails at once.
Entered(t, y) ==
  \/ t \in ClientTx /\ clients' = clients \cup {t} /\ UNCHANGED servers
  \/ /\ t \in ServerTx
     /\ servers[y.kind][y.branch] = NoTx
     /\ servers' = [servers EXCEPT ![y.kind][y.branch] = t]
     /\ UNCHANGED clients
Begun(t) ==
  /\ Unstarted(t)
  /\ \E y : /\ Puts(t, y)
           /\ y # Unused
           /\ IF y.state = "TERMINATED" THEN Keep ELSE Entered(t, y)

Shape(t) == Inner(t) \/ Ended(t) \/ Begun(t)

LEMMA NewFits ==
  /\ \A t \in ClientTx : /\ Fits(t, [NewTx("nict", t, "TRYING") EXCEPT !.timers = {"F"}])
                         /\ Fits(t, [NewTx("ict", t, "CALLING") EXCEPT !.timers = {"B"}])
  /\ \A t \in ServerTx, b \in Branches :
       /\ Fits(t, NewTx("nist", b, "TRYING"))
       /\ Fits(t, Trying(NewTx("ist", b, "PROCEEDING")))
       /\ Fits(t, Trying(TransportError(NewTx("ist", b, "PROCEEDING"))))
  <1>1. ASSUME NEW t \in ClientTx
        PROVE  Fits(t, [NewTx("nict", t, "TRYING") EXCEPT !.timers = {"F"}])
    BY ToldNext DEF Fits, Typed, ClientFits, NictFits, NewTx, States, Timers, Texts
  <1>2. ASSUME NEW t \in ClientTx
        PROVE  Fits(t, [NewTx("ict", t, "CALLING") EXCEPT !.timers = {"B"}])
    BY ToldNext DEF Fits, Typed, ClientFits, IctFits, NewTx, States, Timers, Texts
  <1>3. ASSUME NEW t \in ServerTx, NEW b \in Branches
        PROVE  Fits(t, NewTx("nist", b, "TRYING"))
    BY ToldNext DEF Fits, Typed, ServerFits, NistFits, NewTx, States, Timers, Texts
  <1>4. ASSUME NEW t \in ServerTx, NEW b \in Branches
        PROVE  Fits(t, Trying(NewTx("ist", b, "PROCEEDING")))
    BY ToldNext DEF Fits, Typed, ServerFits, IstFits, NewTx, Trying, States, Timers, Texts
  <1>5. ASSUME NEW t \in ServerTx, NEW b \in Branches
        PROVE  Fits(t, Trying(TransportError(NewTx("ist", b, "PROCEEDING"))))
    BY ToldNext DEF Fits, Typed, ServerFits, IstFits, NewTx, Trying, TransportError, IstTransportError, Terminated, States, Timers, Texts
  <1> QED BY <1>1, <1>2, <1>3, <1>4, <1>5

LEMMA BeginShape ==
  ASSUME NEW t \in Tx, RecordInv,
         \/ NictSend(t) \/ IctSend(t)
         \/ \E b \in Branches : NistNew(t, b) \/ IstNew(t, b)
  PROVE  Begun(t)
  <1>1. ASSUME NEW x, t \in ClientTx, Fits(t, x), x # Unused, x.state # "TERMINATED",
               Unstarted(t),
               tx' = [tx EXCEPT ![t] = IF Sends THEN x ELSE TransportError(x)],
               clients' = IF Sends THEN clients \cup {t} ELSE clients,
               UNCHANGED servers
        PROVE  Begun(t)
    <2>1. CASE Sends
      BY <1>1, <2>1 DEF Begun, Puts, Entered
    <2>2. CASE ~Sends
      <3> DEFINE y == TransportError(x)
      <3>1. Fits(t, y) /\ y.state = "TERMINATED" /\ y.kind = x.kind
        BY <1>1, ErrorEnds DEF After
      <3>2. y.kind # "none"
        BY <1>1, <3>1 DEF Fits, ClientFits, ServerFits
      <3>3. y # Unused
        BY <3>2 DEF Unused, NewTx
      <3> QED BY <1>1, <2>2, <3>1, <3>3 DEF Begun, Puts, Keep
    <2> QED BY <2>1, <2>2
  <1>2. CASE NictSend(t)
    <2>1. LET x == [NewTx("nict", t, "TRYING") EXCEPT !.timers = {"F"}]
          IN x # Unused /\ x.state # "TERMINATED"
      BY DEF NewTx, Unused
    <2> QED BY <1>1, <1>2, <2>1, NewFits DEF NictSend, Start
  <1>3. CASE IctSend(t)
    <2>1. LET x == [NewTx("ict", t, "CALLING") EXCEPT !.timers = {"B"}]
          IN x # Unused /\ x.state # "TERMINATED"
      BY DEF NewTx, Unused
    <2> QED BY <1>1, <1>3, <2>1, NewFits DEF IctSend, Start
  <1>4. ASSUME NEW b \in Branches, NistNew(t, b)
        PROVE  Begun(t)
    <2> DEFINE y == NewTx("nist", b, "TRYING")
    <2>1. y # Unused /\ y.kind = "nist" /\ y.branch = b /\ y.state # "TERMINATED"
      BY DEF NewTx, Unused
    <2>2. /\ t \in ServerTx /\ Unstarted(t)
          /\ servers["nist"][b] = NoTx
          /\ tx' = [tx EXCEPT ![t] = y]
          /\ servers' = [servers EXCEPT !["nist"][b] = t]
          /\ UNCHANGED clients
      BY <1>4 DEF NistNew, NewServer
    <2>3. Fits(t, y)
      BY <2>2, NewFits
    <2> QED BY <2>1, <2>2, <2>3 DEF Begun, Puts, Entered
  <1>5. ASSUME NEW b \in Branches, IstNew(t, b)
        PROVE  Begun(t)
    <2> DEFINE x == NewTx("ist", b, "PROCEEDING")
               y == Trying(IF Sends THEN x ELSE TransportError(x))
    <2>1. /\ y.kind = "ist" /\ y.branch = b
          /\ y.state = IF Sends THEN "PROCEEDING" ELSE "TERMINATED"
      BY DEF NewTx, Trying, TransportError, IstTransportError, Terminated
    <2>2. /\ t \in ServerTx /\ Unstarted(t)
          /\ servers["ist"][b] = NoTx
          /\ tx' = [tx EXCEPT ![t] = y]
          /\ servers' = IF ~Sends THEN servers ELSE [servers EXCEPT !["ist"][b] = t]
          /\ UNCHANGED clients
      BY <1>5 DEF IstNew, NewServer
    <2>3. Fits(t, y)
      BY <2>2, NewFits
    <2>4. y # Unused
      BY <2>1 DEF Unused, NewTx
    <2> QED BY <2>1, <2>2, <2>3, <2>4 DEF Begun, Puts, Entered, Keep
  <1> QED BY <1>2, <1>3, <1>4, <1>5

LEMMA LiveClient ==
  ASSUME NEW t \in ClientTx, RecordInv, Live(t)
  PROVE  ClientFits(t, tx[t]) /\ Typed(tx[t]) /\ tx[t] # Unused
  <1>1. Fits(t, tx[t]) /\ t \notin ServerTx
    BY TxAssumption DEF RecordInv, Tx
  <1>2. tx[t] # Unused
    BY DEF Live, Unused, NewTx
  <1> QED BY <1>1, <1>2 DEF Fits

LEMMA LiveServer ==
  ASSUME NEW t \in Tx, RecordInv, Live(t), tx[t].kind \in ServerKinds
  PROVE  t \in ServerTx /\ ServerFits(tx[t]) /\ Typed(tx[t]) /\ tx[t] # Unused
  <1>1. Fits(t, tx[t])
    BY DEF RecordInv
  <1>2. tx[t] # Unused
    BY DEF Live, Unused, NewTx
  <1>3. ~ClientFits(t, tx[t])
    BY DEF ClientFits, ServerKinds
  <1> QED BY <1>1, <1>2, <1>3 DEF Fits

\* A response moves its transaction on.
LEMMA ResponseShape ==
  ASSUME NEW t \in ClientTx, IInv,
         \/ NictProvisional(t) \/ NictFinal(t, "answer") \/ NictFinal(t, "timeout")
         \/ IctProvisional(t) \/ IctSuccess(t) \/ IctFailure(t)
  PROVE  Inner(t)
  <1>0. t \in Tx /\ RecordInv
    BY DEF Tx, IInv
  <1>2. CASE NictProvisional(t)
    <2>1. /\ tx[t].kind = "nict" /\ tx[t].state \in {"TRYING", "PROCEEDING"} /\ Keep
          /\ tx' = [tx EXCEPT ![t].state = "PROCEEDING"]
      BY <1>2 DEF NictProvisional, Receives
    <2>2. Live(t)
      BY <2>1 DEF Live
    <2> DEFINE y == [tx[t] EXCEPT !.state = "PROCEEDING"]
    <2>3. tx' = [tx EXCEPT ![t] = y]
      BY <2>1
    <2>4. Fits(t, y) /\ After(tx[t], y) /\ y.state # "TERMINATED"
      BY <1>0, <2>1, <2>2, LiveClient DEF Fits, Typed, ClientFits, NictFits, After, States
    <2> QED BY <2>1, <2>3, <2>4 DEF Inner, Puts
  <1>3. ASSUME NEW o \in {"answer", "timeout"}, NictFinal(t, o)
        PROVE  Inner(t)
    <2>1. /\ tx[t].kind = "nict" /\ tx[t].state \in {"TRYING", "PROCEEDING"} /\ Keep
          /\ tx' = [tx EXCEPT ![t] = NictCompleted(tx[t], o)]
      BY <1>3 DEF NictFinal, Receives
    <2>2. Live(t)
      BY <2>1 DEF Live
    <2> DEFINE y == NictCompleted(tx[t], o)
    <2>3. tx[t].told = <<>>
      BY <1>0, <2>1, <2>2, LiveClient DEF ClientFits
    <2>4. Append(tx[t].told, o) \in Answered
      BY <2>3, ToldNext
    <2> DEFINE told == Append(tx[t].told, o)
               timers == (tx[t].timers \ {"F"}) \cup {"K"}
    <2>5. y = [tx[t] EXCEPT !.state = "COMPLETED", !.timers = timers, !.told = told]
      BY <2>2, LiveClient, <1>0 DEF NictCompleted, Tell, Typed
    <2>6. timers \in SUBSET Timers /\ timers \subseteq {"K"}
      BY <1>0, <2>1, <2>2, LiveClient DEF ClientFits, NictFits, Timers
    <2> HIDE DEF y, told, timers
    <2>7. /\ Typed(y) /\ y.state = "COMPLETED" /\ y.timers = timers /\ y.told = told
          /\ y.kind = "nict" /\ y.branch = tx[t].branch
      <3>1. told \in Tellings
        BY <2>4, ToldNext DEF told
      <3>2. Typed(tx[t])
        BY <1>0, <2>2, LiveClient
      <3> QED BY <2>1, <2>5, <2>6, <3>1, <3>2 DEF Typed, States
    <2>8. Fits(t, y) /\ After(tx[t], y)
      BY <1>0, <2>1, <2>2, <2>4, <2>6, <2>7, LiveClient DEF Fits, ClientFits, NictFits, After, told
    <2> QED BY <2>1, <2>7, <2>8 DEF Inner, Puts, y
  <1>4. CASE IctProvisional(t)
    <2>1. /\ tx[t].kind = "ict" /\ tx[t].state \in {"CALLING", "PROCEEDING"} /\ Keep
          /\ tx' = [tx EXCEPT ![t].state = "PROCEEDING"]
      BY <1>4 DEF IctProvisional, Receives
    <2>2. Live(t)
      BY <2>1 DEF Live
    <2> DEFINE y == [tx[t] EXCEPT !.state = "PROCEEDING"]
    <2>3. tx' = [tx EXCEPT ![t] = y]
      BY <2>1
    <2>4. Fits(t, y) /\ After(tx[t], y) /\ y.state # "TERMINATED"
      BY <1>0, <2>1, <2>2, LiveClient DEF Fits, Typed, ClientFits, IctFits, After, States
    <2> QED BY <2>1, <2>3, <2>4 DEF Inner, Puts
  <1>5. CASE IctSuccess(t)
    <2>1. /\ tx[t].kind = "ict" /\ tx[t].state \in {"CALLING", "PROCEEDING"} /\ Keep
          /\ tx' = [tx EXCEPT ![t] = IctAccepted(tx[t])]
      BY <1>5 DEF IctSuccess, Receives
    <2>2. Live(t)
      BY <2>1 DEF Live
    <2> DEFINE y == IctAccepted(tx[t])
    <2>3. tx[t].told = <<>>
      BY <1>0, <2>1, <2>2, LiveClient DEF ClientFits
    <2>4. Append(tx[t].told, "answer") \in Answered
      BY <2>3, ToldNext
    <2> DEFINE told == Append(tx[t].told, "answer")
               timers == tx[t].timers \cup {"M"}
    <2>5. y = [tx[t] EXCEPT !.state = "ACCEPTED", !.timers = timers, !.told = told]
      BY <2>2, LiveClient, <1>0 DEF IctAccepted, Tell, Typed
    <2>6. timers \in SUBSET Timers /\ timers \subseteq {"B", "M"}
      BY <1>0, <2>1, <2>2, LiveClient DEF ClientFits, IctFits, Timers
    <2> HIDE DEF y, told, timers
    <2>7. /\ Typed(y) /\ y.state = "ACCEPTED" /\ y.timers = timers /\ y.told = told
          /\ y.kind = "ict" /\ y.branch = tx[t].branch
      <3>1. told \in Tellings
        BY <2>4, ToldNext DEF told
      <3>2. Typed(tx[t])
        BY <1>0, <2>2, LiveClient
      <3> QED BY <2>1, <2>5, <2>6, <3>1, <3>2 DEF Typed, States
    <2>8. Fits(t, y) /\ After(tx[t], y)
      BY <1>0, <2>1, <2>2, <2>4, <2>6, <2>7, LiveClient DEF Fits, ClientFits, IctFits, After, told
    <2> QED BY <2>1, <2>7, <2>8 DEF Inner, Puts, y
  <1>6. CASE IctFailure(t)
    <2>1. /\ tx[t].kind = "ict" /\ tx[t].state \in {"CALLING", "PROCEEDING", "COMPLETED"} /\ Keep
          /\ tx' = [tx EXCEPT ![t] = IctCompleted(tx[t])]
      BY <1>6 DEF IctFailure, Receives
    <2>2. Live(t)
      BY <2>1 DEF Live
    <2> DEFINE y == IctCompleted(tx[t])
    <2> DEFINE timers == tx[t].timers \cup {"D"} \cup (IF "D" \in tx[t].timers THEN {"staleD"} ELSE {})
    <2>a. timers \in SUBSET Timers /\ timers \subseteq {"B", "D", "staleD", "M"}
      BY <1>0, <2>1, <2>2, LiveClient DEF ClientFits, IctFits, Timers
    <2> HIDE DEF timers
    <2>3. CASE tx[t].state = "COMPLETED"
      <3>1. y = [tx[t] EXCEPT !.timers = timers]
        BY <2>3 DEF IctCompleted, sendACK, timers
      <3>2. Fits(t, y) /\ After(tx[t], y) /\ y.state # "TERMINATED"
        BY <1>0, <2>1, <2>2, <2>3, <2>a, <3>1, LiveClient DEF Fits, Typed, ClientFits, IctFits, After, States
      <3> QED BY <2>1, <3>2 DEF Inner, Puts
    <2>4. CASE tx[t].state # "COMPLETED"
      <3> DEFINE told == Append(tx[t].told, "answer")
      <3>1. tx[t].told = <<>>
        BY <1>0, <2>1, <2>2, <2>4, LiveClient DEF ClientFits
      <3>2. told \in Answered
        BY <3>1, ToldNext
      <3>3. Typed(tx[t])
        BY <1>0, <2>2, LiveClient
      <3>4. y = [tx[t] EXCEPT !.state = "COMPLETED", !.timers = timers, !.told = told]
        BY <2>4, <3>3 DEF IctCompleted, sendACK, timers, Tell, Typed
      <3> HIDE DEF y, told
      <3>5. /\ Typed(y) /\ y.state = "COMPLETED" /\ y.timers = timers /\ y.told = told
            /\ y.kind = "ict" /\ y.branch = tx[t].branch
        <4>1. told \in Tellings
          BY <3>2, ToldNext
        <4> QED BY <2>1, <2>a, <3>3, <3>4, <4>1 DEF Typed, States
      <3>6. Fits(t, y) /\ After(tx[t], y)
        BY <1>0, <2>1, <2>2, <2>a, <3>2, <3>5, LiveClient DEF Fits, ClientFits, IctFits, After
      <3> QED BY <2>1, <3>5, <3>6 DEF Inner, Puts, y
    <2> QED BY <2>3, <2>4
  <1> QED BY <1>2, <1>3, <1>4, <1>5, <1>6

\* A reply moves its transaction on, or ends it when the transport refuses it.
LEMMA ReplyShape ==
  ASSUME NEW t \in ServerTx, IInv,
         \/ \E code \in {"2xx", "3-6xx"} : NistReply(t, code)
         \/ NistReply100(t) \/ IstProvisional(t) \/ IstSuccess(t) \/ IstFailure(t)
  PROVE  Inner(t) \/ Ended(t)
  <1>0. t \in Tx /\ RecordInv
    BY DEF Tx, IInv
  <1>1. tx[t].kind \in ServerKinds /\ Live(t)
    BY DEF NistReply, NistReply100, IstProvisional, IstSuccess, IstFailure, RejectStates, ServerKinds, Live
  <1>2. ServerFits(tx[t]) /\ Typed(tx[t]) /\ tx[t] # Unused
    BY <1>0, <1>1, LiveServer
  <1>3. ASSUME NEW y, Puts(t, y), y.kind = tx[t].kind, y.branch = tx[t].branch, y.state # "TERMINATED", Keep
        PROVE  Inner(t)
    BY <1>1, <1>2, <1>3 DEF Inner, After, Live
  <1>4. ASSUME NEW x, Fits(t, x), x.state # "TERMINATED", x.kind = tx[t].kind, x.branch = tx[t].branch,
               tx' = [tx EXCEPT ![t] = TransportError(x)], Destroy(t)
        PROVE  Ended(t)
    <2>1. Puts(t, TransportError(x)) /\ TransportError(x).state = "TERMINATED" /\ After(x, TransportError(x))
      BY <1>0, <1>4, ErrorEnds DEF Puts
    <2> QED BY <1>1, <1>2, <1>4, <2>1 DEF Ended, After, Live
  <1>5. ASSUME NEW code \in {"2xx", "3-6xx"}, NistReply(t, code)
        PROVE  Inner(t) \/ Ended(t)
    <2> DEFINE x == [tx[t] EXCEPT !.state = "COMPLETED", !.last = code, !.timers = @ \cup {"J"}]
               y == [x EXCEPT !.answers = @ \cup {code}]
    <2>1. Fits(t, x) /\ x.state # "TERMINATED" /\ x.kind = tx[t].kind /\ x.branch = tx[t].branch
      BY <1>2, <1>5 DEF NistReply, Fits, Typed, ServerFits, NistFits, IstFits, States, Timers, Texts
    <2>2. Fits(t, y) /\ y.state # "TERMINATED" /\ y.kind = tx[t].kind /\ y.branch = tx[t].branch
      BY <1>2, <1>5 DEF NistReply, Fits, Typed, ServerFits, NistFits, IstFits, States, Timers, Texts
    <2>3. IF Sends THEN tx' = [tx EXCEPT ![t] = y] /\ Keep ELSE tx' = [tx EXCEPT ![t] = TransportError(x)] /\ Destroy(t)
      BY <1>5 DEF NistReply
    <2> QED BY <1>3, <1>4, <2>1, <2>2, <2>3 DEF Puts
  <1>6. CASE NistReply100(t)
    <2> DEFINE y == IF tx[t].state = "TRYING" THEN [tx[t] EXCEPT !.state = "PROCEEDING"] ELSE [tx[t] EXCEPT !.last = "100"]
    <2>1. Fits(t, y) /\ y.state # "TERMINATED" /\ y.kind = tx[t].kind /\ y.branch = tx[t].branch
      BY <1>2, <1>6 DEF NistReply100, Fits, Typed, ServerFits, NistFits, IstFits, States, Timers, Texts
    <2>2. IF Sends THEN tx' = [tx EXCEPT ![t] = y] /\ Keep ELSE tx' = [tx EXCEPT ![t] = TransportError(y)] /\ Destroy(t)
      BY <1>6 DEF NistReply100
    <2> QED BY <1>3, <1>4, <2>1, <2>2 DEF Puts
  <1>7. CASE IstProvisional(t)
    <2> DEFINE y == [tx[t] EXCEPT !.last = "1xx", !.timers = @ \cup {"resend"}]
               z == [TransportError(tx[t]) EXCEPT !.last = "1xx"]
    <2>1. Fits(t, y) /\ y.state # "TERMINATED" /\ y.kind = tx[t].kind /\ y.branch = tx[t].branch
      BY <1>2, <1>7 DEF IstProvisional, Fits, Typed, ServerFits, NistFits, IstFits, States, Timers, Texts
    <2>2. Fits(t, z) /\ z.state = "TERMINATED" /\ After(tx[t], z)
      BY <1>2, <1>7
      DEF IstProvisional, TransportError, IstTransportError, Terminated, Fits, Typed, ServerFits, NistFits, IstFits,
          After, States, Timers, Texts
    <2>3. IF Sends THEN tx' = [tx EXCEPT ![t] = y] /\ Keep ELSE tx' = [tx EXCEPT ![t] = z] /\ Destroy(t)
      BY <1>7 DEF IstProvisional
    <2> QED BY <1>3, <2>1, <2>2, <2>3 DEF Puts, Ended
  <1>8. CASE IstSuccess(t)
    <2> DEFINE x == IstAccepted(tx[t])
               y == [x EXCEPT !.answers = @ \cup {"2xx"}]
               x1 == [tx[t] EXCEPT !.state = "ACCEPTED", !.last = "2xx", !.timers = (@ \ {"resend"}) \cup {"L"}]
    <2>1. tx[t].kind = "ist" /\ tx[t].state \in {"PROCEEDING", "ACCEPTED"}
      BY <1>8 DEF IstSuccess
    <2>2. Fits(t, x1)
      BY <1>2, <2>1 DEF Fits, Typed, ServerFits, NistFits, IstFits, States, Timers, Texts
    <2>3. x.state = "ACCEPTED" /\ x.kind = tx[t].kind /\ x.branch = tx[t].branch /\ Fits(t, x)
      <3>1. CASE tx[t].state = "ACCEPTED"
        BY <1>0, <3>1 DEF IstAccepted, RecordInv
      <3>2. CASE tx[t].state # "ACCEPTED"
        BY <1>2, <2>2, <3>2 DEF IstAccepted, Typed
      <3> QED BY <3>1, <3>2
    <2>4. ServerFits(x) /\ Typed(x)
      <3>1. x # Unused /\ ~ClientFits(t, x)
        BY <2>1, <2>3 DEF Unused, NewTx, ClientFits
      <3> QED BY <2>3, <3>1 DEF Fits
    <2> HIDE DEF x
    <2>5. Fits(t, y) /\ y.state = "ACCEPTED" /\ y.kind = tx[t].kind /\ y.branch = tx[t].branch
      BY <2>1, <2>3, <2>4 DEF Fits, Typed, ServerFits, NistFits, IstFits, Texts
    <2>6. IF Sends THEN tx' = [tx EXCEPT ![t] = y] /\ Keep ELSE tx' = [tx EXCEPT ![t] = TransportError(x)] /\ Destroy(t)
      BY <1>8 DEF IstSuccess, x
    <2> QED BY <1>3, <1>4, <2>3, <2>5, <2>6 DEF Puts
  <1>9. CASE IstFailure(t)
    <2> DEFINE x == [tx[t] EXCEPT !.timers = @ \ {"resend"}]
               y == [x EXCEPT !.state = "COMPLETED", !.timers = @ \cup {"H"}, !.answers = @ \cup {"3-6xx"}]
    <2>1. Fits(t, x) /\ x.state # "TERMINATED" /\ x.kind = tx[t].kind /\ x.branch = tx[t].branch
      BY <1>1, <1>2, <1>9 DEF IstFailure, RejectStates, Live, Fits, Typed, ServerFits, NistFits, IstFits, States, Timers, Texts
    <2>2. Fits(t, y) /\ y.state # "TERMINATED" /\ y.kind = tx[t].kind /\ y.branch = tx[t].branch
      BY <1>2, <1>9 DEF IstFailure, RejectStates, Fits, Typed, ServerFits, NistFits, IstFits, States, Timers, Texts
    <2>3. IF Sends THEN tx' = [tx EXCEPT ![t] = y] /\ Keep ELSE tx' = [tx EXCEPT ![t] = TransportError(x)] /\ Destroy(t)
      BY <1>9 DEF IstFailure
    <2> QED BY <1>3, <1>4, <2>1, <2>2, <2>3 DEF Puts
  <1> QED BY <1>5, <1>6, <1>7, <1>8, <1>9

\* Two ways a record ends without news.
LEMMA ServerEnds ==
  ASSUME NEW t \in ServerTx, NEW x, Typed(x), ServerFits(x), "resend" \notin x.timers, NEW timer
  PROVE  LET y == [[x EXCEPT !.timers = @ \ {timer}] EXCEPT !.state = "TERMINATED"]
         IN Fits(t, y) /\ y.state = "TERMINATED" /\ y.kind = x.kind /\ y.branch = x.branch /\ y.told = x.told
  BY DEF Fits, Typed, ServerFits, NistFits, IstFits, States

LEMMA ClientEnds ==
  ASSUME NEW t \in ClientTx, NEW x, Typed(x), ClientFits(t, x),
         x.state \in {"ACCEPTED", "COMPLETED", "TERMINATED"}, "F" \notin x.timers,
         NEW timers, timers \subseteq x.timers, x.state # "ACCEPTED" \/ timers \subseteq {"M", "B"}
  PROVE  LET y == [x EXCEPT !.timers = timers, !.state = "TERMINATED"]
         IN Fits(t, y) /\ y.state = "TERMINATED" /\ y.kind = x.kind /\ y.branch = x.branch /\ y.told = x.told
  <1>1. x.told \in Once \cup Twice
    BY ToldNext DEF ClientFits
  <1> QED BY <1>1 DEF Fits, Typed, ClientFits, NictFits, IctFits, States

\* The timers of a client transaction.
LEMMA ClientTimerShape ==
  ASSUME NEW t \in ClientTx, NEW timer \in Timers, IInv, Timer(t, timer)
  PROVE  Inner(t) \/ Ended(t)
  <1>0. t \in Tx /\ RecordInv /\ timer \in tx[t].timers
    BY DEF Tx, IInv, Timer
  <1>1. Typed(tx[t]) /\ ClientFits(t, tx[t]) /\ tx[t] # Unused
    BY <1>0, TxAssumption DEF RecordInv, Fits, Unused, NewTx
  <1> DEFINE left == tx[t].timers \ {timer}
  <1>2. ASSUME NEW timers, timers \subseteq left, tx[t].state \in {"ACCEPTED", "COMPLETED", "TERMINATED"},
               "F" \notin tx[t].timers, tx[t].state # "ACCEPTED" \/ timers \subseteq {"M", "B"},
               tx' = [tx EXCEPT ![t] = [tx[t] EXCEPT !.timers = timers, !.state = "TERMINATED"]], Destroy(t)
        PROVE  Ended(t)
    BY <1>1, <1>2, ClientEnds DEF Ended, Puts, After
  <1>3. CASE timer = "F"
    <2>1. tx' = [tx EXCEPT ![t] = Terminated(Tell(Fired(t, "F"), "timeout"))] /\ Destroy(t)
      BY <1>3 DEF Timer, timer_F, End
    <2>2. tx[t].kind = "nict" /\ tx[t].told = <<>> /\ tx[t].state \in {"TRYING", "PROCEEDING"}
      BY <1>0, <1>1, <1>3 DEF ClientFits, NictFits, IctFits
    <2> DEFINE told == Append(tx[t].told, "timeout")
               y == [tx[t] EXCEPT !.timers = left, !.state = "TERMINATED", !.told = told]
    <2>3. told \in Once /\ told \in Tellings
      BY <2>2, ToldNext
    <2>4. Terminated(Tell(Fired(t, "F"), "timeout")) = y
      BY <1>1, <1>3 DEF Terminated, Tell, Fired, Typed
    <2> HIDE DEF told
    <2>5. Fits(t, y) /\ After(tx[t], y) /\ y.state = "TERMINATED"
      BY <1>1, <1>3, <2>2, <2>3 DEF Fits, Typed, ClientFits, NictFits, After, States
    <2> QED BY <2>1, <2>4, <2>5 DEF Ended, Puts
  <1>4. CASE timer = "K"
    <2>1. tx' = [tx EXCEPT ![t] = Terminated(Fired(t, "K"))] /\ Destroy(t)
      BY <1>4 DEF Timer, timer_K, End
    <2>2. tx[t].state \in {"COMPLETED", "TERMINATED"} /\ "F" \notin tx[t].timers
      BY <1>0, <1>1, <1>4 DEF ClientFits, NictFits, IctFits
    <2>3. Terminated(Fired(t, "K")) = [tx[t] EXCEPT !.timers = left, !.state = "TERMINATED"]
      BY <1>1, <1>4 DEF Terminated, Fired, Typed
    <2> QED BY <1>2, <2>1, <2>2, <2>3
  <1>5. CASE timer \in {"D", "staleD"}
    <2> DEFINE timers == left \ {"B"}
    <2>1. tx' = [tx EXCEPT ![t] = Terminated([Fired(t, timer) EXCEPT !.timers = @ \ {"B"}])] /\ Destroy(t)
      BY <1>5 DEF Timer, timer_D, End
    <2>2. tx[t].state \in {"COMPLETED", "TERMINATED"} /\ "F" \notin tx[t].timers
      BY <1>0, <1>1, <1>5 DEF ClientFits, NictFits, IctFits
    <2>3. Terminated([Fired(t, timer) EXCEPT !.timers = @ \ {"B"}]) = [tx[t] EXCEPT !.timers = timers, !.state = "TERMINATED"]
      BY <1>1 DEF Terminated, Fired, Typed
    <2>4. timers \subseteq left /\ tx[t].state # "ACCEPTED"
      BY <2>2
    <2>5. tx' = [tx EXCEPT ![t] = [tx[t] EXCEPT !.timers = timers, !.state = "TERMINATED"]] /\ Destroy(t)
      BY <2>1, <2>3
    <2> HIDE DEF timers, left
    <2> QED BY <1>2, <2>2, <2>4, <2>5
  <1>6. CASE timer = "M"
    <2>1. CASE tx[t].state = "ACCEPTED"
      <3> DEFINE timers == left \ {"B"}
      <3>1. tx' = [tx EXCEPT ![t] = Terminated([Fired(t, timer) EXCEPT !.timers = @ \ {"B"}])] /\ Destroy(t)
        BY <1>6, <2>1 DEF Timer, timer_M, End
      <3>2. "F" \notin tx[t].timers /\ timers \subseteq {"M", "B"}
        BY <1>1, <2>1 DEF ClientFits, NictFits, IctFits
      <3>3. Terminated([Fired(t, timer) EXCEPT !.timers = @ \ {"B"}]) = [tx[t] EXCEPT !.timers = timers, !.state = "TERMINATED"]
        BY <1>1 DEF Terminated, Fired, Typed
      <3> QED BY <1>2, <2>1, <3>1, <3>2, <3>3
    <2>2. CASE tx[t].state # "ACCEPTED"
      BY <1>0, <1>1, <1>6, <2>2
      DEF Timer, timer_M, Fired, Inner, Puts, After, Live, Fits, Typed, ClientFits, NictFits, IctFits
    <2> QED BY <2>1, <2>2
  <1>7. CASE timer = "B"
    <2>1. CASE tx[t].state = "CALLING"
      <3>1. tx' = [tx EXCEPT ![t] = Terminated(Tell(Fired(t, "B"), "timeout"))] /\ Destroy(t)
        BY <1>7, <2>1 DEF Timer, timer_B, End
      <3>2. tx[t].kind = "ict" /\ tx[t].told = <<>>
        BY <1>0, <1>1, <2>1 DEF ClientFits, NictFits, IctFits
      <3> DEFINE told == Append(tx[t].told, "timeout")
                 y == [tx[t] EXCEPT !.timers = left, !.state = "TERMINATED", !.told = told]
      <3>3. told \in Once /\ told \in Tellings
        BY <3>2, ToldNext
      <3>4. Terminated(Tell(Fired(t, "B"), "timeout")) = y
        BY <1>1, <1>7 DEF Terminated, Tell, Fired, Typed
      <3> HIDE DEF told
      <3>5. Fits(t, y) /\ After(tx[t], y) /\ y.state = "TERMINATED"
        BY <1>1, <1>7, <2>1, <3>2, <3>3 DEF Fits, Typed, ClientFits, IctFits, After, States
      <3> QED BY <3>1, <3>4, <3>5 DEF Ended, Puts
    <2>2. CASE tx[t].state # "CALLING"
      BY <1>0, <1>1, <1>7, <2>2
      DEF Timer, timer_B, Fired, Inner, Puts, After, Live, Fits, Typed, ClientFits, NictFits, IctFits
    <2> QED BY <2>1, <2>2
  <1>8. timer \in {"B", "D", "staleD", "F", "K", "M"}
    BY <1>0, <1>1 DEF ClientFits, NictFits, IctFits
  <1> QED BY <1>3, <1>4, <1>5, <1>6, <1>7, <1>8

\* The timers of a server transaction.
LEMMA ServerTimerShape ==
  ASSUME NEW t \in ServerTx, NEW timer \in Timers, IInv, Timer(t, timer)
  PROVE  Inner(t) \/ Ended(t)
  <1>0. t \in Tx /\ RecordInv /\ timer \in tx[t].timers
    BY DEF Tx, IInv, Timer
  <1>1. Typed(tx[t]) /\ ServerFits(tx[t]) /\ tx[t] # Unused
    BY <1>0, TxAssumption DEF RecordInv, Fits, Unused, NewTx
  <1>2. ASSUME timer # "resend", End(t, Fired(t, timer))
        PROVE  Ended(t)
    <2>1. "resend" \notin tx[t].timers
      BY <1>0, <1>1, <1>2 DEF ServerFits, NistFits, IstFits
    <2>2. tx' = [tx EXCEPT ![t] = [[tx[t] EXCEPT !.timers = @ \ {timer}] EXCEPT !.state = "TERMINATED"]] /\ Destroy(t)
      BY <1>2 DEF End, Terminated, Fired
    <2> QED BY <1>1, <2>1, <2>2, ServerEnds DEF Ended, Puts, After
  <1>3. CASE timer = "resend"
    <2>1. tx[t].state = "PROCEEDING" /\ ~tx[t].failed
      BY <1>0, <1>1, <1>3 DEF ServerFits, NistFits, IstFits
    <2> DEFINE y == TransportError(tx[t])
    <2>2. tx' = [tx EXCEPT ![t] = y] /\ Destroy(t)
      BY <1>3, <2>1 DEF Timer, resend_provisional
    <2>3. Fits(t, tx[t])
      BY <1>0 DEF RecordInv
    <2>4. Fits(t, y) /\ After(tx[t], y) /\ y.state = "TERMINATED"
      BY <1>0, <2>1, <2>3, ErrorEnds
    <2> HIDE DEF y
    <2> QED BY <2>2, <2>4 DEF Ended, Puts
  <1>4. CASE timer \in {"H", "I", "J"}
    BY <1>2, <1>4 DEF Timer, timer_H, timer_I, timer_J
  <1>5. CASE timer = "L"
    <2>1. CASE tx[t].state = "ACCEPTED"
      BY <1>2, <1>5, <2>1 DEF Timer, timer_L
    <2>2. CASE tx[t].state # "ACCEPTED"
      <3> DEFINE y == Fired(t, "L")
      <3>1. tx' = [tx EXCEPT ![t] = y] /\ Keep
        BY <1>5, <2>2 DEF Timer, timer_L
      <3>2. Fits(t, y) /\ After(tx[t], y) /\ y.state = tx[t].state
        BY <1>1 DEF Fired, After, Fits, Typed, ServerFits, NistFits, IstFits
      <3> QED BY <3>1, <3>2 DEF Inner, Puts, Live
    <2> QED BY <2>1, <2>2
  <1>6. timer \in {"resend", "H", "I", "J", "L"}
    BY <1>0, <1>1 DEF ServerFits, NistFits, IstFits
  <1> QED BY <1>3, <1>4, <1>5, <1>6

LEMMA AckShape ==
  ASSUME NEW b \in Branches, IInv, IstAck(b)
  PROVE  \E t \in Tx : Inner(t)
  <1> DEFINE t == servers["ist"][b]
             y == [tx[t] EXCEPT !.state = "CONFIRMED", !.timers = @ \cup {"I"}]
  <1>1. t # NoTx /\ tx[t].state = "COMPLETED" /\ tx' = [tx EXCEPT ![t] = y] /\ Keep
    BY DEF IstAck, AckTaken
  <1>2. t \in ServerTx /\ tx[t].kind = "ist"
    BY <1>1 DEF IInv, Entries, ServerKinds
  <1>3. t \in Tx /\ Live(t) /\ RecordInv
    BY <1>1, <1>2 DEF Tx, Live, IInv
  <1>4. Typed(tx[t]) /\ ServerFits(tx[t]) /\ tx[t] # Unused
    BY <1>2, <1>3, LiveServer DEF ServerKinds
  <1> HIDE DEF t
  <1>5. /\ Typed(y) /\ y.state = "CONFIRMED" /\ y.timers = tx[t].timers \cup {"I"}
        /\ y.kind = tx[t].kind /\ y.branch = tx[t].branch /\ y.told = tx[t].told
        /\ y.last = tx[t].last /\ y.answers = tx[t].answers /\ y.failed = tx[t].failed
    BY <1>4 DEF Typed, States, Timers
  <1> HIDE DEF y
  <1>6. ServerFits(y)
    BY <1>1, <1>2, <1>4, <1>5 DEF ServerFits, IstFits, NistFits
  <1>7. Fits(t, y) /\ After(tx[t], y) /\ y.state # "TERMINATED"
    BY <1>1, <1>2, <1>4, <1>5, <1>6 DEF Fits, After
  <1> QED BY <1>1, <1>3, <1>7 DEF Inner, Puts

Still == UNCHANGED <<tx, clients, servers>>

LEMMA StepShape ==
  ASSUME IInv, [Next]_vars
  PROVE  (\E t \in Tx : Shape(t)) \/ onTransportDisconnect \/ Still
  <1>1. ASSUME NEW t \in ClientTx, ClientStep(t)
        PROVE  \E u \in Tx : Shape(u)
    BY <1>1, BeginShape, ResponseShape DEF ClientStep, Shape, Tx, IInv
  <1>2. ASSUME NEW t \in ServerTx, ServerStep(t)
        PROVE  \E u \in Tx : Shape(u)
    BY <1>2, BeginShape, ReplyShape DEF ServerStep, Shape, Tx, IInv
  <1>3. ASSUME NEW b \in Branches, IstAck(b)
        PROVE  \E u \in Tx : Shape(u)
    BY <1>3, AckShape DEF Shape
  <1>4. ASSUME NEW t \in Tx, NEW timer \in Timers, Timer(t, timer)
        PROVE  \E u \in Tx : Shape(u)
    BY <1>4, ClientTimerShape, ServerTimerShape DEF Shape, Tx
  <1>5. CASE Lost \/ onTransportConnect \/ UNCHANGED vars
    BY <1>5 DEF Lost, onTransportConnect, vars, Still
  <1> QED BY <1>1, <1>2, <1>3, <1>4, <1>5 DEF Next

LEMMA WireStep ==
  ASSUME WireType, [Next]_vars
  PROVE  WireType'
  <1>1. UNCHANGED wire \/ wire' \in {"open", "closing", "down"}
    BY DEF Next, vars, ClientStep, ServerStep, NictSend, IctSend, Start, NictProvisional, NictFinal, IctProvisional,
           IctSuccess, IctFailure, NistNew, IstNew, NewServer, NistReply, NistReply100, IstProvisional, IstSuccess,
           IstFailure, IstAck, Timer, Lost, onTransportDisconnect, onTransportConnect
  <1> QED BY <1>1 DEF WireType

------------------------------------------------------------------------------
(* The tables follow from the shapes.                                        *)

LEMMA Kinds ==
  ASSUME RecordInv, NEW t \in Tx, tx[t] # Unused
  PROVE  /\ t \in ServerTx => tx[t].kind \in ServerKinds /\ tx[t].branch \in Branches
         /\ t \in ClientTx => tx[t].kind \notin ServerKinds
         /\ tx[t].kind # "none"
  BY TxAssumption DEF RecordInv, Fits, ClientFits, ServerFits, ServerKinds

LEMMA PutRecords ==
  ASSUME RecordInv, NEW t \in Tx, NEW y, Puts(t, y)
  PROVE  /\ RecordInv'
         /\ tx'[t] = y
         /\ \A u \in Tx : u # t => tx'[u] = tx[u]
  BY DEF RecordInv, Puts, Fits

LEMMA InnerTables ==
  ASSUME IInv, NEW t \in Tx, Inner(t)
  PROVE  RecordInv' /\ Entries' /\ LiveAreListed' /\ EndedAreGone'
  <1>1. PICK y : Puts(t, y) /\ After(tx[t], y) /\ (y.state = "TERMINATED" => ~Live(t)) /\ Keep
    BY DEF Inner
  <1>2. RecordInv' /\ tx'[t] = y /\ \A u \in Tx : u # t => tx'[u] = tx[u]
    BY <1>1, PutRecords DEF IInv
  <1>3. \A u \in Tx : tx'[u].kind = tx[u].kind /\ tx'[u].branch = tx[u].branch /\ (Live(u)' <=> Live(u))
    BY <1>1, <1>2 DEF After, Live
  <1>4. clients' = clients /\ servers' = servers
    BY <1>1 DEF Keep
  <1>5. Entries'
    BY <1>3, <1>4 DEF IInv, Entries, Tx
  <1>6. LiveAreListed'
    BY <1>3, <1>4 DEF IInv, LiveAreListed, InTable, Reused, Tx
  <1>7. EndedAreGone'
    <2>1. Listed' = Listed /\ Listed \subseteq Tx
      BY <1>4 DEF Listed, IInv, Entries, Tx
    <2> QED BY <1>3, <2>1 DEF IInv, EndedAreGone
  <1> QED BY <1>2, <1>5, <1>6, <1>7

LEMMA EndedTables ==
  ASSUME IInv, NEW t \in Tx, Ended(t)
  PROVE  RecordInv' /\ Entries' /\ LiveAreListed' /\ EndedAreGone'
  <1>1. PICK y : Puts(t, y) /\ After(tx[t], y) /\ y.state = "TERMINATED" /\ Destroy(t)
    BY DEF Ended
  <1>2. RecordInv' /\ tx'[t] = y /\ \A u \in Tx : u # t => tx'[u] = tx[u]
    BY <1>1, PutRecords DEF IInv
  <1>3. \A u \in Tx : tx'[u].kind = tx[u].kind /\ tx'[u].branch = tx[u].branch
    BY <1>1, <1>2 DEF After
  <1>4. ~Live(t)' /\ \A u \in Tx : u # t => (Live(u)' <=> Live(u))
    BY <1>1, <1>2 DEF Live
  <1>5. t \in ServerTx => tx[t].kind \in ServerKinds /\ tx[t].branch \in Branches
    BY <1>1, Kinds DEF After, IInv
  <1>6. /\ clients' = clients \ {t}
        /\ servers' = IF t \in ClientTx THEN servers ELSE [servers EXCEPT ![tx[t].kind][tx[t].branch] = NoTx]
    BY <1>1 DEF Destroy
  <1>7. \A k \in ServerKinds, b \in Branches :
          /\ servers'[k][b] \in {servers[k][b], NoTx}
          /\ servers'[k][b] # servers[k][b] => t \in ServerTx /\ k = tx[t].kind /\ b = tx[t].branch
          /\ t \in ServerTx /\ k = tx[t].kind /\ b = tx[t].branch => servers'[k][b] = NoTx
    BY <1>5, <1>6, TxAssumption DEF IInv, Entries, Tx
  <1>8. servers' \in [ServerKinds -> [Branches -> ServerTx \cup {NoTx}]]
    BY <1>5, <1>6 DEF IInv, Entries, Tx
  <1>9. Entries'
    BY <1>3, <1>6, <1>7, <1>8 DEF IInv, Entries, Tx
  <1>10. LiveAreListed'
    <2> SUFFICES ASSUME NEW u \in Tx, Live(u)'
                 PROVE  InTable(u)' \/ (u \in ServerTx /\ Reused(u)')
      BY DEF LiveAreListed
    <2>1. u # t /\ Live(u)
      BY <1>4
    <2>2. CASE u \in ClientTx
      BY <1>6, <2>1, <2>2, TxAssumption DEF IInv, LiveAreListed, InTable
    <2>3. CASE u \in ServerTx /\ Reused(u)
      BY <1>3, <2>3 DEF Reused, Tx
    <2>4. CASE u \in ServerTx /\ InTable(u)
      <3>1. servers[tx[u].kind][tx[u].branch] = u /\ tx[u].kind \in ServerKinds /\ tx[u].branch \in Branches
        <4>1. tx[u] # Unused
          BY <2>1 DEF Live, Unused, NewTx
        <4> QED BY <2>4, <4>1, Kinds, TxAssumption DEF InTable, IInv
      <3>2. CASE servers'[tx[u].kind][tx[u].branch] = u
        BY <1>3, <2>4, <3>2, TxAssumption DEF InTable
      <3>3. CASE servers'[tx[u].kind][tx[u].branch] # u
        <4>1. t \in ServerTx /\ tx[u].kind = tx[t].kind /\ tx[u].branch = tx[t].branch
          BY <1>7, <3>1, <3>3
        <4> QED BY <1>3, <2>1, <2>4, <4>1 DEF Reused
      <3> QED BY <3>2, <3>3
    <2> QED BY <2>1, <2>2, <2>3, <2>4 DEF IInv, LiveAreListed, Tx
  <1>11. EndedAreGone'
    <2> SUFFICES ASSUME NEW u \in Listed'
                 PROVE  Live(u)'
      BY DEF EndedAreGone
    <2>1. u \in Listed /\ u \in Tx
      <3>1. CASE u \in clients'
        BY <1>6, <1>9, <3>1 DEF Listed, Entries, Tx
      <3>2. CASE u \notin clients'
        <4>1. PICK k \in ServerKinds, b \in Branches : u = servers'[k][b] /\ u # NoTx
          BY <3>2 DEF Listed
        <4>2. servers[k][b] = u
          BY <1>7, <4>1
        <4>3. u \in ServerTx
          BY <1>8, <4>1
        <4> QED BY <4>1, <4>2, <4>3 DEF Listed, Tx
      <3> QED BY <3>1, <3>2
    <2>2. u # t
      <3>1. t \notin clients'
        BY <1>6
      <3>2. ASSUME NEW k \in ServerKinds, NEW b \in Branches, servers'[k][b] = t
            PROVE  FALSE
        <4>1. t \in ServerTx
          BY <1>8, <3>2, TxAssumption DEF Tx
        <4>2. tx'[t].kind = k /\ tx'[t].branch = b
          BY <1>9, <3>2, <4>1, TxAssumption DEF Entries
        <4> QED BY <1>3, <1>7, <3>2, <4>1, <4>2, TxAssumption
      <3> QED BY <3>1, <3>2 DEF Listed
    <2> QED BY <1>4, <2>1, <2>2 DEF IInv, EndedAreGone
  <1> QED BY <1>2, <1>9, <1>10, <1>11

LEMMA BegunTables ==
  ASSUME IInv, NEW t \in Tx, Begun(t)
  PROVE  RecordInv' /\ Entries' /\ LiveAreListed' /\ EndedAreGone'
  <1>1. PICK y : /\ Puts(t, y) /\ y # Unused
                 /\ IF y.state = "TERMINATED" THEN Keep ELSE Entered(t, y)
    BY DEF Begun
  <1>2. RecordInv' /\ tx'[t] = y /\ \A u \in Tx : u # t => tx'[u] = tx[u]
    BY <1>1, PutRecords DEF IInv
  <1>3. tx[t] = Unused /\ ~Live(t) /\ tx[t].kind = "none"
    BY DEF Begun, Unstarted, Live, Unused, NewTx
  <1>4. \A u \in Tx : u # t => (Live(u)' <=> Live(u))
    BY <1>2 DEF Live
  <1>5. /\ t \in ServerTx => y.kind \in ServerKinds /\ y.branch \in Branches
        /\ Live(t)' <=> y.state # "TERMINATED"
    BY <1>1, <1>2, TxAssumption DEF Puts, Fits, ClientFits, ServerFits, ServerKinds, Live
  <1>6. Listed \subseteq Tx /\ t \notin Listed
    BY <1>3 DEF IInv, EndedAreGone, Listed, Entries, Tx
  <1>7. \A u \in Tx, w \in Tx : u # t /\ Live(u) /\ tx[w].kind = tx[u].kind /\ tx[w].branch = tx[u].branch
                              => w # t
    <2>1. \A u \in Tx : Live(u) => tx[u].kind # "none"
      BY Kinds DEF Live, Unused, NewTx, IInv
    <2> QED BY <1>3, <2>1
  <1>8. \A u \in ServerTx : u # t /\ Live(u) /\ Reused(u) => Reused(u)'
    BY <1>2, <1>7 DEF Reused, Tx
  <1>9. CASE y.state = "TERMINATED"
    <2>1. clients' = clients /\ servers' = servers
      BY <1>1, <1>9 DEF Keep
    <2>2. Entries'
      BY <1>2, <1>6, <2>1 DEF IInv, Entries, Listed, Tx
    <2>3. LiveAreListed'
      BY <1>2, <1>4, <1>5, <1>8, <1>9, <2>1 DEF IInv, LiveAreListed, InTable, Tx
    <2>4. EndedAreGone'
      <3>1. Listed' = Listed
        BY <2>1 DEF Listed
      <3> QED BY <1>4, <1>6, <3>1 DEF IInv, EndedAreGone
    <2> QED BY <1>2, <2>2, <2>3, <2>4
  <1>10. CASE y.state # "TERMINATED" /\ t \in ClientTx
    <2>1. clients' = clients \cup {t} /\ servers' = servers
      BY <1>1, <1>10, TxAssumption DEF Entered
    <2>2. Entries'
      BY <1>2, <1>6, <1>10, <2>1 DEF IInv, Entries, Listed, Tx
    <2>3. LiveAreListed'
      BY <1>2, <1>4, <1>8, <1>10, <2>1 DEF IInv, LiveAreListed, InTable, Tx
    <2>4. EndedAreGone'
      <3>1. Listed' = Listed \cup {t}
        BY <2>1 DEF Listed
      <3> QED BY <1>4, <1>5, <1>6, <1>10, <3>1 DEF IInv, EndedAreGone
    <2> QED BY <1>2, <2>2, <2>3, <2>4
  <1>11. CASE y.state # "TERMINATED" /\ t \in ServerTx
    <2>1. /\ clients' = clients
          /\ servers' = [servers EXCEPT ![y.kind][y.branch] = t]
          /\ servers[y.kind][y.branch] = NoTx
      BY <1>1, <1>11, TxAssumption DEF Entered
    <2>2. \A k \in ServerKinds, b \in Branches :
            servers'[k][b] = IF k = y.kind /\ b = y.branch THEN t ELSE servers[k][b]
      BY <1>5, <1>11, <2>1 DEF IInv, Entries
    <2>3. servers' \in [ServerKinds -> [Branches -> ServerTx \cup {NoTx}]]
      BY <1>5, <1>11, <2>1 DEF IInv, Entries
    <2>4. Entries'
      BY <1>2, <1>6, <1>11, <2>1, <2>2, <2>3 DEF IInv, Entries, Listed, Tx
    <2>5. LiveAreListed'
      <3> SUFFICES ASSUME NEW u \in Tx, Live(u)'
                   PROVE  InTable(u)' \/ (u \in ServerTx /\ Reused(u)')
        BY DEF LiveAreListed
      <3>1. CASE u = t
        BY <1>2, <1>5, <1>11, <2>2, <3>1, TxAssumption DEF InTable
      <3>2. CASE u # t /\ u \in ClientTx
        BY <1>4, <2>1, <3>2, TxAssumption DEF IInv, LiveAreListed, InTable
      <3>3. CASE u # t /\ u \in ServerTx
        <4>1. Live(u) /\ tx'[u] = tx[u]
          BY <1>2, <1>4, <3>3
        <4>2. tx[u].kind \in ServerKinds /\ tx[u].branch \in Branches
          BY <3>3, <4>1, Kinds DEF Live, Unused, NewTx, IInv
        <4>3. Reused(u) \/ InTable(u)
          BY <3>3, <4>1 DEF IInv, LiveAreListed
        <4>4. CASE InTable(u)
          <5>1. servers[tx[u].kind][tx[u].branch] = u /\ u # NoTx
            BY <3>3, <4>4, TxAssumption DEF InTable
          <5>2. servers'[tx[u].kind][tx[u].branch] = u
            BY <2>1, <2>2, <4>2, <5>1
          <5> QED BY <3>3, <4>1, <5>2, TxAssumption DEF InTable
        <4> QED BY <1>8, <3>3, <4>1, <4>3, <4>4
      <3> QED BY <3>1, <3>2, <3>3 DEF Tx
    <2>6. EndedAreGone'
      <3>1. Listed' \subseteq Listed \cup {t}
        BY <2>1, <2>2 DEF Listed
      <3> QED BY <1>4, <1>5, <1>6, <1>11, <3>1 DEF IInv, EndedAreGone
    <2> QED BY <1>2, <2>4, <2>5, <2>6
  <1> QED BY <1>9, <1>10, <1>11 DEF Tx

LEMMA DisconnectTables ==
  ASSUME IInv, onTransportDisconnect
  PROVE  /\ RecordInv' /\ Entries' /\ LiveAreListed' /\ EndedAreGone'
         /\ \A t \in Tx : ~Live(t) => tx'[t] = tx[t]
  <1>1. /\ tx' = [t \in Tx |-> IF t \in Listed THEN TransportError(tx[t]) ELSE tx[t]]
        /\ clients' = {}
        /\ servers' = [k \in ServerKinds |-> [b \in Branches |-> NoTx]]
    BY DEF onTransportDisconnect
  <1>2. \A t \in Listed : t \in Tx /\ Live(t)
    BY DEF IInv, EndedAreGone, Entries, Listed, Tx
  <1>3. ASSUME NEW t \in Tx
        PROVE  Fits(t, tx'[t]) /\ (t \in Listed => ~Live(t)')
    <2>1. CASE t \in Listed
      <3>1. Fits(t, tx[t]) /\ tx[t].state # "TERMINATED"
        BY <1>2, <2>1 DEF IInv, RecordInv, Live
      <3>2. tx'[t] = TransportError(tx[t])
        BY <1>1, <2>1
      <3> QED BY <3>1, <3>2, ErrorEnds DEF Live
    <2>2. CASE t \notin Listed
      BY <1>1, <2>2 DEF IInv, RecordInv
    <2> QED BY <2>1, <2>2
  <1>4. RecordInv'
    BY <1>1, <1>3 DEF RecordInv
  <1>5. Entries'
    BY <1>1, TxAssumption DEF Entries, ServerKinds
  <1>6. EndedAreGone'
    BY <1>1 DEF EndedAreGone, Listed
  <1>7. LiveAreListed'
    <2> SUFFICES ASSUME NEW u \in Tx, Live(u)'
                 PROVE  u \in ServerTx /\ Reused(u)'
      BY DEF LiveAreListed
    <2>1. u \notin Listed /\ tx'[u] = tx[u] /\ Live(u)
      BY <1>1, <1>3 DEF Live
    <2>2. tx[u] # Unused
      BY <2>1 DEF Live, Unused, NewTx
    <2>3. ~InTable(u)
      <3>1. CASE u \in ClientTx
        BY <2>1, <3>1 DEF InTable, Listed
      <3>2. CASE u \in ServerTx
        <4>1. tx[u].kind \in ServerKinds /\ tx[u].branch \in Branches
          BY <2>2, <3>2, Kinds DEF IInv
        <4>2. u \notin ClientTx /\ u # NoTx
          BY <3>2, TxAssumption
        <4> QED BY <2>1, <4>1, <4>2 DEF InTable, Listed
      <3> QED BY <3>1, <3>2 DEF Tx
    <2>4. u \in ServerTx /\ Reused(u)
      BY <2>1, <2>3 DEF IInv, LiveAreListed
    <2>5. PICK w \in ServerTx \ {u} : tx[w].kind = tx[u].kind /\ tx[w].branch = tx[u].branch
      BY <2>4 DEF Reused
    <2>6. tx'[w].kind = tx[w].kind /\ tx'[w].branch = tx[w].branch
      <3>1. CASE w \in Listed
        <4>1. Fits(w, tx[w]) /\ tx[w].state # "TERMINATED" /\ w \in Tx
          BY <1>2, <3>1 DEF IInv, RecordInv, Live
        <4>2. tx'[w] = TransportError(tx[w])
          BY <1>1, <3>1, <4>1
        <4> QED BY <4>1, <4>2, ErrorEnds DEF After
      <3>2. CASE w \notin Listed
        BY <1>1, <2>5, <3>2 DEF Tx
      <3> QED BY <3>1, <3>2
    <2> QED BY <2>1, <2>4, <2>5, <2>6 DEF Reused
  <1>8. \A t \in Tx : ~Live(t) => tx'[t] = tx[t]
    BY <1>1, <1>2
  <1> QED BY <1>4, <1>5, <1>6, <1>7, <1>8

------------------------------------------------------------------------------
(* The theorems.                                                             *)

LEMMA InvInit == Init => IInv
  <1> SUFFICES ASSUME Init PROVE IInv
    OBVIOUS
  <1>1. Typed(Unused)
    BY ToldNext DEF Typed, Unused, NewTx, States, Texts
  <1>2. RecordInv
    BY <1>1 DEF Init, RecordInv, Fits
  <1>3. \A t \in Tx : ~Live(t)
    BY DEF Init, Live, Unused, NewTx
  <1>4. Entries /\ Listed = {}
    BY DEF Init, Entries, Listed
  <1> QED BY <1>2, <1>3, <1>4 DEF IInv, LiveAreListed, EndedAreGone, WireType, Init

LEMMA InvNext == IInv /\ [Next]_vars => IInv'
  <1> SUFFICES ASSUME IInv, [Next]_vars PROVE IInv'
    OBVIOUS
  <1>1. WireType'
    BY WireStep DEF IInv
  <1>2. CASE \E t \in Tx : Shape(t)
    BY <1>1, <1>2, InnerTables, EndedTables, BegunTables DEF Shape, IInv
  <1>3. CASE onTransportDisconnect
    BY <1>1, <1>3, DisconnectTables DEF IInv
  <1>4. CASE Still
    BY <1>1, <1>4
    DEF IInv, Still, RecordInv, Entries, LiveAreListed, EndedAreGone, Live, InTable, Reused, Listed
  <1> QED BY <1>2, <1>3, <1>4, StepShape

\* Every record fits its type and is where the tables say (RecordInv to WireType).
THEOREM Invariance == Spec => []IInv
  BY InvInit, InvNext, PTL DEF Spec

(* The tables of the user agent hold what is alive and nothing else
   (newTransaction, destroyTransaction): no message reaches a transaction that
   ended, and one that lives is found unless its branch was used again. *)
THEOREM Tables == Spec => []TablesAreTrue
  <1>1. IInv => TablesAreTrue
    BY DEF IInv, TablesAreTrue
  <1> QED BY <1>1, Invariance, PTL

(* Every variable has a value of its type. *)
THEOREM Typing == Spec => []TypeOK
  <1>1. \A o \in Outcomes : <<o>> \in Seq(Outcomes) /\ <<o, "transport">> \in Seq(Outcomes)
    BY DEF Outcomes
  <1>2. Tellings \subseteq Seq(Outcomes)
    <2>1. Once \subseteq Seq(Outcomes)
      BY <1>1, Zenon DEF Once
    <2>2. Twice \subseteq Seq(Outcomes)
      BY <1>1, Zenon DEF Twice, Outcomes
    <2>3. <<>> \in Seq(Outcomes)
      OBVIOUS
    <2> QED BY <2>1, <2>2, <2>3, Zenon DEF Tellings
  <1>3. ASSUME NEW x, Typed(x)
        PROVE  x \in TxType
    BY <1>2, <1>3 DEF Typed, TxType
  <1>4. IInv => TypeOK
    BY <1>3 DEF IInv, TypeOK, RecordInv, Fits, Entries, WireType
  <1> QED BY <1>4, Invariance, PTL

(* The user of a client transaction is told its end once, but for a connection
   lost between the final response and the timer that follows it. *)
THEOREM Outcome == Spec => []OneOutcome
  <1>1. ASSUME NEW o
        PROVE  Len(<<o>>) = 1
    OBVIOUS
  <1>2. ASSUME NEW told \in Twice
        PROVE  Len(told) = 2 /\ told[1] # "transport" /\ told[2] = "transport"
    BY <1>2 DEF Twice
  <1>3. ASSUME IInv, NEW t \in ClientTx, Len(tx[t].told) > 1
        PROVE  tx[t].told \in Twice /\ tx[t].state = "TERMINATED"
    <2>1. tx[t].told # <<>>
      BY <1>3
    <2>2. tx[t].told \notin Once
      <3> SUFFICES ASSUME NEW o, tx[t].told = <<o>>
                   PROVE  FALSE
        BY Zenon DEF Once
      <3>1. Len(tx[t].told) = 1
        BY <1>1
      <3> QED BY <1>3, <3>1
    <2>3. tx[t].told \notin Answered
      BY <2>2, ToldNext
    <2>4. ClientFits(t, tx[t]) /\ Typed(tx[t])
      BY <1>3, <2>1, TxAssumption DEF IInv, RecordInv, Fits, Tx, Unused, NewTx
    <2>5. tx[t].state \in {"TRYING", "CALLING", "PROCEEDING", "ACCEPTED", "COMPLETED", "TERMINATED"}
      BY <2>4 DEF ClientFits, NictFits, IctFits
    <2> QED BY <2>1, <2>2, <2>3, <2>4, <2>5 DEF ClientFits
  <1>4. IInv => OneOutcome
    BY <1>2, <1>3 DEF OneOutcome
  <1> QED BY <1>4, Invariance, PTL

(* A server transaction sends final responses of one class, repeats a
   provisional one only while it has sent no final one, and never answers a
   repeated invitation with an empty text. *)
THEOREM Answers == Spec => []AnswersAreOne
  <1>1. ASSUME IInv, NEW t \in ServerTx
        PROVE  tx[t] = Unused \/ ServerFits(tx[t])
    BY <1>1, TxAssumption DEF IInv, RecordInv, Fits, Tx
  <1>2. IInv => OneAnswer
    <2> SUFFICES ASSUME IInv, NEW t \in ServerTx
                 PROVE  Cardinality(tx[t].answers) <= 1
      BY DEF OneAnswer
    <2>1. PICK c : tx[t].answers \subseteq {c}
      BY <1>1 DEF ServerFits, Unused, NewTx
    <2>2. tx[t].answers = {} \/ tx[t].answers = {c}
      BY <2>1
    <2>3. Cardinality({}) = 0 /\ Cardinality({c}) = 1
      BY FS_EmptySet, FS_Singleton, Zenon
    <2> QED BY <2>2, <2>3
  <1>3. IInv => ResendsWhileProceeding
    BY <1>1 DEF ResendsWhileProceeding, ServerFits, NistFits, IstFits, Unused, NewTx
  <1>4. IInv => NothingEmptyResent
    <2> SUFFICES ASSUME IInv, NEW b \in Branches, "empty" \in Resent("ist", b)
                 PROVE  FALSE
      BY DEF NothingEmptyResent
    <2> DEFINE t == servers["ist"][b]
    <2>1. t # NoTx /\ tx[t].last = "empty"
      BY DEF Resent
    <2>2. t \in ServerTx /\ tx[t].kind = "ist"
      BY <2>1 DEF IInv, Entries, ServerKinds
    <2>3. ServerFits(tx[t])
      BY <1>1, <2>2 DEF Unused, NewTx
    <2> QED BY <2>1, <2>2, <2>3 DEF ServerFits, IstFits
  <1>5. IInv => AnswersAreOne
    BY <1>2, <1>3, <1>4 DEF AnswersAreOne
  <1> QED BY <1>5, Invariance, PTL

(* An ended transaction stays ended and tells its user nothing more. *)
THEOREM Finality == Spec => EndIsFinal
  <1> DEFINE Quiet == \A t \in Tx : tx[t].kind # "none" /\ tx[t].state = "TERMINATED" =>
                         tx'[t].state = "TERMINATED" /\ tx'[t].told = tx[t].told
  <1>1. IInv /\ [Next]_vars => Quiet
    <2> SUFFICES ASSUME IInv, [Next]_vars PROVE Quiet
      OBVIOUS
    <2>1. ASSUME NEW u \in Tx, Inner(u) \/ Ended(u)
          PROVE  Quiet
      <3>1. PICK y : Puts(u, y) /\ After(tx[u], y)
        BY <2>1 DEF Inner, Ended
      <3>2. tx'[u] = y /\ \A t \in Tx : t # u => tx'[t] = tx[t]
        BY <3>1, PutRecords DEF IInv
      <3> QED BY <3>1, <3>2 DEF After
    <2>2. ASSUME NEW u \in Tx, Begun(u)
          PROVE  Quiet
      <3>1. PICK y : Puts(u, y)
        BY <2>2 DEF Begun
      <3>2. tx[u].kind = "none" /\ \A t \in Tx : t # u => tx'[t] = tx[t]
        BY <2>2, <3>1, PutRecords DEF IInv, Begun, Unstarted, Unused, NewTx
      <3> QED BY <3>2
    <2>3. CASE onTransportDisconnect
      BY <2>3, DisconnectTables DEF Live
    <2>4. CASE Still
      BY <2>4 DEF Still
    <2> QED BY <2>1, <2>2, <2>3, <2>4, StepShape DEF Shape
  <1>2. Quiet => [\A t \in Tx : tx[t].kind # "none" /\ tx[t].state = "TERMINATED" =>
                    tx'[t].state = "TERMINATED" /\ tx'[t].told = tx[t].told]_vars
    OBVIOUS
  <1> QED BY <1>1, <1>2, Invariance, PTL DEF Spec, EndIsFinal

------------------------------------------------------------------------------
(* An INVITE transaction does what InviteTransaction says: what a step does to
   the state and the answers of one record.                                   *)

Invite(x) == x.kind \in {"ict", "ist"}
Same(x, y) == y.kind = x.kind /\ y.state = x.state /\ y.answers = x.answers
Stops(x, y) == y.kind = x.kind /\ y.state = "TERMINATED" /\ y.answers = x.answers

\* y comes after x, a record in use.
Advances(x, y) ==
  /\ x.kind # "none"
  /\ y.kind = x.kind
  /\ \/ ~Invite(x)
     \/ Same(x, y)
     \/ Stops(x, y)
     \/ /\ x.kind = "ict"
        /\ x.state \in {"CALLING", "PROCEEDING"}
        /\ y.state \in {"PROCEEDING", "ACCEPTED", "COMPLETED"}
     \/ /\ x.kind = "ist"
        /\ x.state = "PROCEEDING"
        /\ \/ y.state = "ACCEPTED" /\ y.answers = {"2xx"}
           \/ y.state = "COMPLETED" /\ y.answers = {"3-6xx"}
     \/ x.kind = "ist" /\ x.state = "COMPLETED" /\ y.state = "CONFIRMED" /\ y.answers = x.answers
\* y is how a transaction begins.
Starts(y) ==
  /\ Invite(y) => y.answers = {}
  /\ y.kind = "ict" => y.state \in {"CALLING", "TERMINATED"}
  /\ y.kind = "ist" => y.state \in {"PROCEEDING", "TERMINATED"}
  /\ y.kind \in {"nict", "ict", "nist", "ist"}

Moves(t) ==
  \E y : /\ tx' = [tx EXCEPT ![t] = y]
         /\ Advances(tx[t], y) \/ (Unstarted(t) /\ Starts(y))

\* A server that accepted has said so.
AcceptedSaid == \A t \in Tx : tx[t].kind = "ist" /\ tx[t].state = "ACCEPTED" => tx[t].answers = {"2xx"}

LEMMA ErrorKeeps ==
  ASSUME NEW x, Typed(x)
  PROVE  Same(x, TransportError(x)) \/ Stops(x, TransportError(x))
  BY DEF Typed, TransportError, NictTransportError, IctTransportError, NistTransportError, IstTransportError,
         Terminated, Tell, Same, Stops

LEMMA InUse ==
  ASSUME NEW t \in Tx, RecordInv
  PROVE  /\ Typed(tx[t])
         /\ tx[t].kind = "none" => tx[t].state = "TERMINATED" /\ tx[t].timers = {}
         /\ tx[t].kind = "ist" => ServerFits(tx[t])
         /\ tx[t].kind = "ict" => ClientFits(t, tx[t])
         /\ t \in ClientTx => tx[t].kind \notin ServerKinds
  BY TxAssumption DEF RecordInv, Fits, Unused, NewTx, ClientFits, ServerFits, ServerKinds

LEMMA BeginMoves ==
  ASSUME NEW t \in Tx,
         \/ NictSend(t) \/ IctSend(t)
         \/ \E b \in Branches : NistNew(t, b) \/ IstNew(t, b)
  PROVE  Moves(t)
  <1>1. ASSUME NEW kind \in {"nict", "ict"}, NEW state, NEW timer, Start(t, kind, state, timer),
               kind = "ict" => state = "CALLING"
        PROVE  Moves(t)
    <2> DEFINE x == [NewTx(kind, t, state) EXCEPT !.timers = {timer}]
               y == IF Sends THEN x ELSE TransportError(x)
    <2>1. Unstarted(t) /\ tx' = [tx EXCEPT ![t] = y]
      BY <1>1 DEF Start
    <2>2. x.kind = kind /\ x.state = state /\ x.answers = {}
      BY DEF NewTx
    <2>3. y.kind = kind /\ y.state \in {state, "TERMINATED"} /\ y.answers = {}
      BY <2>2 DEF NewTx, TransportError, NictTransportError, IctTransportError, Terminated, Tell
    <2> HIDE DEF y
    <2> QED BY <1>1, <2>1, <2>3 DEF Moves, Starts, Invite
  <1>2. ASSUME NEW b \in Branches, NistNew(t, b)
        PROVE  Moves(t)
    <2> DEFINE y == NewTx("nist", b, "TRYING")
    <2>1. Unstarted(t) /\ tx' = [tx EXCEPT ![t] = y]
      BY <1>2 DEF NistNew, NewServer
    <2>2. y.kind = "nist"
      BY DEF NewTx
    <2> HIDE DEF y
    <2> QED BY <2>1, <2>2 DEF Moves, Starts, Invite
  <1>3. ASSUME NEW b \in Branches, IstNew(t, b)
        PROVE  Moves(t)
    <2> DEFINE x == NewTx("ist", b, "PROCEEDING")
               y == Trying(IF Sends THEN x ELSE TransportError(x))
    <2>1. Unstarted(t) /\ tx' = [tx EXCEPT ![t] = y]
      BY <1>3 DEF IstNew, NewServer
    <2>2. y.kind = "ist" /\ y.state \in {"PROCEEDING", "TERMINATED"} /\ y.answers = {}
      BY DEF NewTx, Trying, TransportError, IstTransportError, Terminated
    <2> HIDE DEF y
    <2> QED BY <2>1, <2>2 DEF Moves, Starts, Invite
  <1> QED BY <1>1, <1>2, <1>3 DEF NictSend, IctSend

LEMMA ResponseMoves ==
  ASSUME NEW t \in ClientTx, RecordInv,
         \/ NictProvisional(t) \/ NictFinal(t, "answer") \/ NictFinal(t, "timeout")
         \/ IctProvisional(t) \/ IctSuccess(t) \/ IctFailure(t)
  PROVE  Moves(t)
  <1>1. Typed(tx[t])
    BY InUse DEF Tx
  <1>2. CASE NictProvisional(t)
    <2> DEFINE y == [tx[t] EXCEPT !.state = "PROCEEDING"]
    <2>1. tx' = [tx EXCEPT ![t] = y] /\ tx[t].kind = "nict"
      BY <1>2 DEF NictProvisional, Receives
    <2>2. y.kind = "nict"
      BY <1>1, <2>1 DEF Typed
    <2> HIDE DEF y
    <2> QED BY <2>1, <2>2 DEF Moves, Advances, Invite
  <1>3. ASSUME NEW o, NictFinal(t, o)
        PROVE  Moves(t)
    <2>1. tx' = [tx EXCEPT ![t] = NictCompleted(tx[t], o)] /\ tx[t].kind = "nict"
      BY <1>3 DEF NictFinal, Receives
    <2>2. NictCompleted(tx[t], o).kind = "nict"
      BY <1>1, <2>1 DEF NictCompleted, Tell, Typed
    <2> QED BY <2>1, <2>2 DEF Moves, Advances, Invite
  <1>4. CASE IctProvisional(t)
    <2> DEFINE y == [tx[t] EXCEPT !.state = "PROCEEDING"]
    <2>1. tx' = [tx EXCEPT ![t] = y] /\ tx[t].kind = "ict" /\ tx[t].state \in {"CALLING", "PROCEEDING"}
      BY <1>4 DEF IctProvisional, Receives
    <2>2. y.kind = "ict" /\ y.state = "PROCEEDING"
      BY <1>1, <2>1 DEF Typed
    <2> QED BY <2>1, <2>2 DEF Moves, Advances
  <1>5. CASE IctSuccess(t)
    <2>1. /\ tx' = [tx EXCEPT ![t] = IctAccepted(tx[t])]
          /\ tx[t].kind = "ict" /\ tx[t].state \in {"CALLING", "PROCEEDING"}
      BY <1>5 DEF IctSuccess, Receives
    <2>2. IctAccepted(tx[t]).kind = "ict" /\ IctAccepted(tx[t]).state = "ACCEPTED"
      BY <1>1, <2>1 DEF IctAccepted, Tell, Typed
    <2> QED BY <2>1, <2>2 DEF Moves, Advances
  <1>6. CASE IctFailure(t)
    <2> DEFINE y == IctCompleted(tx[t])
    <2>1. /\ tx' = [tx EXCEPT ![t] = y]
          /\ tx[t].kind = "ict" /\ tx[t].state \in {"CALLING", "PROCEEDING", "COMPLETED"}
      BY <1>6 DEF IctFailure, Receives
    <2>2. y.kind = "ict" /\ y.state = "COMPLETED" /\ y.answers = tx[t].answers
      BY <1>1, <2>1 DEF IctCompleted, sendACK, Tell, Typed
    <2> HIDE DEF y
    <2> QED BY <2>1, <2>2 DEF Moves, Advances, Same
  <1> QED BY <1>2, <1>3, <1>4, <1>5, <1>6

LEMMA ReplyMoves ==
  ASSUME NEW t \in ServerTx, RecordInv, AcceptedSaid,
         \/ \E code \in {"2xx", "3-6xx"} : NistReply(t, code)
         \/ NistReply100(t) \/ IstProvisional(t) \/ IstSuccess(t) \/ IstFailure(t)
  PROVE  Moves(t)
  <1>1. t \in Tx /\ Typed(tx[t])
    BY InUse DEF Tx
  <1>2. ASSUME NEW code \in {"2xx", "3-6xx"}, NistReply(t, code)
        PROVE  Moves(t)
    <2> DEFINE x == [tx[t] EXCEPT !.state = "COMPLETED", !.last = code, !.timers = @ \cup {"J"}]
               y == IF Sends THEN [x EXCEPT !.answers = @ \cup {code}] ELSE TransportError(x)
    <2>1. tx' = [tx EXCEPT ![t] = y] /\ tx[t].kind = "nist"
      BY <1>2 DEF NistReply
    <2>2. y.kind = "nist"
      BY <1>1, <2>1 DEF Typed, TransportError, NistTransportError, Terminated
    <2> HIDE DEF y
    <2> QED BY <2>1, <2>2 DEF Moves, Advances, Invite
  <1>3. CASE NistReply100(t)
    <2> DEFINE x == IF tx[t].state = "TRYING" THEN [tx[t] EXCEPT !.state = "PROCEEDING"] ELSE [tx[t] EXCEPT !.last = "100"]
               y == IF Sends THEN x ELSE TransportError(x)
    <2>1. tx' = [tx EXCEPT ![t] = y] /\ tx[t].kind = "nist"
      BY <1>3 DEF NistReply100
    <2>2. y.kind = "nist"
      BY <1>1, <2>1 DEF Typed, TransportError, NistTransportError, Terminated
    <2> HIDE DEF y
    <2> QED BY <2>1, <2>2 DEF Moves, Advances, Invite
  <1>4. CASE IstProvisional(t)
    <2> DEFINE y == IF Sends THEN [tx[t] EXCEPT !.last = "1xx", !.timers = @ \cup {"resend"}]
                    ELSE [TransportError(tx[t]) EXCEPT !.last = "1xx"]
    <2>1. tx' = [tx EXCEPT ![t] = y] /\ tx[t].kind = "ist"
      BY <1>4 DEF IstProvisional
    <2>2. Same(tx[t], y) \/ Stops(tx[t], y)
      BY <1>1, <2>1 DEF Typed, TransportError, IstTransportError, Terminated, Same, Stops
    <2> HIDE DEF y
    <2> QED BY <2>1, <2>2 DEF Moves, Advances, Same, Stops
  <1>5. CASE IstSuccess(t)
    <2> DEFINE x == IstAccepted(tx[t])
               y == IF Sends THEN [x EXCEPT !.answers = @ \cup {"2xx"}] ELSE TransportError(x)
    <2>1. tx' = [tx EXCEPT ![t] = y] /\ tx[t].kind = "ist" /\ tx[t].state \in {"PROCEEDING", "ACCEPTED"}
      BY <1>5 DEF IstSuccess
    <2>2. tx[t].answers = (IF tx[t].state = "ACCEPTED" THEN {"2xx"} ELSE {}) /\ ~tx[t].failed
      BY <1>1, <2>1, InUse DEF AcceptedSaid, ServerFits
    <2>3. x \in [kind : {"ist"}, branch : ClientTx \cup Branches \cup {NoTx},
                 state : {"ACCEPTED"}, timers : SUBSET (Timers \cup {"L"}), last : Texts, failed : {FALSE},
                 told : Tellings, answers : {tx[t].answers}]
      BY <1>1, <2>1, <2>2 DEF IstAccepted, Typed, Texts
    <2> HIDE DEF x
    <2>4. y.kind = "ist" /\ ((y.state = "ACCEPTED" /\ y.answers = {"2xx"}) \/ Stops(tx[t], y))
      <3>1. CASE Sends
        BY <2>2, <2>3, <3>1
      <3>2. CASE ~Sends
        <4>1. y = IstTransportError(x)
          BY <2>3, <3>2 DEF TransportError
        <4>2. y.kind = "ist" /\ y.state = "TERMINATED" /\ y.answers = tx[t].answers
          BY <2>3, <4>1 DEF IstTransportError, Terminated
        <4> QED BY <2>1, <4>2 DEF Stops
      <3> QED BY <3>1, <3>2
    <2> HIDE DEF y
    <2>5. tx[t].state = "ACCEPTED" => Same(tx[t], y) \/ Stops(tx[t], y)
      BY <2>1, <2>2, <2>4 DEF Same
    <2> QED BY <2>1, <2>4, <2>5 DEF Moves, Advances, Stops
  <1>6. CASE IstFailure(t)
    <2> DEFINE x == [tx[t] EXCEPT !.timers = @ \ {"resend"}]
               y == IF Sends THEN [x EXCEPT !.state = "COMPLETED", !.timers = @ \cup {"H"}, !.answers = @ \cup {"3-6xx"}]
                    ELSE TransportError(x)
    <2>1. tx' = [tx EXCEPT ![t] = y] /\ tx[t].kind = "ist" /\ tx[t].state = "PROCEEDING"
      BY <1>6 DEF IstFailure, RejectStates
    <2>2. tx[t].answers = {}
      BY <1>1, <2>1, InUse DEF ServerFits
    <2>3. \/ y.kind = "ist" /\ y.state = "COMPLETED" /\ y.answers = {"3-6xx"}
          \/ Same(tx[t], y) \/ Stops(tx[t], y)
      BY <1>1, <2>1, <2>2 DEF Typed, TransportError, IstTransportError, Terminated, Same, Stops
    <2> HIDE DEF y
    <2> QED BY <2>1, <2>3 DEF Moves, Advances, Same, Stops
  <1> QED BY <1>2, <1>3, <1>4, <1>5, <1>6

LEMMA TimerMoves ==
  ASSUME NEW t \in Tx, NEW timer \in Timers, RecordInv, Timer(t, timer)
  PROVE  Moves(t)
  <1>1. Typed(tx[t]) /\ timer \in tx[t].timers /\ tx[t].kind # "none"
    BY InUse DEF Timer
  <1>2. ASSUME NEW z, tx' = [tx EXCEPT ![t] = z], Same(tx[t], z) \/ Stops(tx[t], z)
        PROVE  Moves(t)
    BY <1>1, <1>2 DEF Moves, Advances, Same, Stops
  <1>3. CASE timer = "resend"
    <2>1. tx' = [tx EXCEPT ![t] = TransportError(tx[t])]
      BY <1>3 DEF Timer, resend_provisional
    <2> QED BY <1>1, <1>2, <2>1, ErrorKeeps
  <1>4. CASE timer # "resend"
    <2>1. /\ Same(tx[t], Fired(t, timer))
          /\ \A S : Stops(tx[t], Terminated([Fired(t, timer) EXCEPT !.timers = S]))
          /\ Stops(tx[t], Terminated(Fired(t, timer)))
          /\ Stops(tx[t], Terminated(Tell(Fired(t, timer), "timeout")))
      BY <1>1 DEF Typed, Fired, Terminated, Tell, Same, Stops
    <2>2. \/ tx' = [tx EXCEPT ![t] = Fired(t, timer)]
          \/ tx' = [tx EXCEPT ![t] = Terminated([Fired(t, timer) EXCEPT !.timers = @ \ {"B"}])]
          \/ tx' = [tx EXCEPT ![t] = Terminated(Fired(t, timer))]
          \/ tx' = [tx EXCEPT ![t] = Terminated(Tell(Fired(t, timer), "timeout"))]
      BY <1>4 DEF Timer, timer_F, timer_B, timer_M, timer_D, timer_H, timer_I, timer_J, timer_K, timer_L, End
    <2> QED BY <1>2, <2>1, <2>2
  <1> QED BY <1>3, <1>4

LEMMA AckMoves ==
  ASSUME NEW b \in Branches, IInv, IstAck(b)
  PROVE  \E t \in Tx : Moves(t)
  <1> DEFINE t == servers["ist"][b]
             y == [tx[t] EXCEPT !.state = "CONFIRMED", !.timers = @ \cup {"I"}]
  <1>1. t # NoTx /\ tx[t].state = "COMPLETED" /\ tx' = [tx EXCEPT ![t] = y]
    BY DEF IstAck, AckTaken
  <1>2. t \in ServerTx /\ t \in Tx /\ tx[t].kind = "ist"
    BY <1>1 DEF IInv, Entries, ServerKinds, Tx
  <1>3. Typed(tx[t])
    BY <1>2, InUse DEF IInv
  <1>4. y.kind = "ist" /\ y.state = "CONFIRMED" /\ y.answers = tx[t].answers
    BY <1>2, <1>3 DEF Typed
  <1> HIDE DEF t, y
  <1> QED BY <1>1, <1>2, <1>4 DEF Moves, Advances

LEMMA StepMoves ==
  ASSUME IInv, AcceptedSaid, [Next]_vars
  PROVE  (\E t \in Tx : Moves(t)) \/ onTransportDisconnect \/ UNCHANGED tx
  <1>0. RecordInv
    BY DEF IInv
  <1>1. ASSUME NEW t \in ClientTx, ClientStep(t)
        PROVE  \E u \in Tx : Moves(u)
    BY <1>0, <1>1, BeginMoves, ResponseMoves DEF ClientStep, Tx
  <1>2. ASSUME NEW t \in ServerTx, ServerStep(t)
        PROVE  \E u \in Tx : Moves(u)
    BY <1>0, <1>2, BeginMoves, ReplyMoves DEF ServerStep, Tx
  <1>3. ASSUME NEW b \in Branches, IstAck(b)
        PROVE  \E u \in Tx : Moves(u)
    BY <1>3, AckMoves
  <1>4. ASSUME NEW t \in Tx, NEW timer \in Timers, Timer(t, timer)
        PROVE  \E u \in Tx : Moves(u)
    BY <1>0, <1>4, TimerMoves
  <1>5. CASE Lost \/ onTransportConnect \/ UNCHANGED vars
    BY <1>5 DEF Lost, onTransportConnect, vars
  <1> QED BY <1>1, <1>2, <1>3, <1>4, <1>5 DEF Next

\* The event of the transport ends records, and changes no answer.
LEMMA DisconnectMoves ==
  ASSUME IInv, onTransportDisconnect, NEW t \in Tx
  PROVE  tx'[t] = tx[t] \/ (Stops(tx[t], tx'[t]) /\ tx[t].kind # "none")
  <1>1. tx'[t] = IF t \in Listed THEN TransportError(tx[t]) ELSE tx[t]
    BY DEF onTransportDisconnect
  <1>2. CASE t \in Listed
    <2>1. Live(t) /\ Fits(t, tx[t]) /\ Typed(tx[t])
      BY <1>2, InUse DEF IInv, EndedAreGone, RecordInv
    <2>2. tx'[t].state = "TERMINATED"
      BY <1>1, <1>2, <2>1, ErrorEnds DEF Live
    <2>3. tx[t].kind # "none"
      BY <2>1, InUse DEF IInv, Live
    <2>4. Same(tx[t], tx'[t]) \/ Stops(tx[t], tx'[t])
      BY <1>1, <1>2, <2>1, ErrorKeeps
    <2> QED BY <2>1, <2>2, <2>3, <2>4 DEF Same, Stops, Live
  <1> QED BY <1>1, <1>2

LEMMA MovesOne ==
  ASSUME RecordInv, NEW t \in Tx, Moves(t)
  PROVE  /\ \A u \in Tx : u # t => tx'[u] = tx[u]
         /\ Advances(tx[t], tx'[t]) \/ (Unstarted(t) /\ Starts(tx'[t]))
  BY DEF Moves, RecordInv

LEMMA AcceptedStep ==
  ASSUME IInv, AcceptedSaid, [Next]_vars
  PROVE  AcceptedSaid'
  <1>1. CASE UNCHANGED tx
    BY <1>1 DEF AcceptedSaid
  <1>2. CASE onTransportDisconnect
    BY <1>2, DisconnectMoves DEF AcceptedSaid, Stops
  <1>3. ASSUME NEW t \in Tx, Moves(t)
        PROVE  AcceptedSaid'
    <2>1. /\ \A u \in Tx : u # t => tx'[u] = tx[u]
          /\ Advances(tx[t], tx'[t]) \/ (Unstarted(t) /\ Starts(tx'[t]))
      BY <1>3, MovesOne DEF IInv
    <2>2. tx'[t].kind = "ist" /\ tx'[t].state = "ACCEPTED" => tx'[t].answers = {"2xx"}
      BY <2>1 DEF AcceptedSaid, Advances, Starts, Same, Stops, Invite
    <2> QED BY <2>1, <2>2 DEF AcceptedSaid
  <1> QED BY <1>1, <1>2, <1>3, StepMoves

\* What a record shows of its transaction.
LEMMA Shown ==
  ASSUME NEW x, x.kind \in {"none", "nict", "ict", "nist", "ist"}
  PROVE  /\ ~Invite(x) => Side(x) = "none" /\ Phase(x) = "none"
         /\ x.kind # "ist" => FinalSent(x) = "none"
         /\ x.answers = {} => FinalSent(x) = "none"
         /\ x.kind = "ict" => Side(x) = "client" /\ Phase(x) # "none"
         /\ x.kind = "ist" => Side(x) = "server" /\ Phase(x) # "none"
         /\ x.kind = "ist" /\ x.answers = {"2xx"} => FinalSent(x) = "2xx"
         /\ x.kind = "ist" /\ x.answers = {"3-6xx"} => FinalSent(x) = "reject"
         /\ Invite(x) /\ x.state = "TERMINATED" => Phase(x) = "over"
         /\ Invite(x) /\ x.state = "CALLING" => Phase(x) = "calling"
         /\ Invite(x) /\ x.state = "PROCEEDING" => Phase(x) = "proceeding"
         /\ Invite(x) /\ x.state = "ACCEPTED" => Phase(x) = "accepted"
         /\ Invite(x) /\ x.state \in {"COMPLETED", "CONFIRMED"} => Phase(x) = "completed"
  <1>1. {"2xx"} # {} /\ {"3-6xx"} # {} /\ {"3-6xx"} # {"2xx"}
    OBVIOUS
  <1>2. /\ x.kind # "ist" => FinalSent(x) = "none"
        /\ x.answers = {} => FinalSent(x) = "none"
    BY <1>1 DEF FinalSent
  <1>3. x.kind = "ist" /\ x.answers = {"2xx"} => FinalSent(x) = "2xx"
    BY <1>1 DEF FinalSent
  <1>4. x.kind = "ist" /\ x.answers = {"3-6xx"} => FinalSent(x) = "reject"
    BY <1>1 DEF FinalSent
  <1>5. /\ ~Invite(x) => Side(x) = "none"
        /\ x.kind = "ict" => Side(x) = "client"
        /\ x.kind = "ist" => Side(x) = "server"
    BY DEF Side, Invite
  <1>6. ~Invite(x) => Phase(x) = "none"
    BY DEF Phase, Invite
  <1>7. /\ Invite(x) /\ x.state = "TERMINATED" => Phase(x) = "over"
        /\ Invite(x) /\ x.state = "CALLING" => Phase(x) = "calling"
        /\ Invite(x) /\ x.state = "PROCEEDING" => Phase(x) = "proceeding"
    BY DEF Phase, Invite
  <1>8. /\ Invite(x) /\ x.state = "ACCEPTED" => Phase(x) = "accepted"
        /\ Invite(x) /\ x.state \in {"COMPLETED", "CONFIRMED"} => Phase(x) = "completed"
    BY DEF Phase, Invite
  <1>9. Invite(x) => Phase(x) # "none"
    BY DEF Phase, Invite
  <1> QED BY <1>2, <1>3, <1>4, <1>5, <1>6, <1>7, <1>8, <1>9 DEF Invite

LEMMA ShownSame ==
  ASSUME NEW x, NEW y, Same(x, y)
  PROVE  Side(y) = Side(x) /\ Phase(y) = Phase(x) /\ FinalSent(y) = FinalSent(x)
  BY DEF Same, Side, Phase, FinalSent

Sides == [t \in Tx |-> Side(tx[t])]
Phases == [t \in Tx |-> Phase(tx[t])]
Sent == [t \in Tx |-> FinalSent(tx[t])]

\* A step of one transaction is a step of its abstract one, or none.
LEMMA MovesKeep ==
  ASSUME IInv, NEW t \in Tx, Moves(t)
  PROVE  [Invitation!Next]_(Invitation!vars)
  <1>1. /\ \A u \in Tx : u # t => tx'[u] = tx[u]
        /\ Advances(tx[t], tx'[t]) \/ (Unstarted(t) /\ Starts(tx'[t]))
    BY MovesOne DEF IInv
  <1> DEFINE x == tx[t]
             y == tx'[t]
  <1>2. Typed(x) /\ x.kind \in {"none", "nict", "ict", "nist", "ist"}
    BY InUse DEF IInv, Typed
  <1>3. /\ Sides' = [Sides EXCEPT ![t] = Side(y)]
        /\ Phases' = [Phases EXCEPT ![t] = Phase(y)]
        /\ Sent' = [Sent EXCEPT ![t] = FinalSent(y)]
    BY <1>1 DEF Sides, Phases, Sent
  <1>4. Sides[t] = Side(x) /\ Phases[t] = Phase(x) /\ Sent[t] = FinalSent(x)
    BY DEF Sides, Phases, Sent
  <1>a. Side(y) = Side(x) => Sides' = Sides
    BY <1>3, <1>4 DEF Sides
  <1>b. Phase(y) = Phase(x) => Phases' = Phases
    BY <1>3, <1>4 DEF Phases
  <1>c. FinalSent(y) = FinalSent(x) => Sent' = Sent
    BY <1>3, <1>4 DEF Sent
  <1>5. ASSUME Side(y) = Side(x), Phase(y) = Phase(x), FinalSent(y) = FinalSent(x)
        PROVE  UNCHANGED Invitation!vars
    BY <1>5, <1>a, <1>b, <1>c DEF Invitation!vars, Sides, Phases, Sent
  <1>6. Invite(x) => x.kind \in {"ict", "ist"} /\ (x.kind = "ist" => ServerFits(x)) /\ (x.kind = "ict" => ClientFits(t, x))
    BY InUse DEF IInv, Invite
  <1> HIDE DEF x, y
  <1>7. ASSUME x.kind = "none", Starts(y), y.kind \in {"none", "nict", "ict", "nist", "ist"}
        PROVE  [Invitation!Next]_(Invitation!vars)
    <2>1. Side(x) = "none" /\ Phase(x) = "none" /\ FinalSent(x) = "none"
      BY <1>2, <1>7, Shown DEF Invite
    <2>2. CASE ~Invite(y)
      <3>1. Side(y) = "none" /\ Phase(y) = "none" /\ FinalSent(y) = "none"
        BY <1>7, <2>2, Shown DEF Invite
      <3> QED BY <1>5, <2>1, <3>1
    <2>3. CASE y.kind = "ict"
      <3>1. Side(y) = "client" /\ Phase(y) \in {"calling", "over"} /\ FinalSent(y) = "none"
        BY <1>7, <2>3, Shown DEF Starts, Invite
      <3>2. Invitation!Call(t)
        <4>1. Sent' = Sent
          BY <1>c, <2>1, <3>1
        <4> QED BY <1>3, <1>4, <2>1, <3>1, <4>1 DEF Invitation!Call, Sides, Phases, Sent
      <3> QED BY <3>2 DEF Invitation!Next
    <2>4. CASE y.kind = "ist"
      <3>1. Side(y) = "server" /\ Phase(y) \in {"proceeding", "over"} /\ FinalSent(y) = "none"
        BY <1>7, <2>4, Shown DEF Starts, Invite
      <3>2. Invitation!Serve(t)
        <4>1. Sent' = Sent
          BY <1>c, <2>1, <3>1
        <4> QED BY <1>3, <1>4, <2>1, <3>1, <4>1 DEF Invitation!Serve, Sides, Phases, Sent
      <3> QED BY <3>2 DEF Invitation!Next
    <2> QED BY <1>7, <2>2, <2>3, <2>4 DEF Invite
  <1>8. ASSUME Advances(x, y)
        PROVE  [Invitation!Next]_(Invitation!vars)
    <2>1. x.kind # "none" /\ y.kind = x.kind
      BY <1>8 DEF Advances
    <2>2. CASE ~Invite(x)
      <3>1. ~Invite(y)
        BY <2>1, <2>2 DEF Invite
      <3>2. /\ Side(y) = "none" /\ Phase(y) = "none" /\ FinalSent(y) = "none"
            /\ Side(x) = "none" /\ Phase(x) = "none" /\ FinalSent(x) = "none"
        BY <1>2, <2>1, <2>2, <3>1, Shown DEF Invite
      <3> QED BY <1>5, <3>2
    <2>3. CASE Same(x, y)
      BY <1>5, <2>3, ShownSame
    <2>4. CASE Invite(x) /\ Stops(x, y)
      <3>1. Side(y) = Side(x) /\ Phase(x) # "none" /\ Phase(y) = "over" /\ FinalSent(y) = FinalSent(x)
        <4>1. FinalSent(y) = FinalSent(x) /\ Side(y) = Side(x)
          BY <2>4 DEF Stops, FinalSent, Side
        <4> QED BY <1>2, <2>1, <2>4, <4>1, Shown DEF Stops, Invite
      <3>2. Invitation!End({t})
        <4>1. Sides' = Sides /\ Sent' = Sent
          BY <1>a, <1>c, <3>1
        <4>2. Phases' = [i \in Tx |-> IF i \in {t} THEN "over" ELSE Phases[i]]
          BY <1>3, <3>1 DEF Phases
        <4> QED BY <1>4, <3>1, <4>1, <4>2 DEF Invitation!End, Sides, Phases, Sent
      <3>3. {t} \in SUBSET Tx
        OBVIOUS
      <3> QED BY <3>2, <3>3 DEF Invitation!Next
    <2>5. CASE /\ x.kind = "ict"
               /\ x.state \in {"CALLING", "PROCEEDING"}
               /\ y.state \in {"PROCEEDING", "ACCEPTED", "COMPLETED"}
      <3>1. /\ Side(y) = "client" /\ Side(x) = "client"
            /\ FinalSent(y) = "none" /\ FinalSent(x) = "none"
            /\ Phase(x) = IF x.state = "CALLING" THEN "calling" ELSE "proceeding"
        BY <1>2, <2>1, <2>5, Shown DEF Invite
      <3>2. Sides' = Sides /\ Sent' = Sent
        BY <1>a, <1>c, <3>1
      <3>3. CASE y.state = "PROCEEDING"
        <4>1. Phase(y) = "proceeding"
          BY <1>2, <2>1, <2>5, <3>3, Shown DEF Invite
        <4>2. CASE x.state = "PROCEEDING"
          BY <1>5, <3>1, <4>1, <4>2
        <4>3. CASE x.state = "CALLING"
          <5>1. Invitation!Provisional(t)
            BY <1>3, <1>4, <3>1, <3>2, <4>1, <4>3 DEF Invitation!Provisional, Sides, Phases, Sent
          <5> QED BY <5>1 DEF Invitation!Next
        <4> QED BY <2>5, <4>2, <4>3
      <3>4. CASE y.state = "ACCEPTED"
        <4>1. Phase(y) = "accepted"
          BY <1>2, <2>1, <2>5, <3>4, Shown DEF Invite
        <4>2. Invitation!Answer(t, "2xx")
          BY <1>3, <1>4, <3>1, <3>2, <4>1 DEF Invitation!Answer, Sides, Phases, Sent
        <4> QED BY <4>2 DEF Invitation!Next
      <3>5. CASE y.state = "COMPLETED"
        <4>1. Phase(y) = "completed"
          BY <1>2, <2>1, <2>5, <3>5, Shown DEF Invite
        <4>2. Invitation!Answer(t, "reject")
          BY <1>3, <1>4, <3>1, <3>2, <4>1 DEF Invitation!Answer, Sides, Phases, Sent
        <4> QED BY <4>2 DEF Invitation!Next
      <3> QED BY <2>5, <3>3, <3>4, <3>5
    <2>6. ASSUME NEW code \in {"2xx", "reject"}, x.kind = "ist", x.state = "PROCEEDING",
                 Phase(y) = (IF code = "2xx" THEN "accepted" ELSE "completed"), FinalSent(y) = code
          PROVE  [Invitation!Next]_(Invitation!vars)
      <3>1. Side(y) = "server" /\ Side(x) = "server" /\ Phase(x) = "proceeding"
        BY <1>2, <2>1, <2>6, Shown DEF Invite
      <3>2. Sides' = Sides
        BY <1>a, <3>1
      <3>3. Invitation!Answer(t, code)
        BY <1>3, <1>4, <2>6, <3>1, <3>2 DEF Invitation!Answer, Sides, Phases, Sent
      <3> QED BY <3>3 DEF Invitation!Next
    <2>7. CASE x.kind = "ist" /\ x.state = "PROCEEDING" /\ y.state = "ACCEPTED" /\ y.answers = {"2xx"}
      <3>1. Phase(y) = "accepted" /\ FinalSent(y) = "2xx"
        BY <1>2, <2>1, <2>7, Shown DEF Invite
      <3> QED BY <2>6, <2>7, <3>1
    <2>8. CASE x.kind = "ist" /\ x.state = "PROCEEDING" /\ y.state = "COMPLETED" /\ y.answers = {"3-6xx"}
      <3>1. Phase(y) = "completed" /\ FinalSent(y) = "reject"
        BY <1>2, <2>1, <2>8, Shown DEF Invite
      <3> QED BY <2>6, <2>8, <3>1
    <2>9. CASE x.kind = "ist" /\ x.state = "COMPLETED" /\ y.state = "CONFIRMED" /\ y.answers = x.answers
      <3>1. Phase(y) = "completed" /\ Phase(x) = "completed" /\ Side(y) = "server" /\ Side(x) = "server"
        BY <1>2, <2>1, <2>9, Shown DEF Invite
      <3>2. FinalSent(y) = FinalSent(x)
        BY <2>1, <2>9 DEF FinalSent
      <3> QED BY <1>5, <3>1, <3>2
    <2> QED BY <1>8, <2>2, <2>3, <2>4, <2>5, <2>7, <2>8, <2>9 DEF Advances
  <1>9. Unstarted(t) => x.kind = "none"
    BY DEF x, Unstarted, Unused, NewTx
  <1>10. Starts(y) => y.kind \in {"none", "nict", "ict", "nist", "ist"}
    BY DEF Starts
  <1> QED BY <1>1, <1>7, <1>8, <1>9, <1>10 DEF x, y

\* Those the loss of the transport ends, end together.
LEMMA DisconnectKeeps ==
  ASSUME IInv, onTransportDisconnect
  PROVE  Invitation!Next
  <1> DEFINE I == {t \in Tx : Invite(tx[t]) /\ Stops(tx[t], tx'[t])}
  <1>1. ASSUME NEW t \in Tx
        PROVE  /\ tx'[t] = tx[t] \/ (Stops(tx[t], tx'[t]) /\ tx[t].kind # "none")
               /\ tx[t].kind \in {"none", "nict", "ict", "nist", "ist"}
    BY DisconnectMoves, InUse DEF IInv, Typed
  <1>2. ASSUME NEW t \in Tx
        PROVE  Side(tx'[t]) = Side(tx[t]) /\ FinalSent(tx'[t]) = FinalSent(tx[t])
    BY <1>1 DEF Stops, Side, FinalSent
  <1>3. ASSUME NEW t \in Tx
        PROVE  Phase(tx'[t]) = IF t \in I THEN "over" ELSE Phase(tx[t])
    <2>1. CASE t \in I
      BY <1>1, <2>1, Shown DEF Stops, Invite
    <2>2. CASE t \notin I /\ tx'[t] = tx[t]
      BY <2>2
    <2>3. CASE t \notin I /\ tx'[t] # tx[t]
      <3>1. Stops(tx[t], tx'[t]) /\ ~Invite(tx[t])
        BY <1>1, <2>3
      <3>2. Phase(tx'[t]) = "none" /\ Phase(tx[t]) = "none"
        BY <1>1, <3>1, Shown DEF Stops, Invite
      <3> QED BY <2>3, <3>2
    <2> QED BY <2>1, <2>2, <2>3
  <1>4. \A t \in I : Phase(tx[t]) # "none"
    BY <1>1, Shown DEF Invite
  <1> HIDE DEF I
  <1>5. Invitation!End(I)
    <2>1. Sides' = Sides /\ Sent' = Sent
      BY <1>2 DEF Sides, Sent
    <2>2. Phases' = [t \in Tx |-> IF t \in I THEN "over" ELSE Phases[t]]
      BY <1>3 DEF Phases
    <2>3. \A t \in I : Phases[t] # "none"
      BY <1>4 DEF Phases, I
    <2> QED BY <2>1, <2>2, <2>3 DEF Invitation!End, Sides, Phases, Sent
  <1>6. I \in SUBSET Tx
    BY DEF I
  <1> QED BY <1>5, <1>6 DEF Invitation!Next

(* Each INVITE transaction, of either end, is what its user counts on: it begins
   once, provisional responses stop with the final one, one final answer is sent
   and a transaction that accepted never rejects, and what ended is as it was,
   with any number of transactions and branches, over a connection that may be
   lost and come back at any time. *)
THEOREM InvitesKept == Spec => InvitesKeepTheirWord
  <1>1. Init => Invitation!Init
    <2> SUFFICES ASSUME Init PROVE Invitation!Init
      OBVIOUS
    <2>1. Side(Unused) = "none" /\ Phase(Unused) = "none" /\ FinalSent(Unused) = "none"
      BY Shown DEF Unused, NewTx, Invite
    <2> QED BY <2>1 DEF Init, Invitation!Init, Invitation!All
  <1>2. Init => AcceptedSaid
    BY DEF Init, AcceptedSaid, Unused, NewTx
  <1>3. IInv /\ AcceptedSaid /\ [Next]_vars => [Invitation!Next]_(Invitation!vars)
    <2> SUFFICES ASSUME IInv, AcceptedSaid, [Next]_vars
                 PROVE  [Invitation!Next]_(Invitation!vars)
      OBVIOUS
    <2>1. CASE UNCHANGED tx
      <3>1. Sides' = Sides /\ Phases' = Phases /\ Sent' = Sent
        BY <2>1 DEF Sides, Phases, Sent
      <3> QED BY <3>1 DEF Invitation!vars, Sides, Phases, Sent
    <2> QED BY <2>1, StepMoves, MovesKeep, DisconnectKeeps
  <1> QED BY <1>1, <1>2, <1>3, AcceptedStep, Invariance, PTL
        DEF Spec, InvitesKeepTheirWord, Invitation!Spec
=============================================================================
