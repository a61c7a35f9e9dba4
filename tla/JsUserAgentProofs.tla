------------------------- MODULE JsUserAgentProofs -------------------------
(* Proofs about the user agent: its one WebSocket, the agreement of its status
   with its transport, and the truth of its registration. *)
EXTENDS JsUserAgent, SequenceTheorems, TLAPS
LOCAL INSTANCE SequencesExt

(***************************************************************************)
(* The transport.                                                           *)
(***************************************************************************)
\* OneWebSocket, of any transport.
OneWs(t) ==
  /\ t.recovery_timer => t.status = "disconnected" /\ ~t.close_requested
  /\ Under(t) \subseteq {t.socket}
  /\ t.status = "disconnected" => Under(t) = {}
  /\ t.status = "connecting" => t.ws[t.socket] = "connecting" \/ t.socket \in t.refused
  /\ t.status = "connected" => t.ws[t.socket] \in {"open", "closing"}
Sound(t) == t \in TransportType /\ OneWs(t)

LEMMA InitSound == TransportInit => Sound(transport) /\ transport.status = "disconnected" /\ ~transport.recovery_timer
  <1> SUFFICES ASSUME NEW s \in Heaviest({}), NEW refused \in Refusals,
                      transport = [status |-> "disconnected", socket |-> s, failed |-> {},
                                   ws |-> [r \in Sockets |-> "none"], close_requested |-> FALSE,
                                   recovery_timer |-> FALSE, refused |-> refused]
               PROVE  Sound(transport) /\ transport.status = "disconnected" /\ ~transport.recovery_timer
    BY DEF TransportInit
  <1>1. s \in Sockets
    BY SocketsAssumption DEF Heaviest, Usable
  <1> QED BY <1>1, SocketsAssumption DEF Sound, OneWs, TransportType, Readiness, Under

\* A transport that is disconnected and waits for no timer has no WebSocket when it connects.
LEMMA Connects ==
  ASSUME NEW t, Sound(t), ~t.recovery_timer
  PROVE  /\ Sound(connect(t)) /\ ~connect(t).recovery_timer
         /\ connect(t).status = IF t.status = "disconnected" THEN "connecting" ELSE t.status
  <1>1. CASE t.status # "disconnected"
    BY <1>1 DEF connect
  <1>2. CASE t.status = "disconnected"
    <2> DEFINE u == [t EXCEPT !.close_requested = FALSE, !.status = "connecting"]
    <2>1. t.ws[t.socket] \notin {"open", "connecting"}
      BY <1>2 DEF Sound, OneWs, Under, TransportType
    <2>2. connect(t) = [u EXCEPT !.ws[u.socket] = IF u.socket \in u.refused THEN "none" ELSE "connecting"]
      BY <1>2, <2>1 DEF connect, WsConnect, Sound, TransportType
    <2> DEFINE w == IF t.socket \in t.refused THEN "none" ELSE "connecting"
    <2>3. /\ u \in TransportType /\ u.socket = t.socket /\ u.refused = t.refused /\ u.ws = t.ws
          /\ u.status = "connecting" /\ ~u.recovery_timer
      BY DEF Sound, TransportType
    <2>4. connect(t) = [u EXCEPT !.ws[t.socket] = w] /\ w \in Readiness
      BY <2>2, <2>3 DEF Readiness
    <2> HIDE DEF u, w
    <2>5. /\ connect(t) \in TransportType
          /\ connect(t).status = "connecting" /\ ~connect(t).recovery_timer /\ connect(t).socket = t.socket
          /\ connect(t).refused = t.refused
          /\ connect(t).ws = [t.ws EXCEPT ![t.socket] = w]
      BY <2>3, <2>4 DEF TransportType
    <2>6. /\ connect(t) \in TransportType
          /\ connect(t).status = "connecting" /\ ~connect(t).recovery_timer /\ connect(t).socket = t.socket
          /\ connect(t).refused = t.refused
          /\ connect(t).ws = [t.ws EXCEPT ![t.socket] = IF t.socket \in t.refused THEN "none" ELSE "connecting"]
      BY <2>5 DEF w
    <2>7. Under(t) = {}
      BY <1>2 DEF Sound, OneWs
    <2>8. OneWs(connect(t))
      BY <2>6, <2>7 DEF OneWs, Under, Sound, TransportType, Readiness
    <2> QED BY <1>2, <2>6, <2>8 DEF Sound
  <1> QED BY <1>1, <1>2

LEMMA Disconnects ==
  ASSUME NEW t, Sound(t)
  PROVE  /\ Sound(disconnect(t)) /\ ~disconnect(t).recovery_timer
         /\ disconnect(t).status = "disconnected" /\ disconnect(t).close_requested
  <1>1. /\ disconnect(t) \in TransportType
        /\ disconnect(t).status = "disconnected" /\ disconnect(t).close_requested
        /\ ~disconnect(t).recovery_timer /\ disconnect(t).socket = t.socket
        /\ disconnect(t).ws = [t.ws EXCEPT ![t.socket] = "none"]
    BY DEF disconnect, WsDisconnect, Sound, TransportType, Readiness
  <1>2. OneWs(disconnect(t))
    BY <1>1 DEF OneWs, Under, Sound, TransportType, Readiness
  <1> QED BY <1>1, <1>2 DEF Sound

LEMMA SocketOpens ==
  ASSUME NEW t, Sound(t), NEW s \in Sockets, t.ws[s] = "connecting"
  PROVE  /\ Sound(_onConnect(t, s)) /\ ~_onConnect(t, s).recovery_timer
         /\ _onConnect(t, s).status = "connected" /\ t.status # "connected"
  <1>1. s = t.socket /\ t.status # "disconnected" /\ t.status # "connected"
    BY DEF Sound, OneWs, Under, TransportType
  <1>2. /\ _onConnect(t, s) \in TransportType
        /\ _onConnect(t, s).status = "connected" /\ ~_onConnect(t, s).recovery_timer
        /\ _onConnect(t, s).socket = t.socket
        /\ _onConnect(t, s).ws = [t.ws EXCEPT ![s] = "open"]
    BY DEF _onConnect, Sound, TransportType, Readiness
  <1>3. OneWs(_onConnect(t, s))
    BY <1>1, <1>2 DEF OneWs, Under, Sound, TransportType, Readiness
  <1> QED BY <1>1, <1>2, <1>3 DEF Sound

LEMMA SocketIsClosing ==
  ASSUME NEW t, Sound(t), NEW s \in Sockets, t.ws[s] = "open"
  PROVE  /\ Sound(Closing(t, s)) /\ Closing(t, s).recovery_timer = t.recovery_timer
         /\ Closing(t, s).status = t.status /\ Closing(t, s).close_requested = t.close_requested
  <1>1. s = t.socket /\ t.status # "disconnected"
    BY DEF Sound, OneWs, Under, TransportType
  <1>2. /\ Closing(t, s) \in TransportType
        /\ Closing(t, s).status = t.status /\ Closing(t, s).close_requested = t.close_requested
        /\ Closing(t, s).recovery_timer = t.recovery_timer /\ Closing(t, s).refused = t.refused
        /\ Closing(t, s).socket = t.socket
        /\ Closing(t, s).ws = [t.ws EXCEPT ![s] = "closing"]
    BY DEF Closing, Sound, TransportType, Readiness
  <1>3. t.status = "connecting" => t.socket \in t.refused
    BY <1>1 DEF Sound, OneWs
  <1>4. OneWs(Closing(t, s))
    BY <1>1, <1>2, <1>3 DEF OneWs, Under, Sound, TransportType, Readiness
  <1> QED BY <1>2, <1>4 DEF Sound

LEMMA SocketCloses ==
  ASSUME NEW t, Sound(t), NEW s \in Sockets, t.ws[s] \in {"connecting", "open", "closing"}
  PROVE  /\ Sound(_onDisconnect(t, s)) /\ _onDisconnect(t, s).status = "disconnected"
         /\ t.status # "disconnected"
  <1>1. s = t.socket /\ t.status # "disconnected" /\ ~t.recovery_timer
    BY DEF Sound, OneWs, Under, TransportType
  <1>2. /\ _onDisconnect(t, s) \in TransportType
        /\ _onDisconnect(t, s).status = "disconnected"
        /\ _onDisconnect(t, s).close_requested = t.close_requested
        /\ _onDisconnect(t, s).recovery_timer => ~t.close_requested
        /\ _onDisconnect(t, s).socket = t.socket
        /\ _onDisconnect(t, s).ws = [t.ws EXCEPT ![s] = "closed"]
    BY <1>1 DEF _onDisconnect, Sound, TransportType, Readiness
  <1>3. OneWs(_onDisconnect(t, s))
    BY <1>1, <1>2 DEF OneWs, Under, Sound, TransportType, Readiness
  <1> QED BY <1>1, <1>2, <1>3 DEF Sound

LEMMA RecoveryConnects ==
  ASSUME NEW t, Sound(t), t.recovery_timer, NEW u \in Reconnected(t)
  PROVE  Sound(u) /\ ~u.recovery_timer /\ u.status = "connecting" /\ t.status = "disconnected"
  <1> DEFINE fired == [t EXCEPT !.recovery_timer = FALSE]
  <1>1. t.status = "disconnected" /\ ~t.close_requested /\ Under(t) = {}
    BY DEF Sound, OneWs
  <1>2. PICK s \in Heaviest(t.failed) : u = connect(Picked(fired, s))
    BY <1>1 DEF Reconnected
  <1>3. s \in Sockets
    BY DEF Heaviest, Usable
  <1>4. /\ Picked(fired, s) \in TransportType
        /\ Picked(fired, s).status = "disconnected" /\ ~Picked(fired, s).recovery_timer
        /\ Picked(fired, s).ws = t.ws
    BY <1>1, <1>3 DEF Picked, Sound, TransportType
  <1>5. Sound(Picked(fired, s))
    BY <1>1, <1>4 DEF Sound, OneWs, Under
  <1> QED BY <1>1, <1>2, <1>4, <1>5, Connects

(***************************************************************************)
(* The registrator: what holds of the requests under way and of what it     *)
(* believes.                                                                *)
(***************************************************************************)
\* The hypothesis of the theorem: the registrar answers no 423.
Outstanding(r) == \A i \in DOMAIN r.requests : r.requests[i].cseq <= r.cseq /\ r.requests[i].answer # "423"
Current(r, i) == r.requests[i].wants /\ Counts(r, r.requests[i])
\* A registration whose answer will count has no other request beside it.
CurrentIsAlone(r) == \A i \in DOMAIN r.requests : Current(r, i) => Len(r.requests) = 1
TimerIsQuiet(r) == r.timer => Quiet(r) \/ (r.registering /\ Len(r.requests) = 1)
\* While it is registered there is at most the request that renews it, and its answer will count.
RenewalIsCurrent(r) ==
  r.registered =>
    /\ Len(r.requests) <= 1
    /\ \A i \in DOMAIN r.requests : Current(r, i)
    /\ r.registering => Len(r.requests) = 1
    /\ r.timer \/ r.ignored \/ Len(r.requests) = 1
\* What it will believe, and what it believes, of the registrar's binding b.
BeliefIsTrue(r, b) ==
  /\ \A i \in DOMAIN r.requests : Current(r, i) /\ r.requests[i].answer = "2xx" => b
  /\ r.registered /\ ~r.ignored => b \/ \E i \in DOMAIN r.requests : r.requests[i].answer = "noContact"
Believes(r, b) ==
  /\ r \in RegistratorType
  /\ Outstanding(r) /\ CurrentIsAlone(r) /\ TimerIsQuiet(r) /\ RenewalIsCurrent(r) /\ BeliefIsTrue(r, b)

LEMMA InitBelieves == RegistratorInit => Believes(registrator, bound) /\ Quiet(registrator)
  BY EmptySeq DEF RegistratorInit, Believes, RegistratorType, Outstanding, CurrentIsAlone, TimerIsQuiet, RenewalIsCurrent,
     BeliefIsTrue, Quiet

LEMMA RequestFields ==
  ASSUME NEW r \in RegistratorType
  PROVE  /\ r.cseq \in Nat /\ Len(r.requests) \in Nat /\ DOMAIN r.requests = 1 .. Len(r.requests)
         /\ \A j \in DOMAIN r.requests : r.requests[j] \in Request /\ r.requests[j].cseq \in Nat
         /\ Len(r.requests) = 0 <=> Quiet(r)
  <1>1. r.requests \in Seq(Request) /\ r.cseq \in Nat
    BY DEF RegistratorType
  <1>2. Len(r.requests) \in Nat /\ DOMAIN r.requests = 1 .. Len(r.requests)
    BY <1>1, LenProperties
  <1>3. \A j \in 1 .. Len(r.requests) : r.requests[j] \in Request
    BY <1>1, ElementOfSeq
  <1>4. \A q \in Request : q.cseq \in Nat
    BY DEF Request
  <1>5. Len(r.requests) = 0 <=> Quiet(r)
    BY <1>1, EmptySeq DEF Quiet
  <1> QED BY <1>1, <1>2, <1>3, <1>4, <1>5

\* Two registrators that differ in their requests at most.
SameBeside(u, r) ==
  /\ u.registered = r.registered /\ u.registering = r.registering /\ u.cseq = r.cseq
  /\ u.timer = r.timer /\ u.ignored = r.ignored /\ u.crossed = r.crossed

\* A registrator that has nothing under way.
LEMMA IdleBelieves ==
  ASSUME NEW r \in RegistratorType, NEW b \in BOOLEAN, Quiet(r),
         r.registered => ~r.registering /\ (r.timer \/ r.ignored) /\ (r.ignored \/ b)
  PROVE  Believes(r, b)
  <1>1. DOMAIN r.requests = {} /\ Len(r.requests) = 0
    BY EmptySeq DEF Quiet
  <1> QED BY <1>1 DEF Believes, Outstanding, CurrentIsAlone, TimerIsQuiet, RenewalIsCurrent, BeliefIsTrue

\* A registration that fails, and the reply to one that ends it.
LEMMA Failing ==
  ASSUME NEW r \in RegistratorType, NEW wants \in BOOLEAN
  PROVE  /\ Fails(r, wants) \in RegistratorType
         /\ ~Fails(r, wants).registered /\ ~Fails(r, wants).registering
         /\ Fails(r, wants).requests = r.requests /\ Fails(r, wants).cseq = r.cseq
         /\ Fails(r, wants).timer = r.timer /\ Fails(r, wants).ignored = r.ignored
         /\ Fails(r, wants).crossed = r.crossed
         /\ Fails(r, wants) = _unregistered(r) /\ Fails(r, wants) = _registrationFailure(r)
  BY DEF Fails, _registrationFailure, _unregistered, RegistratorType

\* What is left of the requests when one is taken out.
LEMMA Removal ==
  ASSUME NEW r \in RegistratorType, NEW i \in DOMAIN r.requests
  PROVE  /\ Without(r, i) \in RegistratorType
         /\ Len(Without(r, i).requests) = Len(r.requests) - 1
         /\ \A j \in DOMAIN Without(r, i).requests : \E k \in DOMAIN r.requests :
              Without(r, i).requests[j] = r.requests[k]
         /\ SameBeside(Without(r, i), r)
  <1> DEFINE q == r.requests
             before == SubSeq(q, 1, i - 1)
             after == SubSeq(q, i + 1, Len(q))
             rest == before \o after
  <1>1. Without(r, i) = [r EXCEPT !.requests = rest]
    BY DEF Without, RemoveAt
  <1>2. q \in Seq(Request) /\ Len(q) \in Nat /\ DOMAIN q = 1 .. Len(q) /\ i \in 1 .. Len(q)
    BY LenProperties DEF RegistratorType
  <1>3. \A k \in 1 .. Len(q) : q[k] \in Request
    BY <1>2, ElementOfSeq
  <1> HIDE DEF q
  <1>4. /\ before \in Seq(Request) /\ Len(before) = i - 1
        /\ \A j \in 1 .. i - 1 : before[j] = q[j]
    <2>1. \A j \in 1 .. i - 1 : q[j] \in Request
      BY <1>2, <1>3
    <2>2. 1 \in Int /\ i - 1 \in Int
      BY <1>2
    <2>3. /\ before \in Seq(Request)
          /\ Len(before) = IF 1 <= i - 1 THEN i - 1 - 1 + 1 ELSE 0
          /\ \A j \in 1 .. i - 1 - 1 + 1 : before[j] = q[1 + j - 1]
      BY <2>1, <2>2, SubSeqProperties
    <2> QED BY <1>2, <2>3
  <1>5. /\ after \in Seq(Request) /\ Len(after) = Len(q) - i
        /\ \A j \in 1 .. Len(q) - i : after[j] = q[i + j]
    <2>1. \A j \in i + 1 .. Len(q) : q[j] \in Request
      BY <1>2, <1>3
    <2>2. i + 1 \in Int /\ Len(q) \in Int
      BY <1>2
    <2>3. /\ after \in Seq(Request)
          /\ Len(after) = IF i + 1 <= Len(q) THEN Len(q) - (i + 1) + 1 ELSE 0
          /\ \A j \in 1 .. Len(q) - (i + 1) + 1 : after[j] = q[i + 1 + j - 1]
      BY <2>1, <2>2, SubSeqProperties
    <2> QED BY <1>2, <2>3
  <1> HIDE DEF before, after
  <1>6. /\ rest \in Seq(Request)
        /\ Len(rest) = Len(before) + Len(after)
        /\ \A j \in 1 .. Len(before) + Len(after) :
             rest[j] = IF j <= Len(before) THEN before[j] ELSE after[j - Len(before)]
    BY <1>4, <1>5, ConcatProperties
  <1>7. Len(rest) = Len(q) - 1 /\ DOMAIN rest = 1 .. Len(rest)
    BY <1>2, <1>4, <1>5, <1>6, LenProperties
  <1>8. \A j \in DOMAIN rest : \E k \in DOMAIN q : rest[j] = q[k]
    <2> SUFFICES ASSUME NEW j \in DOMAIN rest
                 PROVE  \E k \in DOMAIN q : rest[j] = q[k]
      OBVIOUS
    <2>1. CASE j <= i - 1
      BY <2>1, <1>2, <1>4, <1>5, <1>6, <1>7
    <2>2. CASE ~(j <= i - 1)
      <3> DEFINE m == j - (i - 1)
      <3>4. j \in 1 .. Len(q) - 1
        BY <1>7
      <3>1. m \in 1 .. Len(q) - i /\ i + m \in DOMAIN q
        BY <3>4, <2>2, <1>2
      <3>2. rest[j] = after[m]
        BY <2>2, <1>2, <1>4, <1>5, <1>6, <1>7
      <3> QED BY <3>1, <3>2, <1>5
    <2> QED BY <2>1, <2>2
  <1> HIDE DEF rest
  <1>9. Without(r, i).requests = rest /\ Without(r, i) \in RegistratorType /\ SameBeside(Without(r, i), r)
    BY <1>1, <1>6 DEF RegistratorType, SameBeside
  <1> QED BY <1>1, <1>7, <1>8, <1>9 DEF q

Adding(r, m) == [r EXCEPT !.requests = Append(@, m)]

\* A request that is sent is the last one; the others stay as they are.
LEMMA Sending ==
  ASSUME NEW r \in RegistratorType, NEW m \in Request, NEW u, u = Adding(r, m)
  PROVE  /\ u \in RegistratorType /\ SameBeside(u, r)
         /\ Len(u.requests) = Len(r.requests) + 1
         /\ \A j \in DOMAIN r.requests : j \in DOMAIN u.requests /\ u.requests[j] = r.requests[j]
         /\ Len(r.requests) + 1 \in DOMAIN u.requests
         /\ u.requests[Len(r.requests) + 1] = m
         /\ \A j \in DOMAIN u.requests : j \in DOMAIN r.requests \/ j = Len(r.requests) + 1
  <1> DEFINE s == r.requests
             q == Append(s, m)
  <1>1. s \in Seq(Request) /\ Len(s) \in Nat /\ DOMAIN s = 1 .. Len(s)
    BY LenProperties DEF RegistratorType
  <1>2. u.requests = q /\ SameBeside(u, r)
    BY DEF SameBeside, RegistratorType, Adding
  <1> HIDE DEF s
  <1>3. /\ q \in Seq(Request) /\ Len(q) = Len(s) + 1
        /\ \A j \in 1 .. Len(s) : q[j] = s[j]
        /\ q[Len(s) + 1] = m
    BY <1>1, AppendProperties
  <1>4. DOMAIN q = 1 .. Len(s) + 1
    BY <1>3, LenProperties
  <1> HIDE DEF q
  <1>5. /\ \A j \in DOMAIN s : j \in DOMAIN q /\ q[j] = s[j]
        /\ Len(s) + 1 \in DOMAIN q
        /\ \A j \in DOMAIN q : j \in DOMAIN s \/ j = Len(s) + 1
    BY <1>1, <1>3, <1>4
  <1>6. u \in RegistratorType
    BY <1>2, <1>3 DEF RegistratorType, Adding, q
  <1> QED BY <1>2, <1>3, <1>5, <1>6 DEF s

\* A request that is sent when nothing is under way is the only one.
LEMMA SendingAlone ==
  ASSUME NEW r \in RegistratorType, Quiet(r), NEW m \in Request,
         NEW u, u = Adding(r, m)
  PROVE  /\ u \in RegistratorType /\ SameBeside(u, r)
         /\ Len(u.requests) = 1 /\ 1 \in DOMAIN u.requests /\ u.requests[1] = m
         /\ \A j \in DOMAIN u.requests : j = 1
  <1> DEFINE last == Len(r.requests) + 1
  <1>1. DOMAIN r.requests = {} /\ last = 1
    BY EmptySeq DEF Quiet
  <1> HIDE DEF last
  <1>2. /\ u \in RegistratorType /\ SameBeside(u, r) /\ Len(u.requests) = last
        /\ last \in DOMAIN u.requests /\ u.requests[last] = m
        /\ \A j \in DOMAIN u.requests : j \in DOMAIN r.requests \/ j = last
    BY Sending DEF last
  <1> QED BY <1>1, <1>2

\* A registration that starts when nothing is under way.
LEMMA NewRegisters ==
  ASSUME NEW r \in RegistratorType, NEW b \in BOOLEAN, Quiet(r), r.registered /\ ~r.ignored => b,
         NEW open \in BOOLEAN, NEW closed \in BOOLEAN
  PROVE  LET u == New(r, TRUE, open, closed)
         IN Believes(u, b) /\ (~open => Quiet(u)) /\ (~r.registered => ~u.registered)
  <1> DEFINE next == [r EXCEPT !.cseq = @ + 1]
             told == IF closed THEN Fails(next, TRUE) ELSE next
             t == [told EXCEPT !.registering = TRUE]
             u == New(r, TRUE, open, closed)
  <1>1. r \in RegistratorType /\ r.requests = <<>> /\ (r.registered /\ ~r.ignored => b)
    BY DEF Quiet
  <1>2. next \in RegistratorType /\ next.requests = <<>> /\ next.cseq = r.cseq + 1
        /\ next.timer = r.timer /\ next.ignored = r.ignored /\ next.registered = r.registered
    BY <1>1 DEF RegistratorType
  <1>3. u = Sent(t, TRUE, r.cseq + 1, FALSE, FALSE, open)
    BY <1>2 DEF New
  <1> HIDE DEF next
  <1>4. told \in RegistratorType /\ told.requests = <<>> /\ told.cseq = r.cseq + 1
        /\ told.timer = r.timer /\ told.ignored = r.ignored /\ (told.registered => r.registered)
    BY <1>2, Failing
  <1> HIDE DEF told
  <1>5. /\ t \in RegistratorType /\ t.requests = <<>> /\ Len(t.requests) = 0
        /\ t.cseq = r.cseq + 1 /\ t.registering /\ t.timer = r.timer /\ t.ignored = r.ignored
        /\ t.registered => r.registered
    BY <1>4, EmptySeq DEF RegistratorType
  <1> HIDE DEF t, u
  <1>6. CASE ~open
    <2>1. u = [t EXCEPT !.registering = FALSE, !.registered = FALSE]
      BY <1>3, <1>6 DEF Sent, Fails, _registrationFailure
    <2>2. u \in RegistratorType /\ u.requests = <<>> /\ ~u.registered
      BY <1>5, <2>1 DEF RegistratorType
    <2> QED BY <1>6, <2>2, IdleBelieves DEF u, Quiet
  <1>7. CASE open
    <2> DEFINE m == [wants |-> TRUE, cseq |-> r.cseq + 1, answer |-> "none", challenged |-> FALSE, staled |-> FALSE]
    <2>1. m \in Request /\ m.wants /\ m.cseq = r.cseq + 1 /\ m.answer = "none" /\ r.cseq + 1 \in Nat
      BY <1>1 DEF Request, RegistratorType
    <2>2. u = Adding(t, m)
      BY <1>3, <1>7 DEF Sent, Adding
    <2> HIDE DEF m
    <2>3. /\ u \in RegistratorType /\ SameBeside(u, t) /\ Len(u.requests) = 1
          /\ 1 \in DOMAIN u.requests /\ u.requests[1] = m
          /\ \A j \in DOMAIN u.requests : j = 1
      <3> t \in RegistratorType /\ Quiet(t) /\ m \in Request
        BY <1>5, <2>1 DEF Quiet
      <3> QED BY <2>2, SendingAlone
    <2>4. /\ u.cseq = r.cseq + 1 /\ u.cseq \in Nat /\ u.registering /\ u.registered = t.registered
          /\ u.timer = t.timer /\ u.ignored = t.ignored
      BY <1>5, <2>1, <2>3 DEF SameBeside
    <2>5. Outstanding(u) /\ CurrentIsAlone(u) /\ TimerIsQuiet(u) /\ RenewalIsCurrent(u)
      BY <2>1, <2>3, <2>4 DEF Outstanding, Current, Counts, CurrentIsAlone, TimerIsQuiet, RenewalIsCurrent
    <2>6. BeliefIsTrue(u, b)
      BY <1>1, <1>5, <2>1, <2>3, <2>4 DEF BeliefIsTrue, Current
    <2> QED BY <1>5, <1>7, <2>3, <2>4, <2>5, <2>6 DEF u, Believes
  <1> QED BY <1>6, <1>7

\* The mark of a register() over another request is all it changes by itself.
LEMMA CrossingType ==
  ASSUME NEW r \in RegistratorType
  PROVE  LET t == [r EXCEPT !.crossed = Crossing(r)]
         IN /\ t \in RegistratorType /\ t.crossed = Crossing(r) /\ t.requests = r.requests
            /\ t.registered = r.registered /\ t.ignored = r.ignored
  BY DEF RegistratorType, Crossing, Quiet

LEMMA Registers ==
  ASSUME NEW r, NEW b \in BOOLEAN, Believes(r, b), NEW open \in BOOLEAN, NEW closed \in BOOLEAN,
         r.registering \/ Quiet(r)
  PROVE  LET u == register(r, open, closed)
         IN Believes(u, b) /\ (~open /\ Quiet(r) => Quiet(u)) /\ (~r.registered => ~u.registered)
  <1> DEFINE t == [r EXCEPT !.crossed = Crossing(r)]
  <1>1. r \in RegistratorType /\ (Quiet(r) /\ r.registered /\ ~r.ignored => b)
    BY EmptySeq DEF Believes, BeliefIsTrue, Quiet
  <1>2. /\ t \in RegistratorType /\ t.registered = r.registered /\ t.ignored = r.ignored
        /\ Quiet(t) <=> Quiet(r)
    BY <1>1, CrossingType DEF Quiet
  <1> HIDE DEF t
  <1> QED BY <1>1, <1>2, NewRegisters DEF register, t

\* Nothing counts any more, and it is not registered.
LEMMA NothingCurrent ==
  ASSUME NEW u \in RegistratorType, NEW b \in BOOLEAN, ~u.registered, u.timer => Quiet(u), Outstanding(u),
         \A j \in DOMAIN u.requests : ~Current(u, j)
  PROVE  Believes(u, b)
  BY DEF Believes, CurrentIsAlone, TimerIsQuiet, RenewalIsCurrent, BeliefIsTrue

\* unregister() lets no answer count but its own.
LEMMA Unregisters ==
  ASSUME NEW r, NEW b \in BOOLEAN, Believes(r, b), NEW open \in BOOLEAN, NEW closed \in BOOLEAN
  PROVE  LET u == unregister(r, open, closed)
         IN Believes(u, b) /\ (~open /\ Quiet(r) => Quiet(u)) /\ ~u.registered
  <1>0. r \in RegistratorType /\ Outstanding(r)
    BY DEF Believes
  <1>1. CASE ~r.registered
    BY <1>1 DEF unregister
  <1>2. CASE r.registered
    <2> DEFINE gone == [r EXCEPT !.registered = FALSE, !.timer = FALSE]
               next == [gone EXCEPT !.cseq = @ + 1]
               t == IF closed THEN Fails(next, FALSE) ELSE next
               u == unregister(r, open, closed)
    <2>1. gone \in RegistratorType /\ gone.requests = r.requests /\ gone.cseq = r.cseq /\ ~gone.registered /\ ~gone.timer
      BY <1>0 DEF RegistratorType
    <2>2. u = New(gone, FALSE, open, closed)
      BY <1>2 DEF unregister
    <2> HIDE DEF gone
    <2>3. next \in RegistratorType /\ next.requests = r.requests /\ next.cseq = r.cseq + 1 /\ ~next.registered /\ ~next.timer
      BY <2>1 DEF RegistratorType
    <2>4. u = Sent(t, FALSE, r.cseq + 1, FALSE, FALSE, open)
      BY <2>2, <2>3 DEF New
    <2> HIDE DEF next, u
    <2>5. t \in RegistratorType /\ t.requests = r.requests /\ t.cseq = r.cseq + 1 /\ ~t.registered /\ ~t.timer
      BY <2>3, Failing
    <2> HIDE DEF t
    <2>6. \A j \in DOMAIN r.requests :
            r.requests[j].cseq <= r.cseq /\ r.requests[j].cseq \in Nat /\ r.requests[j].answer # "423"
      BY <1>0, RequestFields DEF Outstanding
    <2>7. r.cseq \in Nat
      BY <1>0 DEF RegistratorType
    <2>8. CASE ~open
      <3>1. u = Fails(t, FALSE)
        BY <2>4, <2>8 DEF Sent
      <3>2. u \in RegistratorType /\ u.requests = r.requests /\ u.cseq = r.cseq + 1 /\ ~u.registered /\ ~u.timer
        BY <2>5, <3>1, Failing
      <3>3. Outstanding(u) /\ \A j \in DOMAIN u.requests : ~Current(u, j)
        BY <2>6, <2>7, <3>2 DEF Outstanding, Current, Counts
      <3> QED BY <3>2, <3>3, NothingCurrent DEF u, Quiet
    <2>9. CASE open
      <3> DEFINE m == [wants |-> FALSE, cseq |-> r.cseq + 1, answer |-> "none", challenged |-> FALSE, staled |-> FALSE]
      <3>1. m \in Request /\ ~m.wants /\ m.cseq = r.cseq + 1 /\ m.answer = "none"
        BY <2>7 DEF Request
      <3>2. u = Adding(t, m)
        BY <2>4, <2>9 DEF Sent, Adding
      <3> HIDE DEF m
      <3>3. /\ u \in RegistratorType /\ SameBeside(u, t)
            /\ \A j \in DOMAIN u.requests : j \in DOMAIN t.requests \/ u.requests[j] = m
            /\ \A j \in DOMAIN t.requests : u.requests[j] = t.requests[j]
        <4> t \in RegistratorType /\ m \in Request
          BY <2>5, <3>1
        <4> QED BY <3>2, Sending
      <3>4. u.cseq = r.cseq + 1 /\ ~u.registered /\ ~u.timer
        BY <2>5, <3>3 DEF SameBeside
      <3>5. \A j \in DOMAIN u.requests : u.requests[j].cseq <= u.cseq /\ u.requests[j].answer # "423" /\ ~Current(u, j)
        BY <2>5, <2>6, <2>7, <3>1, <3>3, <3>4 DEF Current, Counts
      <3> QED BY <2>9, <3>3, <3>4, <3>5, NothingCurrent DEF u, Outstanding
    <2> QED BY <2>8, <2>9
  <1> QED BY <1>1, <1>2

\* A request is taken out and nothing else is believed of it.
LEMMA TakenOut ==
  ASSUME NEW r, NEW b \in BOOLEAN, Believes(r, b), NEW i \in DOMAIN r.requests,
         NEW u \in RegistratorType, u.requests = Without(r, i).requests, r.cseq <= u.cseq, ~u.registered,
         u.timer => r.timer
  PROVE  Believes(u, b)
  <1>1. r \in RegistratorType /\ Outstanding(r) /\ CurrentIsAlone(r) /\ TimerIsQuiet(r)
    BY DEF Believes
  <1>2. /\ r.cseq \in Nat /\ u.cseq \in Nat /\ Len(r.requests) \in Nat
        /\ DOMAIN u.requests = 1 .. Len(u.requests) /\ (Len(u.requests) = 0 <=> Quiet(u))
        /\ \A j \in DOMAIN r.requests : r.requests[j].cseq \in Nat
    BY <1>1, RequestFields
  <1>3. /\ Len(u.requests) = Len(r.requests) - 1
        /\ \A j \in DOMAIN u.requests : \E k \in DOMAIN r.requests : u.requests[j] = r.requests[k]
    BY <1>1, Removal
  <1>4. Outstanding(u)
    <2> SUFFICES ASSUME NEW j \in DOMAIN u.requests
                 PROVE  u.requests[j].cseq <= u.cseq /\ u.requests[j].answer # "423"
      BY DEF Outstanding
    <2>1. PICK k \in DOMAIN r.requests : u.requests[j] = r.requests[k]
      BY <1>3
    <2>2. r.requests[k].cseq <= r.cseq /\ r.requests[k].cseq \in Nat /\ r.requests[k].answer # "423"
      BY <1>1, <1>2 DEF Outstanding
    <2> QED BY <1>2, <2>1, <2>2
  <1>5. ASSUME NEW j \in DOMAIN u.requests
        PROVE  ~Current(u, j)
    <2>1. PICK k \in DOMAIN r.requests : u.requests[j] = r.requests[k]
      BY <1>3
    <2>2. Current(u, j) => Current(r, k)
      BY <1>1, <1>2, <2>1 DEF Current, Counts, Outstanding
    <2>3. Current(r, k) => Len(r.requests) = 1
      BY <1>1 DEF CurrentIsAlone
    <2>4. Len(r.requests) # 1
      <3> DEFINE n == Len(u.requests)
                 l == Len(r.requests)
      <3>1. j \in 1 .. n /\ n = l - 1 /\ l \in Nat
        BY <1>2, <1>3
      <3> HIDE DEF n, l
      <3>2. l # 1
        BY <3>1
      <3> QED BY <3>2 DEF l
    <2> QED BY <2>2, <2>3, <2>4
  <1>6. u.timer => Quiet(u)
    BY <1>1, <1>2, <1>3, RequestFields DEF TimerIsQuiet
  <1> QED BY <1>4, <1>5, <1>6, NothingCurrent

\* Timer F of the oldest request.
LEMMA TimesOut ==
  ASSUME NEW r, NEW b \in BOOLEAN, Believes(r, b), ~Quiet(r)
  PROVE  Believes(TimedOut(r), b) /\ ~TimedOut(r).registered
  <1>1. r \in RegistratorType /\ 1 \in DOMAIN r.requests /\ r.requests[1].wants \in BOOLEAN
    BY RequestFields DEF Believes, Request
  <1>2. /\ TimedOut(r) \in RegistratorType /\ ~TimedOut(r).registered
        /\ TimedOut(r).requests = Without(r, 1).requests
        /\ TimedOut(r).cseq = r.cseq /\ TimedOut(r).timer = r.timer
    BY <1>1, Removal, Failing DEF TimedOut, SameBeside
  <1>3. r.cseq <= TimedOut(r).cseq
    BY <1>1, <1>2, RequestFields
  <1> QED BY <1>1, <1>2, <1>3, TakenOut

\* A provisional response stops the timer of a registration only while another is under way.
LEMMA Rings ==
  ASSUME NEW r, NEW b \in BOOLEAN, Believes(r, b), NEW i \in DOMAIN r.requests,
         NEW u, u = Provisional(r, r.requests[i])
  PROVE  Believes(u, b) /\ u.requests = r.requests /\ u.registered = r.registered
  <1>1. CASE ~Current(r, i)
    BY <1>1 DEF Provisional, Current
  <1>2. CASE Current(r, i)
    <2>1. r \in RegistratorType /\ Len(r.requests) = 1
      BY <1>2 DEF Believes, CurrentIsAlone
    <2>2. u = [r EXCEPT !.timer = FALSE]
      BY <1>2 DEF Provisional, Current
    <2>3. /\ u \in RegistratorType /\ u.requests = r.requests /\ u.registered = r.registered
          /\ u.registering = r.registering /\ u.cseq = r.cseq /\ u.ignored = r.ignored /\ ~u.timer
      BY <2>1, <2>2 DEF RegistratorType
    <2>4. Outstanding(u) /\ CurrentIsAlone(u) /\ TimerIsQuiet(u) /\ RenewalIsCurrent(u)
      BY <2>1, <2>3 DEF Believes, Outstanding, Current, Counts, CurrentIsAlone, TimerIsQuiet, RenewalIsCurrent
    <2>5. BeliefIsTrue(u, b)
      BY <2>3 DEF Believes, BeliefIsTrue, Current, Counts
    <2> QED BY <2>3, <2>4, <2>5 DEF Believes
  <1> QED BY <1>1, <1>2

\* The transport is lost.
LEMMA Closes ==
  ASSUME NEW r \in RegistratorType, NEW b \in BOOLEAN
  PROVE  LET u == onTransportClosed(r)
         IN Believes(u, b) /\ Quiet(u) /\ ~u.registered
  <1> DEFINE u == onTransportClosed(r)
  <1>1. u \in RegistratorType /\ Quiet(u) /\ ~u.registered
    BY EmptySeq DEF onTransportClosed, RegistratorType, Quiet
  <1> HIDE DEF u
  <1>2. Believes(u, b)
    BY <1>1, IdleBelieves
  <1> QED BY <1>1, <1>2 DEF u

\* A final response is received: the challenge is answered, or the registration
\* or the removal comes to its end. (After a 423 the registrator believes that it
\* registers although nothing is under way.)
LEMMA Receives ==
  ASSUME NEW r, NEW b \in BOOLEAN, Believes(r, b), NEW i \in DOMAIN r.requests,
         NEW open \in BOOLEAN, NEW closed \in BOOLEAN
  PROVE  LET u == _receiveResponse(r, i, open, closed)
         IN Believes(u, b) /\ (~r.registered /\ u.registered => r.requests[i].answer = "2xx" /\ r.requests[i].wants)
  <1> DEFINE q == r.requests[i]
             rest == Without(r, i)
             u == _receiveResponse(r, i, open, closed)
  <1>1. r \in RegistratorType /\ Outstanding(r) /\ CurrentIsAlone(r) /\ TimerIsQuiet(r) /\ RenewalIsCurrent(r) /\ BeliefIsTrue(r, b)
    BY DEF Believes
  <1>2. /\ r.cseq \in Nat /\ Len(r.requests) \in Nat /\ DOMAIN r.requests = 1 .. Len(r.requests)
        /\ \A j \in DOMAIN r.requests :
             /\ r.requests[j] \in Request /\ r.requests[j].cseq \in Nat
             /\ r.requests[j].cseq <= r.cseq /\ r.requests[j].answer # "423"
    BY <1>1, RequestFields DEF Outstanding
  <1>3. /\ rest \in RegistratorType /\ SameBeside(rest, r)
        /\ Len(rest.requests) = Len(r.requests) - 1
        /\ \A j \in DOMAIN rest.requests : \E k \in DOMAIN r.requests : rest.requests[j] = r.requests[k]
    BY <1>1, Removal
  <1>4. q.wants \in BOOLEAN /\ q.cseq \in Nat /\ q.cseq <= r.cseq /\ q.challenged \in BOOLEAN /\ q.staled \in BOOLEAN
    BY <1>2 DEF Request
  <1>5. ASSUME Current(r, i)
        PROVE  Len(r.requests) = 1 /\ Quiet(rest)
    <2>1. Len(r.requests) = 1 /\ Len(rest.requests) = 0
      BY <1>1, <1>3, <1>5 DEF CurrentIsAlone
    <2> QED BY <1>3, <2>1, RequestFields
  <1>6. CASE Authenticates(q)
    <2> DEFINE t == [rest EXCEPT !.cseq = @ + 1]
    <2>1. u = Sent(t, q.wants, q.cseq + 1, TRUE, q.staled \/ q.answer = "stale", open)
      BY <1>6 DEF _receiveResponse
    <2>2. /\ t \in RegistratorType /\ t.requests = rest.requests /\ t.cseq = r.cseq + 1 /\ t.timer = r.timer
          /\ t.registered = r.registered /\ t.registering = r.registering /\ t.ignored = r.ignored
      BY <1>2, <1>3 DEF SameBeside, RegistratorType
    <2> HIDE DEF t, u
    <2>3. CASE ~open
      <3>1. /\ u \in RegistratorType /\ ~u.registered /\ u.requests = rest.requests
            /\ u.cseq = r.cseq + 1 /\ u.timer = r.timer
        BY <1>4, <2>1, <2>2, <2>3, Failing DEF Sent
      <3>2. r.cseq <= u.cseq
        BY <1>2, <3>1
      <3>3. Believes(u, b)
        BY <3>1, <3>2, TakenOut
      <3> QED BY <3>1, <3>3 DEF u
    <2>4. CASE open
      <3> DEFINE m == [wants |-> q.wants, cseq |-> q.cseq + 1, answer |-> "none", challenged |-> TRUE,
                       staled |-> q.staled \/ q.answer = "stale"]
                 last == Len(rest.requests) + 1
      <3>1. m \in Request /\ m.wants = q.wants /\ m.cseq = q.cseq + 1 /\ m.answer = "none"
        BY <1>4 DEF Request
      <3>2. u = Adding(t, m)
        BY <2>1, <2>4 DEF Sent, Adding
      <3> HIDE DEF m
      <3>3. /\ u \in RegistratorType /\ SameBeside(u, t) /\ Len(u.requests) = Len(t.requests) + 1
            /\ u.requests[Len(t.requests) + 1] = m
            /\ \A j \in DOMAIN u.requests : j \in DOMAIN t.requests \/ j = Len(t.requests) + 1
            /\ \A j \in DOMAIN t.requests : u.requests[j] = t.requests[j]
            /\ Len(t.requests) + 1 \in DOMAIN u.requests
        <4> t \in RegistratorType /\ m \in Request
          BY <2>2, <3>1
        <4> QED BY <3>2, Sending
      <3>4. /\ Len(u.requests) = Len(r.requests) /\ u.requests[Len(r.requests)] = m
            /\ Len(r.requests) \in DOMAIN u.requests
        BY <1>2, <1>3, <2>2, <3>3
      <3>5. /\ u.cseq = r.cseq + 1 /\ u.registered = r.registered /\ u.registering = r.registering
            /\ u.timer = r.timer /\ u.ignored = r.ignored
        BY <2>2, <3>3 DEF SameBeside
      <3>6. \A j \in DOMAIN u.requests :
              u.requests[j] = m \/ \E k \in DOMAIN r.requests : u.requests[j] = r.requests[k]
        BY <1>3, <2>2, <3>3
      <3>7. Outstanding(u)
        <4> SUFFICES ASSUME NEW j \in DOMAIN u.requests
                     PROVE  u.requests[j].cseq <= u.cseq /\ u.requests[j].answer # "423"
          BY DEF Outstanding
        <4>1. CASE u.requests[j] = m
          BY <1>2, <1>4, <3>1, <3>5, <4>1
        <4>2. ASSUME NEW k \in DOMAIN r.requests, u.requests[j] = r.requests[k]
              PROVE  u.requests[j].cseq <= u.cseq /\ u.requests[j].answer # "423"
          BY <1>2, <3>5, <4>2
        <4> QED BY <3>6, <4>1, <4>2
      <3>8. \A j \in DOMAIN u.requests : Current(u, j) => u.requests[j] = m /\ Current(r, i)
        <4> SUFFICES ASSUME NEW j \in DOMAIN u.requests, Current(u, j)
                     PROVE  u.requests[j] = m /\ Current(r, i)
          OBVIOUS
        <4>1. u.requests[j].wants /\ u.requests[j].cseq = r.cseq + 1
          BY <3>5 DEF Current, Counts
        <4>2. u.requests[j] = m
          BY <1>2, <3>6, <4>1
        <4> QED BY <1>2, <1>4, <3>1, <4>1, <4>2 DEF Current, Counts
      <3>9. CurrentIsAlone(u) /\ TimerIsQuiet(u)
        BY <1>1, <1>2, <1>5, <3>4, <3>5, <3>8, RequestFields DEF CurrentIsAlone, TimerIsQuiet
      <3>10. ASSUME u.registered
             PROVE  Len(r.requests) = 1 /\ Current(r, i) /\ (\A j \in DOMAIN u.requests : Current(u, j) /\ j = 1)
        <4>1. Len(r.requests) = 1 /\ Current(r, i)
          BY <1>1, <1>5, <3>5, <3>10 DEF RenewalIsCurrent
        <4>2. DOMAIN u.requests = 1 .. 1 /\ u.requests[1] = m
          BY <3>3, <3>4, <4>1, RequestFields
        <4>3. m.wants /\ m.cseq = u.cseq
          BY <3>1, <3>5, <4>1 DEF Current, Counts
        <4> QED BY <4>1, <4>2, <4>3 DEF Current, Counts
      <3>11. RenewalIsCurrent(u)
        BY <1>1, <3>4, <3>5, <3>10 DEF RenewalIsCurrent
      <3>12. BeliefIsTrue(u, b)
        <4>1. \A j \in DOMAIN u.requests : Current(u, j) => u.requests[j].answer # "2xx"
          BY <3>1, <3>8
        <4>2. ASSUME u.registered, ~u.ignored
              PROVE  b
          <5>1. \A k \in DOMAIN r.requests : k = i
            BY <1>2, <3>10, <4>2
          <5>2. r.requests[i].answer # "noContact"
            BY <1>6 DEF Authenticates
          <5> QED BY <1>1, <3>5, <4>2, <5>1, <5>2 DEF BeliefIsTrue
        <4> QED BY <4>1, <4>2 DEF BeliefIsTrue
      <3> QED BY <3>3, <3>5, <3>7, <3>9, <3>11, <3>12 DEF Believes, u
    <2> QED BY <2>3, <2>4
  <1>7. CASE ~Authenticates(q) /\ (~q.wants \/ ~Counts(r, q))
    <2>1. \/ u = rest /\ ~r.registered
          \/ u = _unregistered(rest)
      BY <1>1, <1>7 DEF _receiveResponse, RenewalIsCurrent, Current
    <2>2. /\ u \in RegistratorType /\ ~u.registered /\ u.requests = rest.requests
          /\ u.cseq = r.cseq /\ u.timer = r.timer
      BY <1>3, <2>1, Failing DEF SameBeside
    <2> HIDE DEF u
    <2>3. Believes(u, b)
      BY <1>2, <2>2, TakenOut
    <2> QED BY <2>2, <2>3 DEF u
  <1>8. CASE ~Authenticates(q) /\ Current(r, i)
    <2> DEFINE heard == [rest EXCEPT !.timer = FALSE, !.ignored = FALSE]
    <2>1. u = Registered(rest, q.answer, open, closed) /\ Quiet(rest)
      BY <1>5, <1>8 DEF _receiveResponse, Current
    <2>2. /\ heard \in RegistratorType /\ Quiet(heard) /\ ~heard.timer /\ ~heard.ignored
          /\ heard.registered = r.registered
      BY <1>3, <2>1 DEF RegistratorType, SameBeside, Quiet
    <2>3. CASE q.answer = "2xx"
      <3>1. u = [heard EXCEPT !.registering = FALSE, !.registered = TRUE, !.timer = TRUE]
        BY <2>1, <2>3 DEF Registered
      <3> HIDE DEF heard, u
      <3>2. u \in RegistratorType /\ Quiet(u) /\ ~u.registering /\ u.timer
        BY <2>2, <3>1 DEF RegistratorType, Quiet
      <3>3. b
        BY <1>1, <1>8, <2>3 DEF BeliefIsTrue
      <3>4. Believes(u, b)
        BY <3>2, <3>3, IdleBelieves
      <3> QED BY <1>8, <2>3, <3>4 DEF u, Current
    <2>4. CASE q.answer = "noContact"
      <3>1. u = [heard EXCEPT !.registering = FALSE, !.ignored = TRUE]
        BY <2>1, <2>4 DEF Registered
      <3> HIDE DEF heard, u
      <3>2. u \in RegistratorType /\ Quiet(u) /\ ~u.registering /\ u.ignored /\ u.registered = r.registered
        BY <2>2, <3>1 DEF RegistratorType, Quiet
      <3>3. Believes(u, b)
        BY <3>2, IdleBelieves
      <3> QED BY <3>2, <3>3 DEF u
    <2>5. CASE q.answer \notin {"2xx", "noContact"}
      <3>1. u = _registrationFailure(heard)
        BY <1>2, <2>1, <2>5 DEF Registered
      <3> HIDE DEF heard, u
      <3>2. u \in RegistratorType /\ Quiet(u) /\ ~u.registered
        BY <2>2, <3>1, Failing DEF Quiet
      <3>3. Believes(u, b)
        BY <3>2, IdleBelieves
      <3> QED BY <3>2, <3>3 DEF u
    <2> QED BY <2>3, <2>4, <2>5
  <1> QED BY <1>6, <1>7, <1>8 DEF Current

\* The registrar answers a request: what it does with the binding is what the answer says.
LEMMA Answering ==
  ASSUME Believes(registrator, bound), bound \in BOOLEAN, NEW answer \in AllAnswers, answer # "423",
         Registrar(answer)
  PROVE  /\ Believes(registrator', bound') /\ bound' \in BOOLEAN
         /\ ~Quiet(registrator) /\ registrator'.registered = registrator.registered
  <1> DEFINE r == registrator
             u == registrator'
  <1>1. r \in RegistratorType /\ Outstanding(r) /\ CurrentIsAlone(r) /\ TimerIsQuiet(r) /\ RenewalIsCurrent(r)
        /\ BeliefIsTrue(r, bound)
    BY DEF Believes
  <1>2. PICK i \in DOMAIN r.requests :
          /\ r.requests[i].answer = "none"
          /\ u = [r EXCEPT !.requests[i].answer = answer]
          /\ bound' \in Bindings(r.requests[i], answer)
    BY DEF Registrar, Unanswered
  <1> DEFINE q == [r.requests EXCEPT ![i] = [r.requests[i] EXCEPT !.answer = answer]]
  <1>3. /\ Len(r.requests) \in Nat /\ DOMAIN r.requests = 1 .. Len(r.requests)
        /\ \A j \in DOMAIN r.requests : r.requests[j] \in Request
        /\ r.requests \in Seq(Request)
    BY <1>1, RequestFields DEF RegistratorType
  <1>4. /\ [r.requests[i] EXCEPT !.answer = answer] \in Request
        /\ [r.requests[i] EXCEPT !.answer = answer].wants = r.requests[i].wants
        /\ [r.requests[i] EXCEPT !.answer = answer].cseq = r.requests[i].cseq
        /\ [r.requests[i] EXCEPT !.answer = answer].answer = answer
    BY <1>3 DEF Request
  <1>5. q \in Seq(Request) /\ Len(q) = Len(r.requests) /\ DOMAIN q = DOMAIN r.requests
    BY <1>3, <1>4, ExceptSeq, LenProperties
  <1>6. /\ u.requests = q /\ SameBeside(u, r) /\ u \in RegistratorType
    BY <1>1, <1>2, <1>5 DEF SameBeside, RegistratorType
  <1>7. \A j \in DOMAIN r.requests :
          /\ q[j].wants = r.requests[j].wants /\ q[j].cseq = r.requests[j].cseq
          /\ q[j].answer = IF j = i THEN answer ELSE r.requests[j].answer
    BY <1>3, <1>4
  <1> HIDE DEF q, u
  <1>8. /\ DOMAIN u.requests = DOMAIN r.requests /\ Len(u.requests) = Len(r.requests)
        /\ \A j \in DOMAIN r.requests :
             /\ Current(u, j) <=> Current(r, j)
             /\ u.requests[j].cseq = r.requests[j].cseq
             /\ u.requests[j].answer = IF j = i THEN answer ELSE r.requests[j].answer
    BY <1>5, <1>6, <1>7 DEF Current, Counts, SameBeside
  <1>9. Outstanding(u) /\ CurrentIsAlone(u)
    BY <1>1, <1>6, <1>8 DEF Outstanding, CurrentIsAlone, SameBeside
  <1>10. TimerIsQuiet(u) /\ RenewalIsCurrent(u)
    <2>1. Quiet(r) <=> Quiet(u)
      BY <1>1, <1>6, <1>8, RequestFields
    <2> QED BY <1>1, <1>6, <1>8, <2>1 DEF TimerIsQuiet, RenewalIsCurrent, SameBeside
  <1>11. ~Quiet(r) /\ Len(r.requests) >= 1
    BY <1>1, <1>3, RequestFields
  <1>12. r.requests[i].wants \in BOOLEAN
    BY <1>3 DEF Request
  <1>13. /\ answer = "2xx" => bound' = r.requests[i].wants
         /\ answer \notin {"2xx", "noContact"} => bound' = bound
         /\ bound' \in BOOLEAN
    BY <1>2, <1>12 DEF Bindings
  <1>14. BeliefIsTrue(u, bound')
    <2>1. ASSUME NEW j \in DOMAIN u.requests, Current(u, j), u.requests[j].answer = "2xx"
          PROVE  bound'
      <3>1. Current(r, j) /\ Len(r.requests) = 1
        BY <1>1, <1>8, <2>1 DEF CurrentIsAlone
      <3>2. j = i
        BY <1>3, <1>8, <2>1, <3>1
      <3> QED BY <1>8, <1>12, <1>13, <2>1, <3>1, <3>2 DEF Current
    <2>2. ASSUME u.registered, ~u.ignored, ~(\E j \in DOMAIN u.requests : u.requests[j].answer = "noContact")
          PROVE  bound'
      <3>1. r.registered /\ ~r.ignored
        BY <1>6, <2>2 DEF SameBeside
      <3>2. Len(r.requests) = 1 /\ Current(r, i)
        <4>1. Len(r.requests) <= 1 /\ Current(r, i)
          BY <1>1, <3>1 DEF RenewalIsCurrent
        <4> DEFINE n == Len(r.requests)
        <4>2. n \in Nat /\ n >= 1 /\ n <= 1
          BY <1>3, <1>11, <4>1
        <4> HIDE DEF n
        <4>3. n = 1
          BY <4>2
        <4> QED BY <4>1, <4>3 DEF n
      <3>3. answer # "noContact"
        BY <1>8, <2>2
      <3>4. \A j \in DOMAIN r.requests : j = i
        BY <1>3, <3>2
      <3>5. bound
        BY <1>1, <1>2, <3>1, <3>4 DEF BeliefIsTrue
      <3> QED BY <1>12, <1>13, <3>2, <3>3, <3>5 DEF Current
    <2> QED BY <2>1, <2>2 DEF BeliefIsTrue
  <1> QED BY <1>6, <1>9, <1>10, <1>11, <1>13, <1>14 DEF Believes, SameBeside, u

(***************************************************************************)
(* The registrator: its type, and what a call or an event leaves alone,     *)
(* whatever the registrar answers.                                          *)
(***************************************************************************)
LEMMA NewType ==
  ASSUME NEW r \in RegistratorType, NEW wants \in BOOLEAN, NEW open \in BOOLEAN, NEW closed \in BOOLEAN
  PROVE  LET u == New(r, wants, open, closed)
         IN /\ u \in RegistratorType /\ (~open => u.requests = r.requests)
            /\ ~r.registered => ~u.registered
  <1> DEFINE next == [r EXCEPT !.cseq = @ + 1]
             told == IF closed THEN Fails(next, wants) ELSE next
             t == IF wants THEN [told EXCEPT !.registering = TRUE] ELSE told
             u == New(r, wants, open, closed)
             m == [wants |-> wants, cseq |-> next.cseq, answer |-> "none", challenged |-> FALSE, staled |-> FALSE]
  <1>1. /\ next \in RegistratorType /\ next.requests = r.requests /\ next.registered = r.registered
        /\ next.cseq \in Nat
    BY DEF RegistratorType
  <1>2. u = IF open THEN Adding(t, m) ELSE Fails(t, wants)
    BY DEF New, Sent, Adding
  <1> HIDE DEF next, u
  <1>3. told \in RegistratorType /\ told.requests = r.requests /\ (~r.registered => ~told.registered)
    BY <1>1, Failing
  <1>4. m \in Request
    BY <1>1 DEF Request
  <1> HIDE DEF told, m
  <1>5. t \in RegistratorType /\ t.requests = r.requests /\ (~r.registered => ~t.registered)
    BY <1>3 DEF RegistratorType
  <1> HIDE DEF t
  <1>6. CASE open
    <2>1. u = Adding(t, m) /\ t \in RegistratorType
      BY <1>2, <1>5, <1>6
    <2>2. u \in RegistratorType /\ SameBeside(u, t)
      BY <1>4, <2>1, Sending
    <2> QED BY <1>5, <1>6, <2>2 DEF SameBeside, u
  <1>7. CASE ~open
    <2>1. u = Fails(t, wants) /\ t \in RegistratorType
      BY <1>2, <1>5, <1>7
    <2>2. u \in RegistratorType /\ ~u.registered /\ u.requests = t.requests
      BY <2>1, Failing
    <2> QED BY <1>5, <2>2 DEF u
  <1> QED BY <1>6, <1>7

LEMMA RegisterType ==
  ASSUME NEW r \in RegistratorType, NEW open \in BOOLEAN, NEW closed \in BOOLEAN
  PROVE  LET u == register(r, open, closed)
         IN /\ u \in RegistratorType /\ (~open => u.requests = r.requests)
            /\ ~r.registered => ~u.registered
  <1> DEFINE t == [r EXCEPT !.crossed = Crossing(r)]
  <1>1. t \in RegistratorType /\ t.requests = r.requests /\ t.registered = r.registered
    BY CrossingType
  <1> HIDE DEF t
  <1> QED BY <1>1, NewType DEF register, t

LEMMA ExpiringType ==
  ASSUME NEW r \in RegistratorType, NEW open \in BOOLEAN, NEW closed \in BOOLEAN
  PROVE  LET u == Expiring(r, open, closed)
         IN /\ u \in RegistratorType /\ (~open => u.requests = r.requests)
            /\ ~r.registered => ~u.registered
  <1>1. [r EXCEPT !.timer = FALSE] \in RegistratorType
    BY DEF RegistratorType
  <1>2. [r EXCEPT !.timer = FALSE].requests = r.requests /\ [r EXCEPT !.timer = FALSE].registered = r.registered
    BY DEF RegistratorType
  <1> QED BY <1>1, <1>2, RegisterType DEF Expiring

LEMMA UnregisterType ==
  ASSUME NEW r \in RegistratorType, NEW open \in BOOLEAN, NEW closed \in BOOLEAN
  PROVE  LET u == unregister(r, open, closed)
         IN /\ u \in RegistratorType /\ (~open => u.requests = r.requests)
            /\ ~r.registered => ~u.registered
  <1> DEFINE t == [r EXCEPT !.registered = FALSE, !.timer = FALSE]
  <1>1. t \in RegistratorType /\ t.requests = r.requests
    BY DEF RegistratorType
  <1>2. unregister(r, open, closed) \in {r, New(t, FALSE, open, closed)}
        /\ (~r.registered => unregister(r, open, closed) = r)
    BY DEF unregister
  <1> HIDE DEF t
  <1>3. LET u == New(t, FALSE, open, closed)
        IN u \in RegistratorType /\ (~open => u.requests = t.requests)
    BY <1>1, NewType
  <1> QED BY <1>1, <1>2, <1>3

LEMMA TimedOutType ==
  ASSUME NEW r \in RegistratorType, ~Quiet(r)
  PROVE  TimedOut(r) \in RegistratorType
  <1>1. 1 \in DOMAIN r.requests /\ r.requests[1].wants \in BOOLEAN
    BY RequestFields DEF Request
  <1> QED BY <1>1, Removal, Failing DEF TimedOut

LEMMA ReceiveType ==
  ASSUME NEW r \in RegistratorType, NEW i \in DOMAIN r.requests, NEW open \in BOOLEAN, NEW closed \in BOOLEAN
  PROVE  _receiveResponse(r, i, open, closed) \in RegistratorType
  <1> DEFINE q == r.requests[i]
             rest == Without(r, i)
             u == _receiveResponse(r, i, open, closed)
             heard == [rest EXCEPT !.timer = FALSE, !.ignored = FALSE]
  <1>1. q.wants \in BOOLEAN /\ q.cseq \in Nat /\ q.staled \in BOOLEAN
    BY RequestFields DEF Request
  <1>2. rest \in RegistratorType
    BY Removal
  <1>3. CASE Authenticates(q)
    <2> DEFINE t == [rest EXCEPT !.cseq = @ + 1]
               m == [wants |-> q.wants, cseq |-> q.cseq + 1, answer |-> "none", challenged |-> TRUE,
                     staled |-> q.staled \/ q.answer = "stale"]
    <2>1. t \in RegistratorType
      <3> HIDE DEF rest
      <3> QED BY <1>2 DEF RegistratorType
    <2>2. m \in Request
      BY <1>1 DEF Request
    <2>3. u = IF open THEN Adding(t, m) ELSE Fails(t, q.wants)
      BY <1>3 DEF _receiveResponse, Sent, Adding
    <2> HIDE DEF t, u, m
    <2>4. Adding(t, m) \in RegistratorType
      BY <2>1, <2>2, Sending
    <2>5. Fails(t, q.wants) \in RegistratorType
      BY <1>1, <2>1, Failing
    <2> QED BY <2>3, <2>4, <2>5 DEF u
  <1>4. CASE ~Authenticates(q)
    <2>1. u \in {rest, _unregistered(rest), Registered(rest, q.answer, open, closed)}
      BY <1>4 DEF _receiveResponse
    <2>2. _unregistered(rest) \in RegistratorType
      BY <1>2, Failing
    <2>3. heard \in RegistratorType
      BY <1>2 DEF RegistratorType
    <2>4. \/ Registered(rest, q.answer, open, closed) = [heard EXCEPT !.registering = FALSE, !.registered = TRUE, !.timer = TRUE]
          \/ Registered(rest, q.answer, open, closed) = [heard EXCEPT !.registering = FALSE, !.ignored = TRUE]
          \/ Registered(rest, q.answer, open, closed) = register(heard, open, closed)
          \/ Registered(rest, q.answer, open, closed) = _registrationFailure(heard)
      BY DEF Registered
    <2> HIDE DEF heard, u
    <2>5. [heard EXCEPT !.registering = FALSE, !.registered = TRUE, !.timer = TRUE] \in RegistratorType
      BY <2>3 DEF RegistratorType
    <2>6. [heard EXCEPT !.registering = FALSE, !.ignored = TRUE] \in RegistratorType
      BY <2>3 DEF RegistratorType
    <2>7. register(heard, open, closed) \in RegistratorType /\ _registrationFailure(heard) \in RegistratorType
      BY <2>3, RegisterType, Failing
    <2> QED BY <1>2, <2>1, <2>2, <2>4, <2>5, <2>6, <2>7 DEF u
  <1> QED BY <1>3, <1>4

LEMMA RingingType ==
  ASSUME NEW r \in RegistratorType, NEW q
  PROVE  Provisional(r, q) \in RegistratorType
  BY DEF Provisional, RegistratorType

LEMMA AnswerType ==
  ASSUME registrator \in RegistratorType, bound \in BOOLEAN, NEW answer \in AllAnswers, Registrar(answer)
  PROVE  registrator' \in RegistratorType /\ bound' \in BOOLEAN /\ ~Quiet(registrator)
  <1> DEFINE r == registrator
  <1>1. PICK i \in DOMAIN r.requests :
          /\ registrator' = [r EXCEPT !.requests[i].answer = answer]
          /\ bound' \in Bindings(r.requests[i], answer)
    BY DEF Registrar, Unanswered
  <1> DEFINE m == [r.requests[i] EXCEPT !.answer = answer]
             q == [r.requests EXCEPT ![i] = m]
  <1>2. r.requests \in Seq(Request) /\ r.requests[i] \in Request /\ i \in 1 .. Len(r.requests)
    BY RequestFields DEF RegistratorType
  <1>3. m \in Request /\ r.requests[i].wants \in BOOLEAN
    BY <1>2 DEF Request
  <1>4. registrator' = [r EXCEPT !.requests = q]
    BY <1>1
  <1> HIDE DEF m
  <1>5. q \in Seq(Request)
    BY <1>2, <1>3, ExceptSeq
  <1> HIDE DEF q
  <1>6. registrator' \in RegistratorType
    BY <1>4, <1>5 DEF RegistratorType
  <1>7. bound' \in BOOLEAN
    BY <1>1, <1>3 DEF Bindings
  <1> QED BY <1>2, <1>6, <1>7, RequestFields

(***************************************************************************)
(* The user agent.                                                          *)
(***************************************************************************)
\* How the user agent, its transport and its registration fit together.
Follows ==
  /\ uaStatus \in {"init", "ready", "closed", "notReady"} /\ closeTimer \in BOOLEAN
  /\ dynRegister \in BOOLEAN /\ bound \in BOOLEAN
  /\ closeTimer => Closed
  /\ uaStatus = "init" => ~transport.recovery_timer /\ transport.status # "connected"
  /\ ~Quiet(registrator) => transport.status = "connected"
  /\ StatusFollows

TypeInv == Sound(transport) /\ registrator \in RegistratorType /\ Follows

LEMMA FollowsInit == Init => TypeInv
  <1> SUFFICES ASSUME Init PROVE TypeInv
    OBVIOUS
  <1>1. Sound(transport) /\ transport.status = "disconnected" /\ ~transport.recovery_timer
    BY InitSound DEF Init
  <1>2. registrator \in RegistratorType /\ bound \in BOOLEAN /\ Quiet(registrator)
    BY InitBelieves DEF Init, Believes, RegistratorInit
  <1> QED BY <1>1, <1>2 DEF Init, TypeInv, Follows, StatusFollows, Closed

\* What the transport's loss does to the registration.
LEMMA Loses ==
  ASSUME TypeInv, NEW r \in RegistratorType, onTransportDisconnect(r)
  PROVE  registrator' \in RegistratorType /\ bound' \in BOOLEAN /\ Quiet(registrator') /\ ~registrator'.registered
  <1>1. \A i \in DOMAIN registrator.requests : registrator.requests[i].wants \in BOOLEAN
    BY RequestFields DEF TypeInv, Request
  <1>2. bound' \in BOOLEAN
    BY <1>1 DEF onTransportDisconnect, Lost, Unanswered, TypeInv, Follows
  <1> QED BY <1>2, Closes DEF onTransportDisconnect, Believes

\* Each step of the user agent keeps it in agreement with its transport.
LEMMA FollowsStep ==
  ASSUME TypeInv, [Next]_vars
  PROVE  TypeInv'
  <1> USE DEF Closed
  <1>0. /\ Sound(transport) /\ registrator \in RegistratorType /\ Follows /\ StatusFollows
        /\ Open \in BOOLEAN /\ Closed \in BOOLEAN
        /\ transport.status # "connected" => ~Open
    BY DEF TypeInv, Follows, Open, CanSend
  <1>1. CASE start
    <2>1. CASE /\ uaStatus = "init" \/ (Closed /\ ~closeTimer)
               /\ uaStatus' = "init"
               /\ transport' = connect(transport)
               /\ UNCHANGED <<registrator, bound>>
      <3>1. ~transport.recovery_timer /\ transport.status # "connected"
        BY <1>0, <2>1 DEF Follows, StatusFollows
      <3>2. Sound(transport') /\ ~transport'.recovery_timer /\ transport'.status # "connected"
        BY <1>0, <2>1, <3>1, Connects
      <3> QED BY <1>0, <1>1, <2>1, <3>1, <3>2, UserAgentAssumption DEF start, TypeInv, Follows, StatusFollows
    <2>2. CASE /\ Closed /\ closeTimer
               /\ uaStatus' = "init"
               /\ transport' = connect(disconnect(transport))
               /\ onTransportDisconnect(registrator)
      <3>1. Sound(transport') /\ ~transport'.recovery_timer /\ transport'.status # "connected"
        BY <1>0, <2>2, Connects, Disconnects
      <3>2. registrator' \in RegistratorType /\ bound' \in BOOLEAN /\ Quiet(registrator')
        BY <1>0, <2>2, Loses
      <3> QED BY <1>1, <2>2, <3>1, <3>2, UserAgentAssumption DEF start, TypeInv, Follows, StatusFollows
    <2>3. CASE /\ uaStatus \in {"ready", "notReady"}
               /\ UNCHANGED <<uaStatus, transport, registrator, bound>>
      BY <1>0, <1>1, <2>3, UserAgentAssumption DEF start, TypeInv, Follows, StatusFollows
    <2> QED BY <1>1, <2>1, <2>2, <2>3 DEF start
  <1> DEFINE Steady == /\ UNCHANGED <<transport, bound, uaStatus, closeTimer>> /\ dynRegister' \in BOOLEAN
                       /\ registrator' \in RegistratorType
                       /\ ~Open => registrator'.requests = registrator.requests
                       /\ ~registrator.registered => ~registrator'.registered
  <1>2. ASSUME Steady
        PROVE  TypeInv'
    BY <1>0, <1>2 DEF TypeInv, Follows, StatusFollows, Quiet
  <1>3. CASE Register
    BY <1>0, <1>2, <1>3, RegisterType DEF Register
  <1>4. CASE Unregister
    BY <1>0, <1>2, <1>4, UnregisterType DEF Unregister
  <1>5. CASE RegistrationTimer
    BY <1>0, <1>2, <1>5, ExpiringType DEF RegistrationTimer, Follows
  <1>6. ASSUME NEW busy \in BOOLEAN, stop(busy)
        PROVE  TypeInv'
    <2> DEFINE r == close(registrator, Open)
    <2>1. r \in RegistratorType /\ (~Open => r.requests = registrator.requests)
      BY <1>0, UnregisterType DEF close
    <2>2. CASE Closed
      BY <1>0, <1>6, <2>2 DEF stop, TypeInv, Follows, StatusFollows
    <2>3. CASE ~Closed /\ StopAtOnce(r, busy)
      <3>1. /\ uaStatus' = "closed" /\ transport' = disconnect(transport) /\ onTransportDisconnect(r)
            /\ UNCHANGED closeTimer /\ dynRegister' = FALSE
        BY <1>6, <2>3 DEF stop
      <3>2. registrator' \in RegistratorType /\ bound' \in BOOLEAN /\ Quiet(registrator') /\ ~registrator'.registered
        BY <1>0, <2>1, <3>1, Loses
      <3>3. /\ Sound(transport') /\ ~transport'.recovery_timer
            /\ transport'.status = "disconnected" /\ transport'.close_requested
        BY <1>0, <3>1, Disconnects
      <3> QED BY <1>0, <3>1, <3>2, <3>3 DEF TypeInv, Follows, StatusFollows
    <2>4. CASE ~Closed /\ ~StopAtOnce(r, busy)
      <3>1. /\ uaStatus' = "closed" /\ closeTimer' = TRUE /\ registrator' = r /\ dynRegister' = FALSE
            /\ UNCHANGED <<transport, bound>>
        BY <1>6, <2>4 DEF stop
      <3> QED BY <1>0, <2>1, <3>1 DEF TypeInv, Follows, StatusFollows, Quiet
    <2> QED BY <2>2, <2>3, <2>4
  <1>7. CASE CloseTimer
    <2>1. registrator' \in RegistratorType /\ bound' \in BOOLEAN /\ Quiet(registrator') /\ ~registrator'.registered
      BY <1>0, <1>7, Loses DEF CloseTimer
    <2>2. /\ Sound(transport') /\ ~transport'.recovery_timer
          /\ transport'.status = "disconnected" /\ transport'.close_requested
      BY <1>0, <1>7, Disconnects DEF CloseTimer
    <2> QED BY <1>0, <1>7, <2>1, <2>2 DEF CloseTimer, AfterLoss, TypeInv, Follows, StatusFollows
  <1>8. CASE RecoveryTimer
    <2>1. Sound(transport') /\ ~transport'.recovery_timer /\ transport'.status = "connecting"
          /\ transport.status = "disconnected"
      BY <1>0, <1>8, RecoveryConnects DEF RecoveryTimer
    <2> QED BY <1>0, <1>8, <2>1 DEF RecoveryTimer, TypeInv, Follows, StatusFollows
  <1>9. CASE RequestTimer
    <2>1. registrator' \in RegistratorType
      BY <1>0, <1>9, TimedOutType DEF RequestTimer
    <2> QED BY <1>0, <1>9, <2>1 DEF RequestTimer, TypeInv, Follows, StatusFollows
  <1>10. ASSUME NEW s \in Sockets, WsOpen(s)
         PROVE  TypeInv'
    <2>1. /\ Sound(transport') /\ ~transport'.recovery_timer
          /\ transport'.status = "connected" /\ transport.status # "connected"
          /\ transport.status # "disconnected"
      BY <1>0, <1>10, SocketOpens DEF WsOpen, Sound, OneWs, Under, TransportType
    <2>2. registrator' \in RegistratorType
      BY <1>0, <1>10, RegisterType DEF WsOpen, CanSend
    <2> QED BY <1>0, <1>10, <2>1, <2>2 DEF WsOpen, TypeInv, Follows, StatusFollows
  <1>11. ASSUME NEW s \in Sockets, WsClosing(s)
         PROVE  TypeInv'
    <2>1. /\ Sound(transport') /\ transport'.recovery_timer = transport.recovery_timer
          /\ transport'.status = transport.status /\ transport'.close_requested = transport.close_requested
      BY <1>0, <1>11, SocketIsClosing DEF WsClosing
    <2> QED BY <1>0, <1>11, <2>1 DEF WsClosing, TypeInv, Follows, StatusFollows
  <1>12. ASSUME NEW s \in Sockets, WsClose(s)
         PROVE  TypeInv'
    <2>1. Sound(transport') /\ transport'.status = "disconnected" /\ transport.status # "disconnected"
      BY <1>0, <1>12, SocketCloses DEF WsClose
    <2>2. registrator' \in RegistratorType /\ bound' \in BOOLEAN /\ Quiet(registrator') /\ ~registrator'.registered
      BY <1>0, <1>12, Loses DEF WsClose
    <2> QED BY <1>0, <1>12, <2>1, <2>2 DEF WsClose, AfterLoss, TypeInv, Follows, StatusFollows
  <1>13. ASSUME NEW answer \in Answers, Answer(answer)
         PROVE  TypeInv'
    <2>1. registrator' \in RegistratorType /\ bound' \in BOOLEAN /\ ~Quiet(registrator)
      BY <1>0, <1>13, AnswersAssumption, AnswerType DEF Answer, Follows
    <2> QED BY <1>0, <1>13, <2>1 DEF Answer, TypeInv, Follows, StatusFollows
  <1>14. ASSUME NEW i \in DOMAIN registrator.requests, Ringing(i) \/ Receive(i)
         PROVE  TypeInv'
    <2>1. registrator' \in RegistratorType
      BY <1>0, <1>14, RingingType, ReceiveType DEF Ringing, Receive
    <2>2. ~Quiet(registrator)
      BY EmptySeq DEF Quiet
    <2> QED BY <1>0, <1>14, <2>1, <2>2 DEF Ringing, Receive, Reached, TypeInv, Follows, StatusFollows
  <1>15. CASE UNCHANGED vars
    BY <1>0, <1>15 DEF vars, TypeInv, Follows, StatusFollows
  <1> QED BY <1>1, <1>3, <1>4, <1>5, <1>6, <1>7, <1>8, <1>9, <1>10, <1>11, <1>12, <1>13, <1>14, <1>15 DEF Next

\* The timer of the registration runs out: nothing is under way, or what is will count.
LEMMA Expires ==
  ASSUME NEW r, NEW b \in BOOLEAN, Believes(r, b), r.timer, NEW open \in BOOLEAN, NEW closed \in BOOLEAN
  PROVE  Believes(Expiring(r, open, closed), b)
  <1> DEFINE t == [r EXCEPT !.timer = FALSE]
  <1>1. r \in RegistratorType /\ TimerIsQuiet(r)
    BY DEF Believes
  <1>2. CASE r.registering
    <2>1. Expiring(r, open, closed) = t
      BY <1>1, <1>2 DEF Expiring, register, RegistratorType
    <2>2. /\ t \in RegistratorType /\ t.requests = r.requests /\ t.registered = r.registered
          /\ t.registering = r.registering /\ t.cseq = r.cseq /\ t.ignored = r.ignored /\ ~t.timer
      BY <1>1 DEF RegistratorType
    <2> HIDE DEF t
    <2>3. Outstanding(t) /\ CurrentIsAlone(t) /\ TimerIsQuiet(t) /\ RenewalIsCurrent(t)
      BY <1>2, <2>2 DEF Believes, Outstanding, Current, Counts, CurrentIsAlone, TimerIsQuiet, RenewalIsCurrent
    <2>4. BeliefIsTrue(t, b)
      BY <2>2 DEF Believes, BeliefIsTrue, Current, Counts
    <2> QED BY <2>1, <2>2, <2>3, <2>4 DEF Believes
  <1>3. CASE ~r.registering
    <2>1. Quiet(r)
      BY <1>1, <1>3 DEF TimerIsQuiet
    <2>2. r.registered /\ ~r.ignored => b
      BY <2>1, EmptySeq DEF Quiet, Believes, BeliefIsTrue
    <2> DEFINE v == [t EXCEPT !.crossed = Crossing(t)]
    <2>3. Expiring(r, open, closed) = New(v, TRUE, open, closed)
      BY <1>1, <1>3 DEF Expiring, register, RegistratorType
    <2>4. t \in RegistratorType /\ Quiet(t) /\ (t.registered /\ ~t.ignored => b)
      BY <1>1, <2>1, <2>2 DEF RegistratorType, Quiet
    <2> HIDE DEF t
    <2>5. v \in RegistratorType /\ Quiet(v) /\ (v.registered /\ ~v.ignored => b)
      BY <2>4, CrossingType DEF Quiet
    <2> HIDE DEF v
    <2> QED BY <2>3, <2>5, NewRegisters
  <1> QED BY <1>2, <1>3

\* No other call or event than register() marks a registrator, or takes the mark away.
LEMMA NewMark ==
  ASSUME NEW r \in RegistratorType, NEW wants \in BOOLEAN, NEW open \in BOOLEAN, NEW closed \in BOOLEAN
  PROVE  New(r, wants, open, closed).crossed = r.crossed
  <1> DEFINE next == [r EXCEPT !.cseq = @ + 1]
             told == IF closed THEN Fails(next, wants) ELSE next
             t == IF wants THEN [told EXCEPT !.registering = TRUE] ELSE told
             m == [wants |-> wants, cseq |-> next.cseq, answer |-> "none", challenged |-> FALSE, staled |-> FALSE]
             u == New(r, wants, open, closed)
  <1>1. next \in RegistratorType /\ next.crossed = r.crossed /\ next.cseq \in Nat
    BY DEF RegistratorType
  <1>2. u = IF open THEN Adding(t, m) ELSE Fails(t, wants)
    BY DEF New, Sent, Adding
  <1>3. m \in Request
    BY <1>1 DEF Request
  <1> HIDE DEF next, u, m
  <1>4. told \in RegistratorType /\ told.crossed = r.crossed
    BY <1>1, Failing
  <1> HIDE DEF told
  <1>5. t \in RegistratorType /\ t.crossed = r.crossed
    BY <1>4 DEF RegistratorType
  <1> HIDE DEF t
  <1>6. Adding(t, m).crossed = t.crossed
    BY <1>3, <1>5, Sending DEF SameBeside
  <1>7. Fails(t, wants).crossed = t.crossed
    BY <1>5, Failing
  <1> QED BY <1>2, <1>5, <1>6, <1>7 DEF u

\* A registration that starts anew owes nothing to what was believed before.
LEMMA StartsAnew ==
  ASSUME NEW r \in RegistratorType, NEW b \in BOOLEAN, r.crossed, NEW open \in BOOLEAN, NEW closed \in BOOLEAN
  PROVE  LET u == register(r, open, closed)
         IN u.crossed \/ Believes(u, b)
  <1> DEFINE t == [r EXCEPT !.crossed = Crossing(r)]
  <1>1. /\ t \in RegistratorType /\ t.crossed = Crossing(r) /\ t.registered = r.registered
        /\ Quiet(t) <=> Quiet(r)
    BY CrossingType DEF Quiet
  <1> HIDE DEF t
  <1>2. New(t, TRUE, open, closed).crossed = t.crossed
    BY <1>1, NewMark
  <1>3. ~t.crossed => Believes(New(t, TRUE, open, closed), b)
    BY <1>1, NewRegisters DEF Crossing
  <1> QED BY <1>1, <1>2, <1>3 DEF register, t

\* What is done to a registrator that bears the mark.
LEMMA MarkStays ==
  ASSUME NEW r \in RegistratorType, NEW b \in BOOLEAN, r.crossed, NEW open \in BOOLEAN, NEW closed \in BOOLEAN
  PROVE  /\ unregister(r, open, closed).crossed
         /\ ~Quiet(r) => TimedOut(r).crossed
         /\ \A q : Provisional(r, q).crossed
         /\ Expiring(r, open, closed).crossed \/ Believes(Expiring(r, open, closed), b)
  <1>1. unregister(r, open, closed).crossed
    <2> DEFINE t == [r EXCEPT !.registered = FALSE, !.timer = FALSE]
    <2>1. t \in RegistratorType /\ t.crossed
      BY DEF RegistratorType
    <2>2. unregister(r, open, closed) \in {r, New(t, FALSE, open, closed)}
      BY DEF unregister
    <2> HIDE DEF t
    <2>3. New(t, FALSE, open, closed).crossed
      BY <2>1, NewMark
    <2> QED BY <2>2, <2>3
  <1>2. ASSUME ~Quiet(r)
        PROVE  TimedOut(r).crossed
    <2>1. 1 \in DOMAIN r.requests /\ r.requests[1].wants \in BOOLEAN
      BY <1>2, RequestFields DEF Request
    <2> QED BY <2>1, Removal, Failing DEF TimedOut, SameBeside
  <1>3. \A q : Provisional(r, q).crossed
    BY DEF Provisional, RegistratorType
  <1>4. Expiring(r, open, closed).crossed \/ Believes(Expiring(r, open, closed), b)
    <2>1. [r EXCEPT !.timer = FALSE] \in RegistratorType /\ [r EXCEPT !.timer = FALSE].crossed
      BY DEF RegistratorType
    <2> QED BY <2>1, StartsAnew DEF Expiring
  <1> QED BY <1>1, <1>2, <1>3, <1>4

\* A challenged request's CSeq is the registrator's from then on.
LEMMA CountedOn ==
  ASSUME NEW r \in RegistratorType
  PROVE  LET t == [r EXCEPT !.cseq = @ + 1]
         IN t \in RegistratorType /\ t.crossed = r.crossed
  BY DEF RegistratorType

LEMMA ReceiveMark ==
  ASSUME NEW r \in RegistratorType, NEW b \in BOOLEAN, r.crossed, NEW i \in DOMAIN r.requests,
         NEW open \in BOOLEAN, NEW closed \in BOOLEAN
  PROVE  LET u == _receiveResponse(r, i, open, closed)
         IN u.crossed \/ Believes(u, b)
  <1> DEFINE q == r.requests[i]
             rest == Without(r, i)
             u == _receiveResponse(r, i, open, closed)
             heard == [rest EXCEPT !.timer = FALSE, !.ignored = FALSE]
  <1>1. q.wants \in BOOLEAN /\ q.cseq \in Nat /\ q.staled \in BOOLEAN
    BY RequestFields DEF Request
  <1>2. rest \in RegistratorType /\ rest.crossed
    BY Removal DEF SameBeside
  <1>3. CASE Authenticates(q)
    <2> DEFINE t == [rest EXCEPT !.cseq = @ + 1]
               m == [wants |-> q.wants, cseq |-> q.cseq + 1, answer |-> "none", challenged |-> TRUE,
                     staled |-> q.staled \/ q.answer = "stale"]
    <2>1. t \in RegistratorType /\ t.crossed
      BY <1>2, CountedOn
    <2>2. m \in Request
      BY <1>1 DEF Request
    <2>3. u = IF open THEN Adding(t, m) ELSE Fails(t, q.wants)
      BY <1>3 DEF _receiveResponse, Sent, Adding
    <2> HIDE DEF t, u, m
    <2>4. Adding(t, m).crossed
      BY <2>1, <2>2, Sending DEF SameBeside
    <2>5. Fails(t, q.wants).crossed
      BY <1>1, <2>1, Failing
    <2> QED BY <2>3, <2>4, <2>5 DEF u
  <1>4. CASE ~Authenticates(q)
    <2>1. u \in {rest, _unregistered(rest), Registered(rest, q.answer, open, closed)}
      BY <1>4 DEF _receiveResponse
    <2>2. _unregistered(rest).crossed
      BY <1>2, Failing
    <2>3. heard \in RegistratorType /\ heard.crossed
      <3> HIDE DEF rest
      <3> QED BY <1>2 DEF RegistratorType
    <2>4. \/ Registered(rest, q.answer, open, closed) = [heard EXCEPT !.registering = FALSE, !.registered = TRUE, !.timer = TRUE]
          \/ Registered(rest, q.answer, open, closed) = [heard EXCEPT !.registering = FALSE, !.ignored = TRUE]
          \/ Registered(rest, q.answer, open, closed) = register(heard, open, closed)
          \/ Registered(rest, q.answer, open, closed) = _registrationFailure(heard)
      BY DEF Registered
    <2> HIDE DEF heard, u
    <2>5. /\ [heard EXCEPT !.registering = FALSE, !.registered = TRUE, !.timer = TRUE].crossed
          /\ [heard EXCEPT !.registering = FALSE, !.ignored = TRUE].crossed
      BY <2>3 DEF RegistratorType
    <2>6. _registrationFailure(heard).crossed
      BY <2>3, Failing
    <2>7. register(heard, open, closed).crossed \/ Believes(register(heard, open, closed), b)
      BY <2>3, StartsAnew
    <2> QED BY <1>2, <2>1, <2>2, <2>4, <2>5, <2>6, <2>7 DEF u
  <1> QED BY <1>3, <1>4

LEMMA AnswerMark ==
  ASSUME registrator \in RegistratorType, NEW answer, Registrar(answer)
  PROVE  registrator'.crossed = registrator.crossed
  BY DEF Registrar, RegistratorType

\* Until register() is called over a request that is not answered.
Trusted(r, b) == r.crossed \/ Believes(r, b)

LEMMA TrustedRegisters ==
  ASSUME NEW r \in RegistratorType, NEW b \in BOOLEAN, Trusted(r, b), NEW open \in BOOLEAN, NEW closed \in BOOLEAN
  PROVE  Trusted(register(r, open, closed), b)
  <1>1. CASE r.crossed
    BY <1>1, StartsAnew DEF Trusted
  <1>2. CASE Believes(r, b) /\ (r.registering \/ Quiet(r))
    BY <1>2, Registers DEF Trusted
  <1>3. CASE ~r.registering /\ ~Quiet(r)
    <2> DEFINE t == [r EXCEPT !.crossed = Crossing(r)]
    <2>1. t \in RegistratorType /\ t.crossed
      BY <1>3, CrossingType DEF Crossing
    <2> HIDE DEF t
    <2>2. New(t, TRUE, open, closed).crossed = t.crossed
      BY <2>1, NewMark
    <2> QED BY <1>3, <2>1, <2>2 DEF Trusted, register, t
  <1> QED BY <1>1, <1>2, <1>3 DEF Trusted

\* Each step leaves what the registrator believes true, as long as no 423 is answered.
LEMMA BelievesStep ==
  ASSUME "423" \notin Answers, TypeInv, Trusted(registrator, bound), [Next]_vars
  PROVE  Trusted(registrator', bound')
  <1>0. /\ registrator \in RegistratorType /\ bound \in BOOLEAN /\ Follows
        /\ Open \in BOOLEAN /\ Closed \in BOOLEAN
    BY DEF TypeInv, Follows, Open, CanSend, Closed
  <1>1. ASSUME NEW r \in RegistratorType, onTransportDisconnect(r)
        PROVE  Trusted(registrator', bound')
    <2>1. bound' \in BOOLEAN
      BY <1>1, Loses
    <2> QED BY <1>1, <2>1, Closes DEF onTransportDisconnect, Trusted
  <1>2. CASE start
    BY <1>0, <1>1, <1>2 DEF start
  <1>3. CASE Register
    BY <1>0, <1>3, TrustedRegisters DEF Register
  <1>4. CASE Unregister
    BY <1>0, <1>4, Unregisters, MarkStays DEF Unregister, Trusted
  <1>5. ASSUME NEW busy \in BOOLEAN, stop(busy)
        PROVE  Trusted(registrator', bound')
    <2>1. close(registrator, Open) \in RegistratorType /\ Trusted(close(registrator, Open), bound)
      <3>1. close(registrator, Open) = unregister(registrator, Open, FALSE)
        BY DEF close
      <3>2. unregister(registrator, Open, FALSE) \in RegistratorType
        BY <1>0, UnregisterType
      <3>3. CASE registrator.crossed
        BY <1>0, <3>1, <3>2, <3>3, MarkStays DEF Trusted
      <3>4. CASE Believes(registrator, bound)
        BY <1>0, <3>1, <3>2, <3>4, Unregisters DEF Trusted
      <3> QED BY <3>3, <3>4 DEF Trusted
    <2> QED BY <1>0, <1>1, <1>5, <2>1 DEF stop
  <1>6. CASE CloseTimer
    BY <1>0, <1>1, <1>6 DEF CloseTimer
  <1>7. CASE RecoveryTimer
    BY <1>7 DEF RecoveryTimer
  <1>8. CASE RegistrationTimer
    BY <1>0, <1>8, Expires, MarkStays DEF RegistrationTimer, Trusted
  <1>9. CASE RequestTimer
    BY <1>0, <1>9, TimesOut, MarkStays DEF RequestTimer, Trusted
  <1>10. ASSUME NEW s \in Sockets, WsOpen(s)
         PROVE  Trusted(registrator', bound')
    BY <1>0, <1>10, TrustedRegisters DEF WsOpen, CanSend
  <1>11. ASSUME NEW s \in Sockets, WsClosing(s)
         PROVE  Trusted(registrator', bound')
    BY <1>11 DEF WsClosing
  <1>12. ASSUME NEW s \in Sockets, WsClose(s)
         PROVE  Trusted(registrator', bound')
    BY <1>0, <1>1, <1>12 DEF WsClose
  <1>13. ASSUME NEW answer \in Answers, Answer(answer)
         PROVE  Trusted(registrator', bound')
    BY <1>0, <1>13, AnswersAssumption, Answering, AnswerMark DEF Answer, Trusted
  <1>14. ASSUME NEW i \in DOMAIN registrator.requests, Ringing(i) \/ Receive(i)
         PROVE  Trusted(registrator', bound')
    BY <1>0, <1>14, Rings, Receives, MarkStays, ReceiveMark DEF Ringing, Receive, Trusted
  <1>15. CASE UNCHANGED vars
    BY <1>15 DEF vars
  <1> QED BY <1>2, <1>3, <1>4, <1>5, <1>6, <1>7, <1>8, <1>9, <1>10, <1>11, <1>12, <1>13, <1>14, <1>15 DEF Next

(***************************************************************************)
(* The theorems.                                                            *)
(***************************************************************************)
LEMMA ConnectionInv == Spec => []TypeInv
  <1>1. Init => TypeInv
    BY FollowsInit
  <1>2. TypeInv /\ [Next]_vars => TypeInv'
    BY FollowsStep
  <1> QED BY <1>1, <1>2, PTL DEF Spec

(* Every variable keeps its type, and there is never a second WebSocket, nor a
   recovery timer that could open one: with any number of servers of any weight,
   whatever the browser refuses and however often the user agent is stopped. *)
THEOREM ConnectionIsSound == Spec => [](TypeOK /\ OneWebSocket)
  <1>1. TypeInv => TypeOK /\ OneWebSocket
    BY DEF TypeInv, Follows, Sound, OneWs, TypeOK, OneWebSocket
  <1> QED BY <1>1, ConnectionInv, PTL

(* The user agent is ready exactly while its transport is connected and nobody has
   stopped it; stopped, and the close timer over, it leaves no connection, no
   recovery and no registration, whatever the registrar answers and when. *)
THEOREM StatusIsTrue == Spec => []StatusFollows
  <1>1. TypeInv => StatusFollows
    BY DEF TypeInv, Follows
  <1> QED BY <1>1, ConnectionInv, PTL

(* What the registrator believes of its registration is true, and the registration
   is renewed, whatever is lost, late or answered with a challenge, until register()
   is called over a request that is not answered, and again once a registration
   starts anew - unless the registrar answers 423: register() is then refused as one
   in progress, and the registration runs out (see AttemptsAgain). *)
THEOREM RegistrationStaysTrue ==
  ASSUME "423" \notin Answers
  PROVE  Spec => []RegistrationIsTrue
  <1> DEFINE Inv == TypeInv /\ Trusted(registrator, bound)
  <1>1. Init => Inv
    BY FollowsInit, InitBelieves DEF Init, Trusted
  <1>2. Inv /\ [Next]_vars => Inv'
    BY FollowsStep, BelievesStep
  <1>3. Inv => RegistrationIsTrue
    <2> SUFFICES ASSUME TypeInv, Believes(registrator, bound) PROVE RegisteredIsBound /\ RenewedInTime
      BY DEF Trusted, RegistrationIsTrue
    <2>1. Quiet(registrator) => DOMAIN registrator.requests = {}
      BY EmptySeq DEF Quiet
    <2>2. RegisteredIsBound
      BY <2>1 DEF Believes, BeliefIsTrue, RegisteredIsBound
    <2>3. Len(registrator.requests) = 1 => 1 \in DOMAIN registrator.requests
      BY RequestFields DEF TypeInv
    <2>4. RenewedInTime
      BY <2>3 DEF Believes, RenewalIsCurrent, RenewedInTime, Current
    <2> QED BY <2>2, <2>4
  <1> QED BY <1>1, <1>2, <1>3, PTL DEF Spec
=============================================================================
