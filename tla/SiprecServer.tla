----------------------------- MODULE SiprecServer -----------------------------
(***************************************************************************)
(* simple_srs, the recording server behind mod_siprec.  FreeSWITCH opens a *)
(* recording session with an INVITE, which the server answers with the     *)
(* ports it has bound for the streams, and ends it with a BYE.  Both       *)
(* parties' RTP comes to the one port of an m= line, from two source       *)
(* ports.  The epoll thread reads every socket: SIP texts go to a queue,   *)
(* under a mutex, RTP is written to a FILE at once.  The main thread takes *)
(* texts from the queue and keeps the map of calls, which the epoll thread *)
(* reads without a lock.  When a call is removed, a detached thread        *)
(* converts its files.                                                     *)
(*                                                                         *)
(* One step of a thread is a stretch of its code in which no other thread  *)
(* can tell the difference.                                                *)
(***************************************************************************)
EXTENDS Integers, Sequences, FiniteSets

CONSTANTS
  Calls,     \* Call-IDs, one recording session each
  Lines,     \* m= lines of an INVITE: one for both parties, or one for each
  Addr,      \* the address a session's FreeSWITCH sends its SIP texts from
  Law,       \* the law of the RTP; INVITEs always offer "ulaw"
  Talkers,   \* the streams that are voiced
  NFd,       \* descriptors left for RTP sockets and recordings
  MaxRetry,  \* requests FreeSWITCH may send again
  MaxLoss,   \* messages the network may lose
  InOrder,   \* requests of a session are delivered in the order sent
  None

Side == {"a", "b"}
Stream == Calls \X Side
Line == 1 .. Lines
Index == {0, 1}
File == Calls \X Line \X Index
Request == [method : {"INVITE", "ACK", "BYE"}, call : Calls]

ASSUME ConstantsAssumption ==
  /\ Lines \in {1, 2}
  /\ Calls \subseteq DOMAIN Addr
  /\ Law \in {"alaw", "ulaw"}
  /\ Talkers \subseteq Stream
  /\ NFd \in Nat /\ MaxRetry \in Nat /\ MaxLoss \in Nat
  /\ InOrder \in BOOLEAN
  /\ None \notin Side
  /\ \A s \in Stream : None # s
  /\ \A S \in SUBSET Stream : None # S
  /\ \A m \in Request : None # m
  /\ \A c \in Calls : None # Addr[c]

VARIABLES
  \* shared by the threads
  up,              \* the process has not been killed by a fault
  g_siprec_addr,   \* the sender of the last SIP text
  g_siprec_queue,  \* texts the main thread has to handle
  g_call_factory,  \* Call-ID to call object, 0 if there is none
  objs,            \* the call objects, in order of creation
  \* the threads
  main,            \* [pc, msg, obj]
  epoll,           \* [pc, obj, index, from]
  jobs,            \* files the conversion threads have yet to do
  \* the kernel and the disk
  bound,           \* <<o, l>>: the RTP socket of line l of object o is bound
  rq,              \* <<o, l, s>>: packets of s wait in that socket
  raw, wav,        \* the streams a recording, and its conversion, hold
  \* FreeSWITCH and the network
  session,         \* "idle", "inviting", "up", "byeing" or "done"
  net,             \* requests in flight
  answers,         \* responses in flight
  lost, retries    \* what has been lost and sent again so far

shared == <<up, g_siprec_addr, g_siprec_queue>>
calls == <<g_call_factory, objs>>
threads == <<main, epoll, jobs>>
kernel == <<bound, rq>>
disk == <<raw, wav>>
outside == <<session, net, answers, lost, retries>>
vars == <<up, g_siprec_addr, g_siprec_queue, g_call_factory, objs, main, epoll,
          jobs, bound, rq, raw, wav, session, net, answers, lost, retries>>

------------------------------------------------------------------------------
(* Messages.                                                                *)

Answer == [method : {"INVITE", "BYE"}, call : Calls, to : {Addr[c] : c \in Calls}]

Req(method, c) == [method |-> method, call |-> c]

SendRank(m) == CASE m.method = "INVITE" -> 0 [] m.method = "ACK" -> 1 [] OTHER -> 2

------------------------------------------------------------------------------
(* Call objects.  The FILE of a recording was never opened (or could not    *)
(* be), is open, is open on a file that was removed, or is closed.          *)

FileState == {"null", "open", "unlinked", "closed"}

MediaInfoType == [rtp_sock : 0 .. Lines, src_port : [Index -> Side \cup {None}],
                  codec : {"alaw", "ulaw"}, fh : [Index -> FileState]]
CallType == [cid : Calls, alive : BOOLEAN, media_list : [Line -> MediaInfoType]]

\* A socket is known by the line of the object it was made for; 0 if bind failed.
MediaInfo(sock) ==
  [rtp_sock |-> sock, src_port |-> [i \in Index |-> None], codec |-> "ulaw",
   fh |-> [i \in Index |-> "null"]]

OpenFiles == {h \in (DOMAIN objs) \X Line \X Index :
                objs[h[1]].media_list[h[2]].fh[h[3]] \in {"open", "unlinked"}}
FreeFds == NFd - Cardinality(bound) - Cardinality(OpenFiles)

\* mutant: counts from 0

\* The first n of the lines 1 .. Lines get a socket when n descriptors are left.
SocketsFor(n) == {l \in Line : l <= n}

SipRecCall(c) ==
  [cid |-> c, alive |-> TRUE,
   media_list |-> [l \in Line |-> MediaInfo(IF l \in SocketsFor(FreeFds) THEN l ELSE 0)]]

\* The files of a call in the order start_recording opens them; a name is that
\* of the Call-ID, the line and the index, so a file may be there already.
OpenedFirst(l, i) == 2 * (l - 1) + i < FreeFds

------------------------------------------------------------------------------
Init ==
  /\ up = TRUE
  /\ g_siprec_addr = None
  /\ g_siprec_queue = <<>>
  /\ g_call_factory = [c \in Calls |-> 0]
  /\ objs = <<>>
  /\ main = [pc |-> "wait", msg |-> None, obj |-> 0]
  /\ epoll = [pc |-> "idle", obj |-> 0, index |-> 0, from |-> None]
  /\ jobs = {}
  /\ bound = {}
  /\ rq = {}
  /\ raw = [f \in File |-> None]
  /\ wav = [f \in File |-> None]
  /\ session = [c \in Calls |-> "idle"]
  /\ net = {}
  /\ answers = {}
  /\ lost = {}
  /\ retries = 0

------------------------------------------------------------------------------
(* FreeSWITCH and the network.                                              *)

\* the siprec application is executed
StartSession(c) ==
  /\ session[c] = "idle"
  /\ session' = [session EXCEPT ![c] = "inviting"]
  /\ net' = net \cup {Req("INVITE", c)}
  /\ UNCHANGED <<shared, calls, threads, kernel, disk, answers, lost, retries>>

HangUp(c) ==
  /\ session[c] = "up"
  /\ session' = [session EXCEPT ![c] = "byeing"]
  /\ net' = net \cup {Req("BYE", c)}
  /\ UNCHANGED <<shared, calls, threads, kernel, disk, answers, lost, retries>>

\* A request that is not answered yet is sent again.
Retransmit(c) ==
  /\ retries < MaxRetry
  /\ \/ session[c] = "inviting" /\ net' = net \cup {Req("INVITE", c)}
     \/ session[c] = "byeing" /\ net' = net \cup {Req("BYE", c)}
  /\ retries' = retries + 1
  /\ UNCHANGED <<shared, calls, threads, kernel, disk, session, answers, lost>>

\* ... and after the last time the session is given up.
GiveUp(c) ==
  /\ retries = MaxRetry
  /\ session[c] \in {"inviting", "byeing"}
  /\ \E n \in 1 .. MaxLoss : <<c, n>> \in lost
  /\ session' = [session EXCEPT ![c] = "done"]
  /\ UNCHANGED <<shared, calls, threads, kernel, disk, net, answers, lost, retries>>

\* A response reaches the FreeSWITCH that waits for it.
GetOk(r) ==
  LET c == r.call
  IN  /\ r.to = Addr[c]
      /\ answers' = answers \ {r}
      /\ \/ /\ r.method = "INVITE" /\ session[c] = "inviting"
            /\ session' = [session EXCEPT ![c] = "up"]
            /\ net' = net \cup {Req("ACK", c)}
         \/ /\ r.method = "INVITE" /\ session[c] \in {"up", "byeing"}
            /\ net' = net \cup {Req("ACK", c)}
            /\ UNCHANGED session
         \/ /\ r.method = "BYE" /\ session[c] = "byeing"
            /\ session' = [session EXCEPT ![c] = "done"]
            /\ UNCHANGED net
         \/ /\ session[c] = "done"
            /\ UNCHANGED <<session, net>>
      /\ UNCHANGED <<shared, calls, threads, kernel, disk, lost, retries>>

Lose(m) ==
  /\ m \in net \cup answers
  /\ Cardinality(lost) < MaxLoss
  /\ lost' = lost \cup {<<m.call, Cardinality(lost) + 1>>}
  /\ net' = net \ {m}
  /\ answers' = answers \ {m}
  /\ UNCHANGED <<shared, calls, threads, kernel, disk, session, retries>>

LineOf(s) == IF Lines = 2 /\ s[2] = "b" THEN 2 ELSE 1

\* A packet arrives: the socket bound last to the port of its line queues it
\* (SO_REUSEADDR lets a second INVITE bind the port again).
SendRtp(s) ==
  /\ up
  /\ s \in Talkers
  /\ session[s[1]] = "up"
  /\ \E o \in DOMAIN objs :
       /\ objs[o].cid = s[1]
       /\ <<o, LineOf(s)>> \in bound
       /\ \A p \in DOMAIN objs : p > o /\ objs[p].cid = s[1] => <<p, LineOf(s)>> \notin bound
       /\ rq' = rq \cup {<<o, LineOf(s), s>>}
  /\ UNCHANGED <<shared, calls, threads, bound, disk, outside>>

------------------------------------------------------------------------------
(* epoll_thread.                                                            *)

\* A datagram on the SIP socket: its sender is noted and its text queued.
RecvSip(m) ==
  /\ up
  /\ epoll.pc = "idle"
  /\ m \in net
  /\ InOrder => \A n \in net : n.call = m.call => SendRank(m) <= SendRank(n)
  /\ net' = net \ {m}
  /\ g_siprec_addr' = Addr[m.call]
  /\ g_siprec_queue' = Append(g_siprec_queue, m)
  /\ epoll' = [epoll EXCEPT !.pc = "notify"]
  /\ UNCHANGED <<up, calls, main, jobs, kernel, disk, session, answers, lost, retries>>

\* g_cv_siprec.notify_one(), after the mutex was released
Notify ==
  /\ up
  /\ epoll.pc = "notify"
  /\ epoll' = [epoll EXCEPT !.pc = "idle"]
  /\ main' = IF main.pc = "blocked" THEN [main EXCEPT !.pc = "wait"] ELSE main
  /\ UNCHANGED <<shared, calls, jobs, kernel, disk, outside>>

\* The object in the map one of whose media has this socket, if it is there.
find_call(o, l) ==
  /\ g_call_factory[objs[o].cid] = o
  /\ objs[o].alive
  /\ \E k \in Line : objs[o].media_list[k].rtp_sock = l

\* the main thread is changing the map
MapInFlux == main.pc \in {"insert", "erase"}

\* mutant: the index of the packet before is kept
SourceIndex_Kept(m, s) ==
  IF m.src_port[0] = None \/ (m.src_port[0] = s /\ m.src_port[1] = None) THEN None ELSE 1

\* The recording a packet from source port s goes to, None while only one source
\* has been heard.
SourceIndex(m, s) ==
  IF m.src_port[0] = None \/ (m.src_port[0] = s /\ m.src_port[1] = None) THEN None
  ELSE IF m.src_port[1] \in {None, s} THEN 1
  ELSE 0

\* src_port once a packet from s was seen
Learn(src, s) ==
  IF src[0] = None THEN [src EXCEPT ![0] = s]
  ELSE IF src[1] = None /\ src[0] # s THEN [src EXCEPT ![1] = s]
  ELSE src

ReadRtp(o, l, s) ==
  /\ up
  /\ epoll.pc = "idle"
  /\ <<o, l, s>> \in rq
  /\ rq' = rq \ {<<o, l, s>>}
  /\ UNCHANGED <<g_siprec_addr, g_siprec_queue, g_call_factory, main, jobs, bound,
                 disk, outside>>

\* find_mediainfo returns the first medium of the call and gives it the socket.
TakeRtp(o, l, s) ==
  /\ ReadRtp(o, l, s)
  /\ find_call(o, l)
  /\ LET m == objs[o].media_list[1]
         i == SourceIndex(m, s[2])
     IN  /\ objs' = [objs EXCEPT ![o].media_list[1] =
                       [rtp_sock |-> l, src_port |-> Learn(m.src_port, s[2]),
                        codec |-> IF i = None THEN m.codec ELSE Law, fh |-> m.fh]]
         /\ epoll' = IF i = None THEN epoll
                     ELSE IF m.fh[i] = "null" THEN epoll
                     ELSE [pc |-> "write", obj |-> o, index |-> i, from |-> s]
         /\ up' = up

\* No call has the socket, or the walk through the map misses it.
DropRtp(o, l, s) ==
  /\ ReadRtp(o, l, s)
  /\ ~ find_call(o, l) \/ MapInFlux
  /\ UNCHANGED <<up, objs, epoll>>

\* The walk reads an object that was freed.
LookupFaults(o, l, s) ==
  /\ ReadRtp(o, l, s)
  /\ main.pc = "erase"
  /\ up' = FALSE
  /\ UNCHANGED <<objs, epoll>>

Target == objs[epoll.obj]
TargetFile == <<Target.cid, 1, epoll.index>>

\* the fwrite that ends do_rtp
WriteRtp ==
  /\ up
  /\ epoll.pc = "write"
  /\ epoll' = [epoll EXCEPT !.pc = "idle"]
  /\ \/ /\ Target.media_list[1].fh[epoll.index] = "open"
        /\ raw' = [raw EXCEPT ![TargetFile] = @ \cup {epoll.from}]
        /\ up' = up
     \/ /\ Target.media_list[1].fh[epoll.index] = "unlinked"
        /\ UNCHANGED <<raw, up>>
     \/ /\ ~ Target.alive    \* the FILE was closed since
        /\ up' \in BOOLEAN
        /\ UNCHANGED raw
  /\ UNCHANGED <<g_siprec_addr, g_siprec_queue, calls, main, jobs, kernel, wav, outside>>

------------------------------------------------------------------------------
(* main().                                                                  *)

Goto(pc) == [main EXCEPT !.pc = pc]

\* mutant: the queue is not looked at before the thread waits
Awaits_Always == TRUE

\* the predicate of g_cv_siprec.wait
Awaits == g_siprec_queue = <<>>

\* The thread holds the mutex from the test to the pop, or to its sleep.
Wait ==
  /\ up
  /\ main.pc = "wait"
  /\ Awaits
  /\ main' = Goto("blocked")
  /\ UNCHANGED <<shared, calls, epoll, jobs, kernel, disk, outside>>

\* a spurious wake-up
Wake ==
  /\ up
  /\ main.pc = "blocked"
  /\ main' = Goto("wait")
  /\ UNCHANGED <<shared, calls, epoll, jobs, kernel, disk, outside>>

\* Only INVITE and BYE ask for anything.
Take ==
  /\ up
  /\ main.pc = "wait"
  /\ g_siprec_queue # <<>>
  /\ g_siprec_queue' = Tail(g_siprec_queue)
  /\ LET m == Head(g_siprec_queue)
     IN  main' = IF m.method \in {"INVITE", "BYE"}
                 THEN [main EXCEPT !.pc = m.method, !.msg = m] ELSE main
  /\ UNCHANGED <<up, g_siprec_addr, calls, epoll, jobs, kernel, disk, outside>>

\* The response goes to the sender of the last text.
SendOk ==
  answers' = answers \cup {[method |-> main.msg.method, call |-> main.msg.call,
                            to |-> g_siprec_addr]}

\* A call object, a socket for each m= line, and the OK
AcceptInvite ==
  /\ up
  /\ main.pc = "INVITE"
  /\ objs' = Append(objs, SipRecCall(main.msg.call))
  /\ bound' = bound \cup {<<Len(objs) + 1, l>> : l \in SocketsFor(FreeFds)}
  /\ SendOk
  /\ main' = [main EXCEPT !.pc = "open", !.obj = Len(objs) + 1]
  /\ UNCHANGED <<shared, g_call_factory, epoll, jobs, rq, disk, session, net, lost, retries>>

\* fopen(..., "w+") of the two files of every medium
start_recording ==
  LET c == main.msg.call
  IN  /\ up
      /\ main.pc = "open"
      /\ objs' = [objs EXCEPT ![main.obj].media_list =
                    [l \in Line |-> [@[l] EXCEPT !.fh =
                       [i \in Index |-> IF OpenedFirst(l, i) THEN "open" ELSE "null"]]]]
      /\ raw' = [f \in File |-> IF f[1] = c /\ OpenedFirst(f[2], f[3]) THEN {} ELSE raw[f]]
      /\ main' = Goto("insert")
      /\ UNCHANGED <<shared, g_call_factory, epoll, jobs, kernel, wav, outside>>

\* mutant: the object that had the Call-ID before is deleted
Insert_Deletes ==
  LET c == main.msg.call
      old == g_call_factory[c]
  IN  /\ up
      /\ main.pc = "insert"
      /\ g_call_factory' = [g_call_factory EXCEPT ![c] = main.obj]
      /\ objs' = IF old = 0 THEN objs ELSE [objs EXCEPT ![old].alive = FALSE]
      /\ main' = Goto("wait")
      /\ UNCHANGED <<shared, epoll, jobs, kernel, disk, outside>>

\* g_call_factory.calls[cid] = call; what was there is forgotten
Insert ==
  /\ up
  /\ main.pc = "insert"
  /\ g_call_factory' = [g_call_factory EXCEPT ![main.msg.call] = main.obj]
  /\ main' = Goto("wait")
  /\ UNCHANGED <<shared, objs, epoll, jobs, kernel, disk, outside>>

\* mutant: the call is not removed
AnswerBye_Only ==
  /\ up
  /\ main.pc = "BYE"
  /\ SendOk
  /\ main' = Goto("wait")
  /\ UNCHANGED <<shared, calls, epoll, jobs, kernel, disk, session, net, lost, retries>>

AnswerBye ==
  /\ up
  /\ main.pc = "BYE"
  /\ SendOk
  /\ main' = Goto("remove")
  /\ UNCHANGED <<shared, calls, epoll, jobs, kernel, disk, session, net, lost, retries>>

\* remove_call finds nothing.
RemoveUnknown ==
  /\ up
  /\ main.pc = "remove"
  /\ g_call_factory[main.msg.call] = 0
  /\ main' = Goto("wait")
  /\ UNCHANGED <<shared, calls, epoll, jobs, kernel, disk, outside>>

\* both FILEs are there, so that they are closed and converted
Converts(m) == m.fh[0] # "null" /\ m.fh[1] # "null"

\* delete call: the destructor closes the files and starts the conversions.  The
\* sockets stay as they are.
Delete ==
  LET o  == g_call_factory[main.msg.call]
      ml == objs[o].media_list
      closed(m) == IF Converts(m) THEN [m EXCEPT !.fh = [i \in Index |-> "closed"]] ELSE m
  IN  /\ up
      /\ main.pc = "remove"
      /\ o # 0
      /\ objs' = [objs EXCEPT ![o] =
                    [@ EXCEPT !.alive = FALSE, !.media_list = [l \in Line |-> closed(ml[l])]]]
      /\ jobs' = jobs \cup {[obj |-> o, line |-> l, index |-> 0, step |-> "sox"] :
                              l \in {k \in Line : Converts(ml[k])}}
      /\ main' = Goto("erase")
      /\ UNCHANGED <<shared, g_call_factory, epoll, kernel, disk, outside>>

\* mutant: the entry stays
Erase_Forgotten ==
  /\ up
  /\ main.pc = "erase"
  /\ main' = Goto("wait")
  /\ UNCHANGED <<shared, calls, epoll, jobs, kernel, disk, outside>>

\* calls.erase(kv.first)
Erase ==
  /\ up
  /\ main.pc = "erase"
  /\ g_call_factory' = [g_call_factory EXCEPT ![main.msg.call] = 0]
  /\ main' = Goto("wait")
  /\ UNCHANGED <<shared, objs, epoll, jobs, kernel, disk, outside>>

------------------------------------------------------------------------------
(* to_pcm_thread: for both files, sox and then remove.                      *)

JobFile(j) == <<objs[j.obj].cid, j.line, j.index>>

\* "-t al" reads the headerless file; "-t au", chosen for the other law, does not.
SoxReads(codec) == codec = "alaw"

Sox(j) ==
  /\ up
  /\ j.step = "sox"
  /\ wav' = IF raw[JobFile(j)] # None /\ SoxReads(objs[j.obj].media_list[j.line].codec)
            THEN [wav EXCEPT ![JobFile(j)] = raw[JobFile(j)]] ELSE wav
  /\ jobs' = (jobs \ {j}) \cup {[j EXCEPT !.step = "remove"]}
  /\ UNCHANGED <<shared, calls, main, epoll, kernel, raw, outside>>

\* FILEs open on a file that was removed
Unlink(f) ==
  [o \in DOMAIN objs |->
     IF objs[o].cid # f[1] \/ objs[o].media_list[f[2]].fh[f[3]] # "open" THEN objs[o]
     ELSE [objs[o] EXCEPT !.media_list[f[2]].fh[f[3]] = "unlinked"]]

Remove(j) ==
  /\ up
  /\ j.step = "remove"
  /\ raw' = [raw EXCEPT ![JobFile(j)] = None]
  /\ objs' = Unlink(JobFile(j))
  /\ jobs' = (jobs \ {j}) \cup
               (IF j.index = 0 THEN {[j EXCEPT !.index = 1, !.step = "sox"]} ELSE {})
  /\ UNCHANGED <<shared, g_call_factory, main, epoll, kernel, wav, outside>>

------------------------------------------------------------------------------
Environment ==
  \/ \E c \in Calls : StartSession(c) \/ HangUp(c) \/ Retransmit(c) \/ GiveUp(c)
  \/ \E r \in answers : GetOk(r)
  \/ \E m \in net \cup answers : Lose(m)
  \/ \E s \in Stream : SendRtp(s)

do_rtp ==
  \/ \E q \in rq : \/ TakeRtp(q[1], q[2], q[3])
                   \/ DropRtp(q[1], q[2], q[3])
                   \/ LookupFaults(q[1], q[2], q[3])
  \/ WriteRtp

epoll_thread == Notify \/ do_rtp \/ \E m \in net : RecvSip(m)

do_siprec_message ==
  \/ AcceptInvite \/ start_recording \/ Insert
  \/ AnswerBye \/ RemoveUnknown \/ Delete \/ Erase

main_thread == Wait \/ Wake \/ Take \/ do_siprec_message

to_pcm_thread == \E j \in jobs : Sox(j) \/ Remove(j)

Next == Environment \/ epoll_thread \/ main_thread \/ to_pcm_thread

Spec == Init /\ [][Next]_vars

\* The scheduler runs every thread; the ready list of epoll rotates, so the SIP
\* socket has its turn however much RTP there is; FreeSWITCH's timers expire and
\* responses that are not lost arrive.  Nobody counts on spurious wake-ups.
Fairness ==
  /\ WF_vars(Wait \/ Take \/ do_siprec_message)
  /\ WF_vars(Notify) /\ WF_vars(WriteRtp)
  /\ \A m \in Request : SF_vars(m \in net /\ RecvSip(m))
  /\ WF_vars(to_pcm_thread)
  /\ \A r \in Answer : WF_vars(r \in answers /\ GetOk(r))
  /\ \A c \in Calls : WF_vars(Retransmit(c)) /\ WF_vars(GiveUp(c))

FairSpec == Spec /\ Fairness
------------------------------------------------------------------------------
(* Properties.  Each says under which conditions it is meant.               *)

Job == [obj : DOMAIN objs, line : Line, index : Index, step : {"sox", "remove"}]

ServerTypeOK ==
  /\ up \in BOOLEAN
  /\ g_siprec_addr \in {Addr[c] : c \in Calls} \cup {None}
  /\ g_siprec_queue \in Seq(Request)
  /\ objs \in Seq(CallType)
  /\ g_call_factory \in [Calls -> {0} \cup DOMAIN objs]
ThreadsTypeOK ==
  /\ main.pc \in {"wait", "blocked", "INVITE", "open", "insert", "BYE", "remove", "erase"}
  /\ main.msg \in {None} \cup Request /\ main.obj \in {0} \cup DOMAIN objs
  /\ DOMAIN main = {"pc", "msg", "obj"}
  /\ epoll \in [pc : {"idle", "notify", "write"}, obj : {0} \cup DOMAIN objs,
                index : Index, from : {None} \cup Stream]
  /\ jobs \in SUBSET Job
SystemTypeOK ==
  /\ bound \in SUBSET ((DOMAIN objs) \X Line)
  /\ rq \in SUBSET ((DOMAIN objs) \X Line \X Stream)
  /\ raw \in [File -> {None} \cup SUBSET Stream]
  /\ wav \in [File -> {None} \cup SUBSET Stream]
OutsideTypeOK ==
  /\ session \in [Calls -> {"idle", "inviting", "up", "byeing", "done"}]
  /\ net \in SUBSET Request
  /\ answers \in SUBSET Answer
  /\ lost \in SUBSET (Calls \X (1 .. MaxLoss))
  /\ retries \in 0 .. MaxRetry

\* Every variable has values of its kind.
TypeOK == ServerTypeOK /\ ThreadsTypeOK /\ SystemTypeOK /\ OutsideTypeOK

\* The main thread never sleeps on a queue that holds a text unless the epoll
\* thread is about to wake it.
NoLostWakeup ==
  up /\ main.pc = "blocked" /\ g_siprec_queue # <<>> => epoll.pc = "notify"

\* While its Call-ID is in the map, an object is that of the call and alive (but
\* for the moment before the entry is erased), and its recordings are files that
\* still have their names: no conversion removes what is being recorded, however
\* often the requests are repeated, as long as they arrive in order.
RecordingsIntact ==
  \A c \in Calls : g_call_factory[c] # 0 =>
    LET call == objs[g_call_factory[c]]
    IN  /\ call.cid = c
        /\ call.alive \/ (main.pc = "erase" /\ main.msg.call = c)
        /\ \A l \in Line, i \in Index : call.media_list[l].fh[i] # "unlinked"

\* An object is only freed for a session that was hung up: until the first BYE is
\* sent no packet, late, early or repeated INVITE brings the process down.
NoFaultBeforeHangUp == up \/ \E c \in Calls : session[c] \in {"byeing", "done"}

\* Once no request of a session that has ended is left anywhere, the call is out
\* of the map, unless a message was lost.
NothingLeftBehind ==
  \A c \in Calls :
    \/ session[c] # "done" \/ ~ up
    \/ \E n \in 1 .. MaxLoss : <<c, n>> \in lost
    \/ \E m \in net : m.call = c
    \/ \E k \in DOMAIN g_siprec_queue : g_siprec_queue[k].call = c
    \/ main.pc \notin {"wait", "blocked"}
    \/ g_call_factory[c] = 0

\* Where no INVITE is repeated and the RTP is A-law, each of the two recordings of
\* a call settles on one of its parties, takes packets of that party alone, and
\* neither the end of the call nor the conversion loses any of them.
Opened(f, states) ==
  \E o \in DOMAIN objs : objs[o].cid = f[1] /\ objs[o].media_list[f[2]].fh[f[3]] \in states

Promise == INSTANCE Recorder WITH
  Recording <- File,
  Sources <- [f \in File |-> {f[1]} \X Side],
  phase <- [f \in File |-> IF Opened(f, {"open"}) THEN "open"
                           ELSE IF Opened(f, {"closed"}) THEN "final" ELSE "none"],
  audio <- [f \in File |-> IF wav[f] # None THEN wav[f]
                           ELSE IF raw[f] # None THEN raw[f] ELSE {}]

ImplementsRecorder == Promise!Spec

\* Every INVITE is answered in the end when nothing is lost.
InviteAnswered == \A c \in Calls : session[c] = "inviting" ~> session[c] \in {"up", "byeing"}

\* Every session that ends is forgotten and its files are converted.
CallsDrain ==
  \A c \in Calls : session[c] = "done" ~>
    g_call_factory[c] = 0 /\ ~ \E j \in jobs : objs[j.obj].cid = c
==============================================================================
