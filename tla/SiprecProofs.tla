---------------------------- MODULE SiprecProofs ----------------------------
(***************************************************************************)
(* Proofs about SiprecServer.  The two threads hand texts over through a   *)
(* queue and a condition variable, and no wake-up is lost, whatever the    *)
(* network, the calls and the RTP do.  Until a session is hung up nothing  *)
(* is freed.  When requests arrive in order, the BYE is the last text of   *)
(* its session: a call in the map is alive and keeps its files, and what   *)
(* has ended is gone.  When nothing is sent again a call has one object,   *)
(* and the server implements Recorder.                                     *)
(***************************************************************************)
EXTENDS SiprecServer, TLAPS, FiniteSetTheorems

\* The records of the two threads have their fields.
ThreadRecords ==
  /\ main = [pc |-> main.pc, msg |-> main.msg, obj |-> main.obj]
  /\ epoll = [pc |-> epoll.pc, obj |-> epoll.obj, index |-> epoll.index, from |-> epoll.from]

WakeupInv == ThreadRecords /\ NoLostWakeup

LEMMA WakeupInit == Init => WakeupInv
  BY DEF Init, WakeupInv, ThreadRecords, NoLostWakeup

\* FreeSWITCH and the network touch neither the queue nor the threads.
LEMMA WakeupEnvironment ==
  ASSUME WakeupInv, Environment
  PROVE  WakeupInv'
  <1>1. UNCHANGED <<up, g_siprec_queue, main, epoll>>
    BY DEF Environment, StartSession, HangUp, Retransmit, GiveUp, GetOk, Lose, SendRtp,
           shared, threads
  <1> QED BY <1>1 DEF WakeupInv, ThreadRecords, NoLostWakeup

LEMMA WakeupEpoll ==
  ASSUME WakeupInv, epoll_thread
  PROVE  WakeupInv'
  <1>1. CASE Notify
    BY <1>1 DEF WakeupInv, ThreadRecords, NoLostWakeup, Notify, shared
  <1>2. ASSUME NEW m \in net, RecvSip(m)
        PROVE  WakeupInv'
    BY <1>2 DEF WakeupInv, ThreadRecords, NoLostWakeup, RecvSip
  <1>3. CASE do_rtp
    \* a thread that handles RTP owes no wake-up
    <2> DEFINE Recorded == epoll' = [pc |-> epoll'.pc, obj |-> epoll'.obj,
                                     index |-> epoll'.index, from |-> epoll'.from]
               Quiet == /\ up /\ epoll.pc # "notify"
                        /\ UNCHANGED <<g_siprec_queue, main>>
    <2>1. ASSUME NEW o, NEW l, NEW s, TakeRtp(o, l, s)
          PROVE  Quiet /\ Recorded
      <3>1. Quiet
        BY <2>1 DEF TakeRtp, ReadRtp
      <3>2. \/ epoll' = epoll
            \/ \E i : epoll' = [pc |-> "write", obj |-> o, index |-> i, from |-> s]
        BY <2>1 DEF TakeRtp
      <3> QED BY <3>1, <3>2 DEF WakeupInv, ThreadRecords
    <2>2. ASSUME NEW o, NEW l, NEW s, DropRtp(o, l, s) \/ LookupFaults(o, l, s)
          PROVE  Quiet /\ Recorded
      BY <2>2 DEF DropRtp, LookupFaults, ReadRtp, WakeupInv, ThreadRecords
    <2>3. ASSUME WriteRtp
          PROVE  Quiet /\ Recorded
      <3>1. up /\ epoll.pc = "write" /\ epoll' = [epoll EXCEPT !.pc = "idle"]
        BY <2>3 DEF WriteRtp
      <3>2. UNCHANGED <<g_siprec_queue, main>>
        BY <2>3 DEF WriteRtp
      <3> QED BY <3>1, <3>2 DEF WakeupInv, ThreadRecords
    <2>4. ASSUME NEW q \in rq,
                 \/ TakeRtp(q[1], q[2], q[3])
                 \/ DropRtp(q[1], q[2], q[3])
                 \/ LookupFaults(q[1], q[2], q[3])
          PROVE  Quiet /\ Recorded
      <3> HIDE DEF Quiet, Recorded
      <3>1. CASE TakeRtp(q[1], q[2], q[3])
        BY <3>1, <2>1
      <3>2. CASE DropRtp(q[1], q[2], q[3]) \/ LookupFaults(q[1], q[2], q[3])
        BY <3>2, <2>2
      <3> QED BY <2>4, <3>1, <3>2
    <2>5. Quiet /\ Recorded
      <3> HIDE DEF Quiet, Recorded
      <3> QED BY <1>3, <2>3, <2>4 DEF do_rtp
    <2> QED BY <2>5 DEF WakeupInv, ThreadRecords, NoLostWakeup
  <1> QED BY <1>1, <1>2, <1>3 DEF epoll_thread

LEMMA WakeupMain ==
  ASSUME WakeupInv, main_thread
  PROVE  WakeupInv'
  <1>1. CASE Wait
    BY <1>1 DEF WakeupInv, ThreadRecords, NoLostWakeup, Wait, Goto, Awaits, shared
  <1>2. CASE Wake
    BY <1>2 DEF WakeupInv, ThreadRecords, NoLostWakeup, Wake, Goto
  <1>3. CASE Take
    <2>1. main'.pc # "blocked" /\ UNCHANGED epoll
      BY <1>3 DEF WakeupInv, ThreadRecords, Take
    <2> QED
      BY <1>3, <2>1 DEF WakeupInv, ThreadRecords, NoLostWakeup, Take
  <1>4. CASE do_siprec_message
    <2>1. main'.pc # "blocked" /\ ThreadRecords'
      BY <1>4 DEF WakeupInv, ThreadRecords, do_siprec_message, AcceptInvite,
                  start_recording, Insert, AnswerBye, RemoveUnknown, Delete, Erase, Goto
    <2> QED BY <2>1 DEF WakeupInv, NoLostWakeup
  <1> QED BY <1>1, <1>2, <1>3, <1>4 DEF main_thread

LEMMA WakeupConversion ==
  ASSUME WakeupInv, to_pcm_thread
  PROVE  WakeupInv'
  <1>1. UNCHANGED <<up, g_siprec_queue, main, epoll>>
    BY DEF to_pcm_thread, Sox, Remove, shared
  <1> QED BY <1>1 DEF WakeupInv, ThreadRecords, NoLostWakeup

\* The main thread never sleeps on a queue with a text in it unless the epoll
\* thread is about to call notify_one: between the push and the notification the
\* mutex is free, and nothing else the two threads do can come in between.
THEOREM NoWakeupIsLost == Spec => []NoLostWakeup
  <1>1. WakeupInv /\ [Next]_vars => WakeupInv'
    <2> SUFFICES ASSUME WakeupInv, [Next]_vars PROVE WakeupInv'
      OBVIOUS
    <2>1. CASE UNCHANGED vars
      BY <2>1 DEF vars, WakeupInv, ThreadRecords, NoLostWakeup
    <2> QED BY <2>1, WakeupEnvironment, WakeupEpoll, WakeupMain, WakeupConversion DEF Next
  <1>2. WakeupInv => NoLostWakeup
    BY DEF WakeupInv
  <1> QED BY WakeupInit, <1>1, <1>2, PTL DEF Spec
------------------------------------------------------------------------------
(* Call objects.                                                            *)

Files == [Index -> FileState]
Media == [Line -> MediaInfoType]

LEMMA MediaParts ==
  ASSUME NEW m \in MediaInfoType
  PROVE  /\ m.rtp_sock \in 0 .. Lines /\ m.src_port \in [Index -> Side \cup {None}]
         /\ m.codec \in {"alaw", "ulaw"} /\ m.fh \in Files
  BY DEF MediaInfoType, Files

LEMMA WithFiles ==
  ASSUME NEW m \in MediaInfoType, NEW fh \in Files
  PROVE  [m EXCEPT !.fh = fh] \in MediaInfoType /\ [m EXCEPT !.fh = fh].fh = fh
  BY DEF MediaInfoType, Files

\* Object o has media ml now; it is alive or not.
Becomes(o, ml, alive) ==
  /\ o \in DOMAIN objs
  /\ ml \in Media
  /\ objs' = [objs EXCEPT ![o] = [cid |-> objs[o].cid, alive |-> alive, media_list |-> ml]]

\* What an object is does not change, and what is dead stays dead.
ObjsStep ==
  /\ objs' \in Seq(CallType)
  /\ DOMAIN objs \subseteq DOMAIN objs'
  /\ \A o \in DOMAIN objs : objs'[o].cid = objs[o].cid /\ (objs'[o].alive => objs[o].alive)

\* ... and no FILE has been opened.
NoneOpened ==
  \A o \in DOMAIN objs', l \in Line, i \in Index :
    objs'[o].media_list[l].fh[i] = "open" =>
      o \in DOMAIN objs /\ objs[o].media_list[l].fh[i] = "open"

LEMMA ObjectParts ==
  ASSUME objs \in Seq(CallType), NEW o \in DOMAIN objs
  PROVE  /\ objs[o] \in CallType
         /\ objs[o].cid \in Calls /\ objs[o].alive \in BOOLEAN /\ objs[o].media_list \in Media
         /\ \A l \in Line : objs[o].media_list[l] \in MediaInfoType
  <1>1. objs[o] \in CallType
    OBVIOUS
  <1>2. /\ objs[o].cid \in Calls /\ objs[o].alive \in BOOLEAN
        /\ objs[o].media_list \in [Line -> MediaInfoType]
    BY <1>1 DEF CallType
  <1> QED BY <1>1, <1>2 DEF Media

LEMMA BecomesStep ==
  ASSUME objs \in Seq(CallType), NEW o, NEW ml, NEW alive \in BOOLEAN, Becomes(o, ml, alive),
         alive => objs[o].alive
  PROVE  /\ ObjsStep /\ DOMAIN objs' = DOMAIN objs
         /\ objs'[o].cid = objs[o].cid /\ objs'[o].alive = alive /\ objs'[o].media_list = ml
         /\ \A p \in DOMAIN objs : p # o => objs'[p] = objs[p]
  <1> DEFINE new == [cid |-> objs[o].cid, alive |-> alive, media_list |-> ml]
  <1>1. o \in DOMAIN objs /\ new \in CallType /\ objs' = [objs EXCEPT ![o] = new]
    BY ObjectParts DEF Becomes, CallType, Media
  <1>2. new.cid = objs[o].cid /\ new.alive = alive /\ new.media_list = ml
    OBVIOUS
  <1> HIDE DEF new
  <1>3. objs' \in Seq(CallType) /\ DOMAIN objs' = DOMAIN objs
    BY <1>1
  <1>4. \A p \in DOMAIN objs : objs'[p] = IF p = o THEN new ELSE objs[p]
    BY <1>1
  <1>5. \A p \in DOMAIN objs : p # o => objs'[p] = objs[p]
    BY <1>4
  <1>6. objs'[o] = new
    BY <1>1, <1>4
  <1> QED BY <1>1, <1>2, <1>3, <1>5, <1>6 DEF ObjsStep

LEMMA AcceptStep ==
  ASSUME objs \in Seq(CallType), main.msg.call \in Calls, AcceptInvite
  PROVE  /\ ObjsStep /\ DOMAIN objs' = 1 .. (Len(objs) + 1)
         /\ \A o \in DOMAIN objs : objs'[o] = objs[o]
         /\ objs'[Len(objs) + 1].cid = main.msg.call /\ objs'[Len(objs) + 1].alive
         /\ \A l \in Line, i \in Index : objs'[Len(objs) + 1].media_list[l].fh[i] = "null"
  <1> DEFINE new == SipRecCall(main.msg.call)
  <1>1. objs' = Append(objs, new)
    BY DEF AcceptInvite
  <1>2. \A l \in Line : new.media_list[l] = MediaInfo(IF l \in SocketsFor(FreeFds) THEN l ELSE 0)
    BY DEF SipRecCall
  <1>3. \A sock \in 0 .. Lines : MediaInfo(sock) \in MediaInfoType
    BY DEF MediaInfo, MediaInfoType, FileState
  <1>4. \A l \in Line : (IF l \in SocketsFor(FreeFds) THEN l ELSE 0) \in 0 .. Lines
    BY ConstantsAssumption DEF Line
  <1>5. new.cid = main.msg.call /\ new.alive /\ new.media_list \in [Line -> MediaInfoType]
    BY <1>2, <1>3, <1>4 DEF SipRecCall
  <1>6. \A sock \in 0 .. Lines : \A i \in Index : MediaInfo(sock).fh[i] = "null"
    BY DEF MediaInfo
  <1>7. \A l \in Line, i \in Index : new.media_list[l].fh[i] = "null"
    BY <1>2, <1>4, <1>6
  <1>8. new \in CallType
    BY <1>3, <1>4 DEF SipRecCall, CallType
  <1> HIDE DEF new
  <1>9. objs' \in Seq(CallType) /\ DOMAIN objs' = 1 .. (Len(objs) + 1)
        /\ (\A o \in DOMAIN objs : objs'[o] = objs[o]) /\ objs'[Len(objs) + 1] = new
    BY <1>1, <1>8
  <1> QED BY <1>5, <1>7, <1>9 DEF ObjsStep

LEMMA TakeStep ==
  ASSUME objs \in Seq(CallType), NEW o \in DOMAIN objs, NEW l \in Line, NEW s \in Stream,
         TakeRtp(o, l, s)
  PROVE  \E ml : /\ Becomes(o, ml, objs[o].alive)
                 /\ \A k \in Line : ml[k].fh = objs[o].media_list[k].fh
  <1> DEFINE m == objs[o].media_list[1]
             i == SourceIndex(m, s[2])
             new == [rtp_sock |-> l, src_port |-> Learn(m.src_port, s[2]),
                     codec |-> IF i = None THEN m.codec ELSE Law, fh |-> m.fh]
             ml == [objs[o].media_list EXCEPT ![1] = new]
  <1>1. 1 \in Line /\ m \in MediaInfoType
    BY ObjectParts, ConstantsAssumption DEF Line
  <1>2. Learn(m.src_port, s[2]) \in [Index -> Side \cup {None}]
    BY <1>1, MediaParts DEF Learn, Stream, Index
  <1>3. l \in 0 .. Lines
    BY ConstantsAssumption DEF Line
  <1>4. (IF i = None THEN m.codec ELSE Law) \in {"alaw", "ulaw"}
    BY <1>1, MediaParts, ConstantsAssumption
  <1>5. new \in MediaInfoType /\ new.fh = m.fh
    <2>1. m.fh \in [Index -> FileState]
      BY <1>1, MediaParts DEF Files
    <2> HIDE DEF i, m
    <2> QED BY <1>2, <1>3, <1>4, <2>1 DEF MediaInfoType
  <1>6. objs' = [objs EXCEPT ![o].media_list[1] = new]
    BY DEF TakeRtp
  <1>7. objs[o].media_list \in Media /\ objs[o] \in CallType
    BY ObjectParts
  <1> HIDE DEF new, i
  <1>8. objs' = [objs EXCEPT ![o] = [objs[o] EXCEPT !.media_list = ml]]
    BY <1>6
  <1>9. [objs[o] EXCEPT !.media_list = ml]
          = [cid |-> objs[o].cid, alive |-> objs[o].alive, media_list |-> ml]
    BY <1>7 DEF CallType
  <1>10. ml \in Media /\ \A k \in Line : ml[k].fh = objs[o].media_list[k].fh
    BY <1>1, <1>5, <1>7 DEF Media
  <1> QED BY <1>8, <1>9, <1>10 DEF Becomes
LEMMA StartStep ==
  ASSUME objs \in Seq(CallType), main.obj \in DOMAIN objs, start_recording
  PROVE  \E ml : /\ Becomes(main.obj, ml, objs[main.obj].alive)
                 /\ \A l \in Line, i \in Index :
                      ml[l].fh[i] = IF OpenedFirst(l, i) THEN "open" ELSE "null"
  <1> DEFINE o == main.obj
             fh(l) == [i \in Index |-> IF OpenedFirst(l, i) THEN "open" ELSE "null"]
             ml == [l \in Line |-> [objs[o].media_list[l] EXCEPT !.fh = fh(l)]]
  <1>1. objs' = [objs EXCEPT ![o] = [objs[o] EXCEPT !.media_list = ml]]
    BY DEF start_recording
  <1>2. \A l : fh(l) \in Files
    BY DEF Files, FileState
  <1>3. \A l : \A i \in Index : fh(l)[i] = IF OpenedFirst(l, i) THEN "open" ELSE "null"
    OBVIOUS
  <1> HIDE DEF fh
  <1>4. \A l \in Line : ml[l] \in MediaInfoType /\ ml[l].fh = fh(l)
    BY <1>2, ObjectParts, WithFiles
  <1>5. ml \in Media /\ \A l \in Line, i \in Index :
                        ml[l].fh[i] = IF OpenedFirst(l, i) THEN "open" ELSE "null"
    <2>1. \A l \in Line, i \in Index :
            ml[l].fh[i] = IF OpenedFirst(l, i) THEN "open" ELSE "null"
      BY <1>3, <1>4
    <2> QED BY <1>4, <2>1 DEF Media
  <1> HIDE DEF ml
  <1>6. [objs[o] EXCEPT !.media_list = ml]
          = [cid |-> objs[o].cid, alive |-> objs[o].alive, media_list |-> ml]
    BY ObjectParts DEF CallType
  <1>7. Becomes(o, ml, objs[o].alive)
    BY <1>1, <1>5, <1>6 DEF Becomes
  <1> QED BY <1>5, <1>7

LEMMA DeleteStep ==
  ASSUME objs \in Seq(CallType), NEW o \in DOMAIN objs, o = g_call_factory[main.msg.call], Delete
  PROVE  \E ml : /\ Becomes(o, ml, FALSE)
                 /\ \A l \in Line :
                      IF Converts(objs[o].media_list[l])
                      THEN \A i \in Index : ml[l].fh[i] = "closed"
                      ELSE ml[l] = objs[o].media_list[l]
  <1> DEFINE all == [i \in Index |-> "closed"]
             closed(m) == IF Converts(m) THEN [m EXCEPT !.fh = all] ELSE m
             old == objs[o].media_list
             ml == [l \in Line |-> closed(old[l])]
  <1>1. objs' = [objs EXCEPT ![o] = [objs[o] EXCEPT !.alive = FALSE, !.media_list = ml]]
    BY DEF Delete
  <1>2. all \in Files
    BY DEF Files, FileState
  <1>3. \A i \in Index : all[i] = "closed"
    OBVIOUS
  <1> HIDE DEF all
  <1>4. \A l \in Line : old[l] \in MediaInfoType
    BY ObjectParts
  <1>5. \A l \in Line : ml[l] \in MediaInfoType
    BY <1>2, <1>4, WithFiles
  <1>6. \A l \in Line : IF Converts(old[l]) THEN \A i \in Index : ml[l].fh[i] = "closed"
                        ELSE ml[l] = old[l]
    BY <1>2, <1>3, <1>4, WithFiles
  <1>7. ml \in Media
    BY <1>5 DEF Media
  <1> HIDE DEF ml
  <1>8. [objs[o] EXCEPT !.alive = FALSE, !.media_list = ml]
          = [cid |-> objs[o].cid, alive |-> FALSE, media_list |-> ml]
    <2> DEFINE r == [objs[o] EXCEPT !.alive = FALSE]
    <2>1. objs[o] \in CallType
      BY ObjectParts
    <2>2. r \in CallType /\ r.cid = objs[o].cid /\ r.alive = FALSE
      BY <2>1 DEF CallType
    <2>3. [objs[o] EXCEPT !.alive = FALSE, !.media_list = ml] = [r EXCEPT !.media_list = ml]
      OBVIOUS
    <2> HIDE DEF r
    <2>4. [r EXCEPT !.media_list = ml] = [cid |-> r.cid, alive |-> r.alive, media_list |-> ml]
      BY <2>2 DEF CallType
    <2> QED BY <2>2, <2>3, <2>4
  <1> QED BY <1>1, <1>6, <1>7, <1>8 DEF Becomes

\* this FILE of object o is open on file f
Names(o, l, i, f) ==
  objs[o].cid = f[1] /\ l = f[2] /\ i = f[3] /\ objs[o].media_list[l].fh[i] = "open"

\* Removing a file leaves each FILE as it was, but those that were open on it
\* have no name then.
LEMMA UnlinkStep ==
  ASSUME objs \in Seq(CallType), NEW f \in File, objs' = Unlink(f)
  PROVE  /\ ObjsStep /\ DOMAIN objs' = DOMAIN objs
         /\ \A o \in DOMAIN objs :
              /\ objs'[o].alive = objs[o].alive
              /\ \A l \in Line, i \in Index :
                   objs'[o].media_list[l].fh[i] =
                     IF Names(o, l, i, f) THEN "unlinked" ELSE objs[o].media_list[l].fh[i]
  <1> DEFINE c == f[1]
             k == f[2]
             h == f[3]
  <1>1. k \in Line /\ h \in Index /\ f = <<c, k, h>>
    BY DEF File
  <1>2. DOMAIN objs' = DOMAIN objs
    BY DEF Unlink
  <1>3. ASSUME NEW o \in DOMAIN objs
        PROVE  /\ objs'[o] \in CallType
               /\ objs'[o].cid = objs[o].cid /\ objs'[o].alive = objs[o].alive
               /\ \A l \in Line, i \in Index :
                    objs'[o].media_list[l].fh[i] =
                      IF objs[o].cid = c /\ l = k /\ i = h /\ objs[o].media_list[l].fh[i] = "open"
                      THEN "unlinked" ELSE objs[o].media_list[l].fh[i]
    <2> DEFINE old == objs[o].media_list
               fh == [old[k].fh EXCEPT ![h] = "unlinked"]
               m == [old[k] EXCEPT !.fh = fh]
               ml == [old EXCEPT ![k] = m]
               new == [cid |-> objs[o].cid, alive |-> objs[o].alive, media_list |-> ml]
    <2>1. CASE ~ (objs[o].cid = c /\ old[k].fh[h] = "open")
      <3>1. objs'[o] = objs[o]
        BY <2>1, <1>3 DEF Unlink
      <3> QED BY <2>1, <3>1, ObjectParts
    <2>2. CASE objs[o].cid = c /\ old[k].fh[h] = "open"
      <3>2. objs'[o] = [objs[o] EXCEPT !.media_list[k].fh[h] = "unlinked"]
        BY <2>2, <1>3 DEF Unlink
      <3>3. objs[o] \in CallType /\ old \in Media /\ old[k] \in MediaInfoType /\ old[k].fh \in Files
        BY <1>1, ObjectParts, MediaParts
      <3>4. [objs[o] EXCEPT !.media_list[k].fh[h] = "unlinked"] = [objs[o] EXCEPT !.media_list = ml]
        OBVIOUS
      <3>5. [objs[o] EXCEPT !.media_list = ml] = new
        BY <3>3 DEF CallType
      <3>6. fh \in Files /\ \A i \in Index : fh[i] = IF i = h THEN "unlinked" ELSE old[k].fh[i]
        BY <1>1, <3>3 DEF Files, FileState
      <3>7. m \in MediaInfoType /\ m.fh = fh
        <4> HIDE DEF fh
        <4> QED BY <3>3, <3>6, WithFiles
      <3>8. ml \in Media /\ \A l \in Line : ml[l] = IF l = k THEN m ELSE old[l]
        <4> HIDE DEF m
        <4> QED BY <1>1, <3>3, <3>7 DEF Media
      <3>9. objs'[o] = new
        BY <3>2, <3>4, <3>5
      <3>10. objs[o].cid \in Calls /\ objs[o].alive \in BOOLEAN
        BY ObjectParts
      <3> HIDE DEF ml
      <3>11. objs'[o] \in CallType /\ objs'[o].cid = objs[o].cid /\ objs'[o].alive = objs[o].alive
             /\ objs'[o].media_list = ml
        BY <3>8, <3>9, <3>10 DEF CallType, Media
      <3> HIDE DEF m, fh, c, h, k, old
      <3>12. \A l \in Line, i \in Index :
               ml[l].fh[i] = IF l = k /\ i = h THEN "unlinked" ELSE old[l].fh[i]
        BY <3>6, <3>7, <3>8
      <3> QED BY <2>2, <3>11, <3>12 DEF old
    <2> QED BY <2>1, <2>2
  <1> HIDE DEF c, k, h
  <1>4. objs' \in Seq(CallType)
    <2>1. DOMAIN objs = 1 .. Len(objs) /\ Len(objs) \in Nat
      OBVIOUS
    <2>2. objs' = [o \in 1 .. Len(objs) |-> objs'[o]]
      BY <2>1 DEF Unlink
    <2> QED BY <1>2, <1>3, <2>1, <2>2
  <1>5. \A o \in DOMAIN objs :
          /\ objs'[o].alive = objs[o].alive
          /\ \A l \in Line, i \in Index :
               objs'[o].media_list[l].fh[i] =
                 IF Names(o, l, i, f) THEN "unlinked" ELSE objs[o].media_list[l].fh[i]
    BY <1>3 DEF c, k, h, Names
  <1> QED BY <1>2, <1>3, <1>4, <1>5 DEF ObjsStep
------------------------------------------------------------------------------
(* Types, and what the threads are busy with.                               *)

Inviting == main.pc \in {"INVITE", "open", "insert"}
Ending == main.pc \in {"BYE", "remove", "erase"}

\* a text that is queued, or handled, came from somewhere
TextsOK ==
  /\ up \in BOOLEAN
  /\ g_siprec_addr \in {Addr[c] : c \in Calls} \cup {None}
  /\ g_siprec_queue \in Seq(Request)
  /\ g_siprec_queue # <<>> => g_siprec_addr # None
ObjsOK == objs \in Seq(CallType)
\* an entry of the map is an object of its call
MapOK ==
  /\ g_call_factory \in [Calls -> {0} \cup DOMAIN objs]
  /\ \A c \in Calls : g_call_factory[c] # 0 => objs[g_call_factory[c]].cid = c
\* the main thread has the text it handles, and the object it makes is of that call
MainOK ==
  /\ main \in [pc : {"wait", "blocked", "INVITE", "open", "insert", "BYE", "remove", "erase"},
               msg : {None} \cup Request, obj : {0} \cup DOMAIN objs]
  /\ Inviting => main.msg \in Request /\ main.msg.method = "INVITE"
  /\ Ending => main.msg \in Request /\ main.msg.method = "BYE"
  /\ main.pc \in {"open", "insert"} =>
       main.obj \in DOMAIN objs /\ objs[main.obj].cid = main.msg.call
  /\ Inviting \/ Ending => g_siprec_addr # None
\* the epoll thread knows what it is about to write
EpollOK ==
  /\ epoll \in [pc : {"idle", "notify", "write"}, obj : {0} \cup DOMAIN objs,
                index : Index, from : {None} \cup Stream]
  /\ epoll.pc = "write" => epoll.obj \in DOMAIN objs /\ epoll.from \in Stream
JobsOK == jobs \in SUBSET Job
KernelOK ==
  /\ bound \in SUBSET ((DOMAIN objs) \X Line)
  /\ rq \in SUBSET ((DOMAIN objs) \X Line \X Stream)
\* a FILE that is open on a name has its file there
DiskOK ==
  /\ raw \in [File -> {None} \cup SUBSET Stream]
  /\ wav \in [File -> {None} \cup SUBSET Stream]
  /\ \A o \in DOMAIN objs, l \in Line, i \in Index :
       objs[o].media_list[l].fh[i] = "open" => raw[<<objs[o].cid, l, i>>] # None
\* what has been lost can be counted
OutsideOK == OutsideTypeOK /\ IsFiniteSet(lost)

TypeInv ==
  /\ TextsOK /\ ObjsOK /\ MapOK /\ MainOK /\ EpollOK
  /\ JobsOK /\ KernelOK /\ DiskOK /\ OutsideOK

LEMMA TypesTyped == TypeInv => TypeOK
  <1> SUFFICES ASSUME TypeInv PROVE TypeOK
    OBVIOUS
  <1>1. ServerTypeOK
    BY DEF TypeInv, TextsOK, ObjsOK, MapOK, ServerTypeOK
  <1>2. ThreadsTypeOK
    BY DEF TypeInv, MainOK, EpollOK, JobsOK, ThreadsTypeOK
  <1>3. SystemTypeOK
    BY DEF TypeInv, KernelOK, DiskOK, SystemTypeOK
  <1> QED BY <1>1, <1>2, <1>3 DEF TypeInv, OutsideOK, TypeOK

LEMMA TypeInit == Init => TypeInv
  <1> SUFFICES ASSUME Init PROVE TypeInv
    OBVIOUS
  <1>1. TextsOK /\ ObjsOK /\ MapOK
    BY DEF Init, TextsOK, ObjsOK, MapOK
  <1>2. MainOK /\ EpollOK /\ JobsOK
    BY DEF Init, MainOK, Inviting, Ending, EpollOK, JobsOK, Index
  <1>3. KernelOK /\ DiskOK
    BY DEF Init, KernelOK, DiskOK
  <1>4. OutsideOK
    BY ConstantsAssumption, FS_EmptySet DEF Init, OutsideOK, OutsideTypeOK
  <1> QED BY <1>1, <1>2, <1>3, <1>4 DEF TypeInv

LEMMA ReqTypes ==
  /\ \A c \in Calls, k \in {"INVITE", "ACK", "BYE"} : Req(k, c) \in Request
  /\ \A m \in Request : m.call \in Calls /\ m.method \in {"INVITE", "ACK", "BYE"}
  BY DEF Req, Request

LEMMA ObjsKept == ASSUME ObjsOK, UNCHANGED objs PROVE ObjsStep /\ NoneOpened
  BY DEF ObjsOK, ObjsStep, NoneOpened

\* What a step leaves alone keeps its type, although the objects have changed.
LEMMA Frames ==
  ASSUME TypeInv, ObjsStep
  PROVE  /\ ObjsOK'
         /\ UNCHANGED <<up, g_siprec_addr, g_siprec_queue>> => TextsOK'
         /\ UNCHANGED g_call_factory => MapOK'
         /\ UNCHANGED main /\ (g_siprec_addr # None => g_siprec_addr' # None) => MainOK'
         /\ UNCHANGED epoll => EpollOK'
         /\ UNCHANGED jobs => JobsOK'
         /\ UNCHANGED bound /\ rq' \subseteq rq => KernelOK'
         /\ UNCHANGED <<raw, wav>> /\ NoneOpened => DiskOK'
         /\ UNCHANGED outside => OutsideOK'
  <1>1. ObjsOK'
    BY DEF ObjsStep, ObjsOK
  <1>2. ASSUME UNCHANGED g_call_factory PROVE MapOK'
    BY <1>2 DEF TypeInv, ObjsStep, MapOK
  <1>3. ASSUME UNCHANGED main, g_siprec_addr # None => g_siprec_addr' # None PROVE MainOK'
    BY <1>3 DEF TypeInv, ObjsStep, MainOK, Inviting, Ending
  <1>4. ASSUME UNCHANGED epoll PROVE EpollOK'
    BY <1>4 DEF TypeInv, ObjsStep, EpollOK
  <1>5. ASSUME UNCHANGED jobs PROVE JobsOK'
    BY <1>5 DEF TypeInv, ObjsStep, JobsOK, Job
  <1>6. ASSUME UNCHANGED bound, rq' \subseteq rq PROVE KernelOK'
    BY <1>6 DEF TypeInv, ObjsStep, KernelOK
  <1>7. ASSUME UNCHANGED outside PROVE OutsideOK'
    BY <1>7 DEF TypeInv, OutsideOK, OutsideTypeOK, outside
  <1>8. ASSUME UNCHANGED <<raw, wav>>, NoneOpened PROVE DiskOK'
    <2>1. raw' \in [File -> {None} \cup SUBSET Stream] /\ wav' \in [File -> {None} \cup SUBSET Stream]
      BY <1>8 DEF TypeInv, DiskOK
    <2>2. ASSUME NEW o \in DOMAIN objs', NEW l \in Line, NEW i \in Index,
                 objs'[o].media_list[l].fh[i] = "open"
          PROVE  raw'[<<objs'[o].cid, l, i>>] # None
      <3>1. o \in DOMAIN objs /\ objs[o].media_list[l].fh[i] = "open"
        BY <1>8, <2>2 DEF NoneOpened
      <3>2. raw[<<objs[o].cid, l, i>>] # None
        BY <3>1 DEF TypeInv, DiskOK
      <3>3. objs'[o].cid = objs[o].cid
        BY <3>1 DEF ObjsStep
      <3> QED BY <1>8, <3>2, <3>3
    <2> QED BY <2>1, <2>2 DEF DiskOK
  <1> QED BY <1>1, <1>2, <1>3, <1>4, <1>5, <1>6, <1>7, <1>8 DEF TypeInv, TextsOK

\* The main thread goes on with what it has, the epoll thread with nothing.
LEMMA MainGoes ==
  ASSUME TypeInv, ObjsStep, NEW pc \in {"wait", "blocked", "insert", "remove", "erase"},
         main' = Goto(pc), UNCHANGED g_siprec_addr, pc = "insert" => main.pc = "open",
         pc \in {"remove", "erase"} => Ending
  PROVE  MainOK'
  <1>1. main \in [pc : {"wait", "blocked", "INVITE", "open", "insert", "BYE", "remove", "erase"},
                  msg : {None} \cup Request, obj : {0} \cup DOMAIN objs']
    BY DEF TypeInv, MainOK, ObjsStep
  <1>2. /\ main' \in [pc : {"wait", "blocked", "INVITE", "open", "insert", "BYE", "remove", "erase"},
                      msg : {None} \cup Request, obj : {0} \cup DOMAIN objs']
        /\ main'.pc = pc /\ main'.msg = main.msg /\ main'.obj = main.obj
    BY <1>1 DEF Goto
  <1> QED BY <1>2 DEF TypeInv, MainOK, Inviting, Ending, ObjsStep

LEMMA EpollRests ==
  ASSUME TypeInv, ObjsStep, NEW pc \in {"idle", "notify"}, epoll' = [epoll EXCEPT !.pc = pc]
  PROVE  EpollOK'
  <1>1. epoll \in [pc : {"idle", "notify", "write"}, obj : {0} \cup DOMAIN objs',
                   index : Index, from : {None} \cup Stream]
    BY DEF TypeInv, EpollOK, ObjsStep
  <1> QED BY <1>1 DEF EpollOK

\* FreeSWITCH and the network.
LEMMA OutsideTypes ==
  ASSUME OutsideOK, Environment
  PROVE  OutsideOK'
  <1> USE DEF OutsideOK, OutsideTypeOK
  <1>1. ASSUME NEW c \in Calls, StartSession(c) \/ HangUp(c)
        PROVE  OutsideOK'
    BY <1>1, ReqTypes DEF StartSession, HangUp
  <1>2. ASSUME NEW c \in Calls, Retransmit(c) \/ GiveUp(c)
        PROVE  OutsideOK'
    BY <1>2, ReqTypes, ConstantsAssumption DEF Retransmit, GiveUp
  <1>3. ASSUME NEW r \in answers, GetOk(r)
        PROVE  OutsideOK'
    <2>1. r.call \in Calls
      BY DEF Answer
    <2>2. /\ answers' = answers \ {r} /\ UNCHANGED <<lost, retries>>
          /\ net' \in {net, net \cup {Req("ACK", r.call)}}
          /\ session' \in {session, [session EXCEPT ![r.call] = "up"],
                           [session EXCEPT ![r.call] = "done"]}
      BY <1>3 DEF GetOk
    <2> QED BY <2>1, <2>2, ReqTypes
  <1>4. ASSUME NEW m \in net \cup answers, Lose(m)
        PROVE  OutsideOK'
    <2>1. m.call \in Calls
      BY DEF Answer, Request
    <2>2. Cardinality(lost) \in Nat /\ Cardinality(lost) < MaxLoss
      BY <1>4, FS_CardinalityType DEF Lose
    <2>3. Cardinality(lost) + 1 \in 1 .. MaxLoss
      BY <2>2, ConstantsAssumption
    <2>4. /\ lost' = lost \cup {<<m.call, Cardinality(lost) + 1>>}
          /\ net' \subseteq net /\ answers' \subseteq answers /\ UNCHANGED <<session, retries>>
      BY <1>4 DEF Lose
    <2>5. IsFiniteSet(lost')
      BY <2>4, FS_AddElement
    <2> QED BY <2>1, <2>3, <2>4, <2>5
  <1>5. ASSUME NEW s \in Stream, SendRtp(s)
        PROVE  OutsideOK'
    BY <1>5 DEF SendRtp, outside
  <1> QED BY <1>1, <1>2, <1>3, <1>4, <1>5 DEF Environment

LEMMA EnvironmentTypes ==
  ASSUME TypeInv, Environment
  PROVE  TypeInv' /\ ObjsStep
  <1>1. /\ UNCHANGED <<up, g_siprec_addr, g_siprec_queue, g_call_factory, objs>>
        /\ UNCHANGED <<main, epoll, jobs, bound, raw, wav>>
    BY DEF Environment, StartSession, HangUp, Retransmit, GiveUp, GetOk, Lose, SendRtp,
           shared, calls, threads, kernel, disk
  <1>2. ObjsStep /\ NoneOpened
    BY <1>1, ObjsKept DEF TypeInv
  <1>3. OutsideOK'
    BY OutsideTypes DEF TypeInv
  <1>4. KernelOK'
    <2>1. ASSUME NEW s \in Stream, SendRtp(s) PROVE KernelOK'
      <3>1. PICK o \in DOMAIN objs : rq' = rq \cup {<<o, LineOf(s), s>>}
        BY <2>1 DEF SendRtp
      <3>2. LineOf(s) \in Line
        BY ConstantsAssumption DEF LineOf, Line
      <3> QED BY <1>1, <3>1, <3>2 DEF TypeInv, KernelOK
    <2>2. CASE UNCHANGED rq
      BY <1>1, <1>2, <2>2, Frames
    <2> QED BY <2>1, <2>2 DEF Environment, StartSession, HangUp, Retransmit, GiveUp, GetOk,
                              Lose, kernel
  <1>5. TextsOK' /\ ObjsOK' /\ MapOK' /\ MainOK' /\ EpollOK' /\ JobsOK' /\ DiskOK'
    BY <1>1, <1>2, Frames
  <1> QED BY <1>2, <1>3, <1>4, <1>5 DEF TypeInv

\* The epoll thread.
LEMMA EpollTypes ==
  ASSUME TypeInv, epoll_thread
  PROVE  TypeInv' /\ ObjsStep
  <1>1. CASE Notify
    <2>1. /\ UNCHANGED <<up, g_siprec_addr, g_siprec_queue, g_call_factory, objs, jobs>>
          /\ UNCHANGED <<bound, rq, raw, wav, outside>>
          /\ epoll' = [epoll EXCEPT !.pc = "idle"]
          /\ main' = main \/ main' = Goto("wait")
      BY <1>1 DEF Notify, shared, calls, kernel, disk, Goto
    <2>2. ObjsStep /\ NoneOpened
      BY <2>1, ObjsKept DEF TypeInv
    <2>3. MainOK'
      BY <2>1, <2>2, Frames, MainGoes
    <2>4. EpollOK'
      BY <2>1, <2>2, EpollRests
    <2>5. TextsOK' /\ ObjsOK' /\ MapOK' /\ JobsOK' /\ KernelOK' /\ DiskOK' /\ OutsideOK'
      BY <2>1, <2>2, Frames
    <2> QED BY <2>2, <2>3, <2>4, <2>5 DEF TypeInv
  <1>2. ASSUME NEW m \in net, RecvSip(m)
        PROVE  TypeInv' /\ ObjsStep
    <2>1. /\ UNCHANGED <<up, g_call_factory, objs, main, jobs, bound, rq, raw, wav>>
          /\ UNCHANGED <<session, answers, lost, retries>> /\ net' = net \ {m}
          /\ g_siprec_addr' = Addr[m.call] /\ g_siprec_queue' = Append(g_siprec_queue, m)
          /\ epoll' = [epoll EXCEPT !.pc = "notify"]
      BY <1>2 DEF RecvSip, calls, kernel, disk
    <2>2. ObjsStep /\ NoneOpened
      BY <2>1, ObjsKept DEF TypeInv
    <2>3. m \in Request /\ m.call \in Calls
      BY <1>2, ReqTypes DEF TypeInv, OutsideOK, OutsideTypeOK
    <2>4. TextsOK'
      BY <2>1, <2>3, ConstantsAssumption DEF TypeInv, TextsOK
    <2>5. EpollOK'
      BY <2>1, <2>2, EpollRests
    <2>6. OutsideOK'
      BY <2>1 DEF TypeInv, OutsideOK, OutsideTypeOK
    <2>7. ObjsOK' /\ MapOK' /\ JobsOK' /\ KernelOK' /\ DiskOK'
      BY <2>1, <2>2, Frames
    <2>8. MainOK'
      BY <2>1, <2>2, <2>3, Frames, ConstantsAssumption
    <2> QED BY <2>2, <2>4, <2>5, <2>6, <2>7, <2>8 DEF TypeInv
  <1>3. ASSUME NEW o \in DOMAIN objs, NEW l \in Line, NEW s \in Stream,
               TakeRtp(o, l, s) \/ DropRtp(o, l, s) \/ LookupFaults(o, l, s)
        PROVE  TypeInv' /\ ObjsStep
    <2>1. /\ UNCHANGED <<g_siprec_addr, g_siprec_queue, g_call_factory, main, jobs>>
          /\ UNCHANGED <<bound, raw, wav, outside>> /\ rq' \subseteq rq
      BY <1>3 DEF TakeRtp, DropRtp, LookupFaults, ReadRtp, disk
    <2>2. ObjsStep /\ NoneOpened
      <3>1. CASE TakeRtp(o, l, s)
        <4>1. PICK ml : /\ Becomes(o, ml, objs[o].alive)
                        /\ \A k \in Line : ml[k].fh = objs[o].media_list[k].fh
          BY <3>1, TakeStep DEF TypeInv, ObjsOK
        <4>2. /\ ObjsStep /\ DOMAIN objs' = DOMAIN objs
              /\ objs'[o].media_list = ml
              /\ \A p \in DOMAIN objs : p # o => objs'[p] = objs[p]
          BY <4>1, ObjectParts, BecomesStep DEF TypeInv, ObjsOK
        <4>3. NoneOpened
          BY <4>1, <4>2 DEF NoneOpened
        <4> QED BY <4>2, <4>3
      <3>2. CASE UNCHANGED objs
        BY <3>2, ObjsKept DEF TypeInv
      <3> QED BY <1>3, <3>1, <3>2 DEF DropRtp, LookupFaults
    <2>3. TextsOK'
      BY <1>3, <2>1 DEF TypeInv, TextsOK, TakeRtp, DropRtp, LookupFaults
    <2>4. EpollOK'
      <3>1. CASE UNCHANGED epoll
        BY <2>2, <3>1, Frames
      <3>2. CASE epoll' # epoll
        <4>1. TakeRtp(o, l, s)
          BY <1>3, <3>2 DEF DropRtp, LookupFaults
        <4>2. \E i \in {0, 1} : epoll' = [pc |-> "write", obj |-> o, index |-> i, from |-> s]
          BY <3>2, <4>1 DEF TakeRtp, SourceIndex
        <4> QED BY <2>2, <4>2 DEF EpollOK, ObjsStep, Index
      <3> QED BY <3>1, <3>2
    <2>5. ObjsOK' /\ MapOK' /\ MainOK' /\ JobsOK' /\ KernelOK' /\ DiskOK' /\ OutsideOK'
      BY <2>1, <2>2, Frames
    <2> QED BY <2>2, <2>3, <2>4, <2>5 DEF TypeInv
  <1>4. CASE WriteRtp
    <2>1. /\ UNCHANGED <<g_siprec_addr, g_siprec_queue, g_call_factory, objs, main, jobs>>
          /\ UNCHANGED <<bound, rq, wav, outside>>
          /\ epoll' = [epoll EXCEPT !.pc = "idle"]
      BY <1>4 DEF WriteRtp, calls, kernel
    <2>2. ObjsStep /\ NoneOpened
      BY <2>1, ObjsKept DEF TypeInv
    <2>3. TextsOK'
      BY <1>4, <2>1 DEF TypeInv, TextsOK, WriteRtp
    <2>4. EpollOK'
      BY <2>1, <2>2, EpollRests
    <2>5. DiskOK'
      <3>1. CASE UNCHANGED raw
        BY <2>1, <2>2, <3>1, Frames
      <3>2. CASE /\ Target.media_list[1].fh[epoll.index] = "open"
                 /\ raw' = [raw EXCEPT ![TargetFile] = @ \cup {epoll.from}]
        <4>1. /\ epoll.obj \in DOMAIN objs /\ epoll.from \in Stream /\ epoll.index \in Index
              /\ 1 \in Line /\ TargetFile \in File
          <5>1. /\ epoll.obj \in DOMAIN objs /\ epoll.from \in Stream /\ epoll.index \in Index
                /\ 1 \in Line
            BY <1>4, ConstantsAssumption DEF WriteRtp, TypeInv, EpollOK, Line
          <5> QED BY <5>1, ObjectParts DEF TypeInv, ObjsOK, TargetFile, Target, File
        <4>2. raw[TargetFile] \in SUBSET Stream
          <5>1. raw[TargetFile] # None
            BY <3>2, <4>1 DEF TypeInv, DiskOK, Target, TargetFile
          <5> QED BY <4>1, <5>1 DEF TypeInv, DiskOK
        <4> DEFINE now == raw[TargetFile] \cup {epoll.from}
        <4>3. now \in SUBSET Stream /\ now # None
          BY <4>1, <4>2, ConstantsAssumption
        <4> HIDE DEF now
        <4>4. \A f \in File : raw'[f] = IF f = TargetFile THEN now ELSE raw[f]
          BY <3>2 DEF TypeInv, DiskOK, now
        <4>5. raw' \in [File -> {None} \cup SUBSET Stream]
          BY <3>2, <4>3 DEF TypeInv, DiskOK, now
        <4>6. \A f \in File : raw[f] # None => raw'[f] # None
          BY <4>3, <4>4
        <4>7. \A o \in DOMAIN objs, l \in Line, i \in Index : <<objs[o].cid, l, i>> \in File
          BY ObjectParts DEF TypeInv, ObjsOK, File
        <4> QED BY <2>1, <4>5, <4>6, <4>7 DEF TypeInv, DiskOK
      <3> QED BY <1>4, <3>1, <3>2 DEF WriteRtp
    <2>6. ObjsOK' /\ MapOK' /\ MainOK' /\ JobsOK' /\ KernelOK' /\ OutsideOK'
      BY <2>1, <2>2, Frames
    <2> QED BY <2>2, <2>3, <2>4, <2>5, <2>6 DEF TypeInv
  <1>5. ASSUME NEW q \in rq
        PROVE  q[1] \in DOMAIN objs /\ q[2] \in Line /\ q[3] \in Stream
    BY DEF TypeInv, KernelOK
  <1> QED BY <1>1, <1>2, <1>3, <1>4, <1>5 DEF epoll_thread, do_rtp
\* A text that leads nowhere, and the loop around the queue.
LEMMA WaitTypes ==
  ASSUME TypeInv, Wait \/ Wake \/ Take \/ RemoveUnknown
  PROVE  TypeInv'
  <1>1. /\ UNCHANGED <<up, g_siprec_addr, g_call_factory, objs, epoll, jobs>>
        /\ UNCHANGED <<bound, rq, raw, wav, outside>>
    BY DEF Wait, Wake, Take, RemoveUnknown, shared, calls, kernel, disk
  <1>2. ObjsStep /\ NoneOpened
    BY <1>1, ObjsKept DEF TypeInv
  <1>3. TextsOK' /\ MainOK'
    <2>1. CASE Wait \/ Wake \/ RemoveUnknown
      <3>1. UNCHANGED g_siprec_queue /\ \E pc \in {"wait", "blocked"} : main' = Goto(pc)
        BY <2>1 DEF Wait, Wake, RemoveUnknown, shared
      <3> QED BY <1>1, <1>2, <3>1, Frames, MainGoes
    <2>2. CASE Take
      <3> DEFINE m == Head(g_siprec_queue)
      <3>1. m \in Request /\ g_siprec_queue' \in Seq(Request) /\ g_siprec_addr # None
        BY <2>2 DEF Take, TypeInv, TextsOK
      <3>2. TextsOK'
        BY <1>1, <3>1 DEF TypeInv, TextsOK
      <3>3. \/ main' = main
            \/ /\ m.method \in {"INVITE", "BYE"}
               /\ main' = [main EXCEPT !.pc = m.method, !.msg = m]
        BY <2>2 DEF Take
      <3> HIDE DEF m
      <3>4. CASE main' = main
        BY <1>1, <1>2, <3>2, <3>4, Frames
      <3>5. CASE /\ m.method \in {"INVITE", "BYE"}
                 /\ main' = [main EXCEPT !.pc = m.method, !.msg = m]
        <4>1. main'.pc = m.method /\ main'.msg = m
          BY <3>5 DEF TypeInv, MainOK
        <4>2. main' \in [pc : {"wait", "blocked", "INVITE", "open", "insert", "BYE", "remove", "erase"},
                         msg : {None} \cup Request, obj : {0} \cup DOMAIN objs]
          BY <3>1, <3>5 DEF TypeInv, MainOK
        <4> QED BY <1>1, <3>1, <3>2, <3>5, <4>1, <4>2 DEF MainOK, Inviting, Ending
      <3> QED BY <3>3, <3>4, <3>5
    <2> QED BY <2>1, <2>2
  <1>4. ObjsOK' /\ MapOK' /\ EpollOK' /\ JobsOK' /\ KernelOK' /\ DiskOK' /\ OutsideOK'
    BY <1>1, <1>2, Frames
  <1> QED BY <1>3, <1>4 DEF TypeInv

LEMMA OkSent ==
  ASSUME TypeInv, Inviting \/ Ending, SendOk, UNCHANGED <<session, net, lost, retries>>
  PROVE  OutsideOK'
  <1>1. main.msg.call \in Calls /\ main.msg.method \in {"INVITE", "BYE"}
    BY ReqTypes DEF TypeInv, MainOK
  <1>2. g_siprec_addr \in {Addr[c] : c \in Calls}
    BY DEF TypeInv, TextsOK, MainOK
  <1>3. answers' \subseteq Answer
    BY <1>1, <1>2 DEF SendOk, Answer, TypeInv, OutsideOK, OutsideTypeOK
  <1> QED BY <1>3 DEF TypeInv, OutsideOK, OutsideTypeOK

LEMMA AcceptTypes ==
  ASSUME TypeInv, AcceptInvite
  PROVE  TypeInv'
  <1>1. /\ UNCHANGED <<up, g_siprec_addr, g_siprec_queue, g_call_factory, epoll, jobs>>
        /\ UNCHANGED <<rq, raw, wav, session, net, lost, retries>>
        /\ bound' = bound \cup {<<Len(objs) + 1, l>> : l \in SocketsFor(FreeFds)}
        /\ main' = [main EXCEPT !.pc = "open", !.obj = Len(objs) + 1]
        /\ SendOk /\ main.pc = "INVITE"
    BY DEF AcceptInvite, shared, disk
  <1>2. /\ Inviting /\ g_siprec_addr # None
        /\ main.msg \in Request /\ main.msg.method = "INVITE" /\ main.msg.call \in Calls
    BY <1>1, ReqTypes DEF TypeInv, MainOK, Inviting
  <1>3. /\ ObjsStep /\ DOMAIN objs' = 1 .. (Len(objs) + 1)
        /\ \A o \in DOMAIN objs : objs'[o] = objs[o]
        /\ objs'[Len(objs) + 1].cid = main.msg.call
        /\ \A l \in Line, i \in Index : objs'[Len(objs) + 1].media_list[l].fh[i] = "null"
    BY <1>2, AcceptStep DEF TypeInv, ObjsOK
  <1>4. DOMAIN objs = 1 .. Len(objs) /\ Len(objs) \in Nat
    BY DEF TypeInv, ObjsOK
  <1>5. NoneOpened
    BY <1>3, <1>4 DEF NoneOpened
  <1>6. KernelOK'
    <2>1. SocketsFor(FreeFds) \subseteq Line
      BY DEF SocketsFor
    <2> HIDE DEF SocketsFor
    <2> QED BY <1>1, <1>3, <1>4, <2>1 DEF TypeInv, KernelOK
  <1>7. MainOK'
    <2>1. main'.pc = "open" /\ main'.msg = main.msg /\ main'.obj = Len(objs) + 1
      BY <1>1 DEF TypeInv, MainOK
    <2>2. main' \in [pc : {"wait", "blocked", "INVITE", "open", "insert", "BYE", "remove", "erase"},
                     msg : {None} \cup Request, obj : {0} \cup DOMAIN objs']
      <3>1. main \in [pc : {"wait", "blocked", "INVITE", "open", "insert", "BYE", "remove", "erase"},
                      msg : {None} \cup Request, obj : {0} \cup DOMAIN objs']
        BY <1>3 DEF TypeInv, MainOK, ObjsStep
      <3>2. Len(objs) + 1 \in DOMAIN objs'
        BY <1>3, <1>4
      <3> QED BY <1>1, <3>1, <3>2
    <2>3. main'.obj \in DOMAIN objs' /\ objs'[main'.obj].cid = main'.msg.call
      BY <1>3, <1>4, <2>1
    <2>4. g_siprec_addr' # None /\ main'.msg \in Request /\ main'.msg.method = "INVITE"
      BY <1>1, <1>2, <2>1
    <2> QED BY <2>1, <2>2, <2>3, <2>4 DEF MainOK, Inviting, Ending
  <1>8. OutsideOK'
    BY <1>1, <1>2, OkSent
  <1>9. TextsOK' /\ ObjsOK' /\ MapOK' /\ EpollOK' /\ JobsOK' /\ DiskOK'
    BY <1>1, <1>3, <1>5, Frames
  <1> QED BY <1>6, <1>7, <1>8, <1>9 DEF TypeInv
LEMMA StartTypes ==
  ASSUME TypeInv, start_recording
  PROVE  TypeInv'
  <1>1. /\ UNCHANGED <<up, g_siprec_addr, g_siprec_queue, g_call_factory, epoll, jobs>>
        /\ UNCHANGED <<bound, rq, wav, outside>>
        /\ raw' = [f \in File |-> IF f[1] = main.msg.call /\ OpenedFirst(f[2], f[3]) THEN {} ELSE raw[f]]
        /\ main' = Goto("insert") /\ main.pc = "open"
    BY DEF start_recording, shared, kernel
  <1>2. main.obj \in DOMAIN objs /\ objs[main.obj].cid = main.msg.call
    BY <1>1 DEF TypeInv, MainOK
  <1>3. PICK ml : /\ Becomes(main.obj, ml, objs[main.obj].alive)
                  /\ \A l \in Line, i \in Index :
                       ml[l].fh[i] = IF OpenedFirst(l, i) THEN "open" ELSE "null"
    BY <1>2, StartStep DEF TypeInv, ObjsOK
  <1>4. /\ ObjsStep /\ DOMAIN objs' = DOMAIN objs
        /\ objs'[main.obj].cid = objs[main.obj].cid /\ objs'[main.obj].media_list = ml
        /\ \A p \in DOMAIN objs : p # main.obj => objs'[p] = objs[p]
    BY <1>2, <1>3, ObjectParts, BecomesStep DEF TypeInv, ObjsOK
  <1>5. DiskOK'
    <2>1. raw' \in [File -> {None} \cup SUBSET Stream]
      BY <1>1 DEF TypeInv, DiskOK
    <2>2. \A f \in File : raw[f] # None => raw'[f] # None
      BY <1>1, ConstantsAssumption
    <2>3. ASSUME NEW o \in DOMAIN objs', NEW l \in Line, NEW i \in Index,
                 objs'[o].media_list[l].fh[i] = "open"
          PROVE  raw'[<<objs'[o].cid, l, i>>] # None
      <3> DEFINE f == <<objs[o].cid, l, i>>
      <3>1. o \in DOMAIN objs /\ objs'[o].cid = objs[o].cid /\ f \in File
        BY <1>4, ObjectParts DEF ObjsStep, TypeInv, ObjsOK, File
      <3>2. CASE o = main.obj
        <4>1. OpenedFirst(l, i)
          BY <1>3, <1>4, <2>3, <3>2
        <4>2. f[1] = main.msg.call /\ f[2] = l /\ f[3] = i
          BY <1>2, <3>2
        <4> HIDE DEF f
        <4>3. raw'[f] = {}
          BY <1>1, <3>1, <4>1, <4>2
        <4> QED BY <3>1, <4>3, ConstantsAssumption DEF f
      <3>3. CASE o # main.obj
        <4>1. raw[f] # None
          BY <1>4, <2>3, <3>1, <3>3 DEF TypeInv, DiskOK
        <4> QED BY <2>2, <3>1, <4>1
      <3> QED BY <3>2, <3>3
    <2> QED BY <1>1, <2>1, <2>3 DEF TypeInv, DiskOK
  <1>6. MainOK'
    BY <1>1, <1>4, MainGoes
  <1>7. TextsOK' /\ ObjsOK' /\ MapOK' /\ EpollOK' /\ JobsOK' /\ KernelOK' /\ OutsideOK'
    BY <1>1, <1>4, Frames
  <1> QED BY <1>5, <1>6, <1>7 DEF TypeInv

LEMMA InsertTypes ==
  ASSUME TypeInv, Insert \/ AnswerBye \/ Erase
  PROVE  TypeInv'
  <1>1. /\ UNCHANGED <<up, g_siprec_addr, g_siprec_queue, objs, epoll, jobs, bound, rq, raw, wav>>
        /\ main' = Goto("wait") \/ (main' = Goto("remove") /\ main.pc = "BYE")
    <2>1. CASE Insert \/ Erase
      BY <2>1 DEF Insert, Erase, shared, kernel, disk
    <2>2. CASE AnswerBye
      BY <2>2 DEF AnswerBye, shared, calls, kernel, disk
    <2> QED BY <2>1, <2>2
  <1>2. ObjsStep /\ NoneOpened
    BY <1>1, ObjsKept DEF TypeInv
  <1>3. MainOK'
    BY <1>1, <1>2, MainGoes DEF Ending
  <1>4. MapOK'
    <2>1. CASE Insert
      <3>1. /\ main.obj \in DOMAIN objs /\ objs[main.obj].cid = main.msg.call
            /\ g_call_factory' = [g_call_factory EXCEPT ![main.msg.call] = main.obj]
        BY <2>1 DEF Insert, TypeInv, MainOK
      <3> QED BY <1>1, <3>1 DEF TypeInv, MapOK
    <2>2. CASE Erase
      <3>1. g_call_factory' = [g_call_factory EXCEPT ![main.msg.call] = 0]
        BY <2>2 DEF Erase
      <3> QED BY <1>1, <3>1 DEF TypeInv, MapOK
    <2>3. CASE AnswerBye
      BY <1>2, <2>3, Frames DEF AnswerBye, calls
    <2> QED BY <2>1, <2>2, <2>3
  <1>5. OutsideOK'
    <2>1. CASE AnswerBye
      BY <2>1, OkSent DEF AnswerBye, Ending
    <2>2. CASE Insert \/ Erase
      BY <1>2, <2>2, Frames DEF Insert, Erase
    <2> QED BY <2>1, <2>2
  <1>6. TextsOK' /\ ObjsOK' /\ EpollOK' /\ JobsOK' /\ KernelOK' /\ DiskOK'
    BY <1>1, <1>2, Frames
  <1> QED BY <1>3, <1>4, <1>5, <1>6 DEF TypeInv

LEMMA DeleteTypes ==
  ASSUME TypeInv, Delete
  PROVE  TypeInv'
  <1> DEFINE o == g_call_factory[main.msg.call]
             old == objs[o].media_list
             new == {[obj |-> o, line |-> l, index |-> 0, step |-> "sox"] :
                       l \in {k \in Line : Converts(old[k])}}
  <1>1. /\ UNCHANGED <<up, g_siprec_addr, g_siprec_queue, g_call_factory, epoll>>
        /\ UNCHANGED <<bound, rq, raw, wav, outside>>
        /\ jobs' = jobs \cup new
        /\ main' = Goto("erase") /\ main.pc = "remove" /\ o # 0
    BY DEF Delete, shared, kernel, disk
  <1>2. o \in DOMAIN objs
    <2>1. main.msg.call \in Calls
      BY <1>1, ReqTypes DEF TypeInv, MainOK, Ending
    <2> QED BY <1>1, <2>1 DEF TypeInv, MapOK
  <1>3. PICK ml : /\ Becomes(o, ml, FALSE)
                  /\ \A l \in Line :
                       IF Converts(objs[o].media_list[l])
                       THEN \A i \in Index : ml[l].fh[i] = "closed"
                       ELSE ml[l] = objs[o].media_list[l]
    BY <1>2, DeleteStep DEF TypeInv, ObjsOK
  <1>4. /\ ObjsStep /\ DOMAIN objs' = DOMAIN objs /\ objs'[o].media_list = ml
        /\ \A p \in DOMAIN objs : p # o => objs'[p] = objs[p]
    BY <1>2, <1>3, BecomesStep DEF TypeInv, ObjsOK
  <1>5. NoneOpened
    BY <1>3, <1>4 DEF NoneOpened
  <1>6. JobsOK'
    <2>1. new \subseteq Job'
      BY <1>2, <1>4 DEF Job, Index
    <2>2. jobs \subseteq Job'
      BY <1>4 DEF TypeInv, JobsOK, Job
    <2> HIDE DEF new
    <2> QED BY <1>1, <2>1, <2>2 DEF JobsOK
  <1>7. MainOK'
    BY <1>1, <1>4, MainGoes DEF Ending
  <1>8. TextsOK' /\ ObjsOK' /\ MapOK' /\ EpollOK' /\ KernelOK' /\ DiskOK' /\ OutsideOK'
    BY <1>1, <1>4, <1>5, Frames
  <1> QED BY <1>6, <1>7, <1>8 DEF TypeInv

LEMMA MainTypes ==
  ASSUME TypeInv, main_thread
  PROVE  TypeInv'
  BY WaitTypes, AcceptTypes, StartTypes, InsertTypes, DeleteTypes
     DEF main_thread, do_siprec_message

\* The conversion threads.
LEMMA JobTypes ==
  ASSUME TypeInv, NEW j \in jobs
  PROVE  /\ j.obj \in DOMAIN objs /\ j.line \in Line /\ j.index \in Index /\ JobFile(j) \in File
         /\ [j EXCEPT !.step = "remove"] \in Job
         /\ [j EXCEPT !.index = 1, !.step = "sox"] \in Job
  <1>1. j \in Job
    BY DEF TypeInv, JobsOK
  <1>2. j.obj \in DOMAIN objs /\ j.line \in Line /\ j.index \in Index
    BY <1>1 DEF Job
  <1>3. JobFile(j) \in File
    BY <1>2, ObjectParts DEF TypeInv, ObjsOK, JobFile, File
  <1> QED BY <1>1, <1>2, <1>3 DEF Job, Index

LEMMA SoxTypes ==
  ASSUME TypeInv, NEW j \in jobs, Sox(j)
  PROVE  TypeInv'
  <1>1. /\ UNCHANGED <<up, g_siprec_addr, g_siprec_queue, g_call_factory, objs, main, epoll>>
        /\ UNCHANGED <<bound, rq, raw, outside>>
        /\ jobs' = (jobs \ {j}) \cup {[j EXCEPT !.step = "remove"]}
        /\ wav' = wav \/ wav' = [wav EXCEPT ![JobFile(j)] = raw[JobFile(j)]]
    BY DEF Sox, shared, calls, kernel
  <1>2. ObjsStep /\ NoneOpened
    BY <1>1, ObjsKept DEF TypeInv
  <1>3. JobsOK'
    BY <1>1, JobTypes DEF TypeInv, JobsOK, Job
  <1>4. DiskOK'
    <2>1. raw[JobFile(j)] \in {None} \cup SUBSET Stream
      BY JobTypes DEF TypeInv, DiskOK
    <2>2. wav' \in [File -> {None} \cup SUBSET Stream]
      BY <1>1, <2>1 DEF TypeInv, DiskOK
    <2> QED BY <1>1, <2>2 DEF TypeInv, DiskOK
  <1>5. TextsOK' /\ ObjsOK' /\ MapOK' /\ MainOK' /\ EpollOK' /\ KernelOK' /\ OutsideOK'
    BY <1>1, <1>2, Frames
  <1> QED BY <1>3, <1>4, <1>5 DEF TypeInv

LEMMA RemoveTypes ==
  ASSUME TypeInv, NEW j \in jobs, Remove(j)
  PROVE  TypeInv'
  <1> DEFINE f == JobFile(j)
  <1>1. /\ UNCHANGED <<up, g_siprec_addr, g_siprec_queue, g_call_factory, main, epoll>>
        /\ UNCHANGED <<bound, rq, wav, outside>>
        /\ raw' = [raw EXCEPT ![f] = None]
        /\ objs' = Unlink(f)
        /\ jobs' \subseteq jobs \cup {[j EXCEPT !.index = 1, !.step = "sox"]}
    BY DEF Remove, shared, kernel
  <1>2. f \in File
    BY JobTypes
  <1> HIDE DEF f
  <1>3. /\ ObjsStep /\ DOMAIN objs' = DOMAIN objs
        /\ \A o \in DOMAIN objs : \A l \in Line, i \in Index :
             objs'[o].media_list[l].fh[i] =
               IF Names(o, l, i, f) THEN "unlinked" ELSE objs[o].media_list[l].fh[i]
    BY <1>1, <1>2, UnlinkStep DEF TypeInv, ObjsOK
  <1>4. ASSUME NEW o \in DOMAIN objs', NEW l \in Line, NEW i \in Index,
               objs'[o].media_list[l].fh[i] = "open"
        PROVE  raw'[<<objs'[o].cid, l, i>>] # None
    <2> DEFINE g == <<objs[o].cid, l, i>>
    <2>1. o \in DOMAIN objs /\ objs'[o].cid = objs[o].cid /\ g \in File
      BY <1>3, ObjectParts DEF ObjsStep, TypeInv, ObjsOK, File
    <2>2. objs[o].media_list[l].fh[i] = "open" /\ ~ Names(o, l, i, f)
      BY <1>3, <1>4, <2>1
    <2>3. f = <<f[1], f[2], f[3]>>
      BY <1>2 DEF File
    <2>4. g # f
      BY <2>2, <2>3 DEF Names
    <2>5. raw[g] # None
      BY <2>1, <2>2 DEF TypeInv, DiskOK
    <2> HIDE DEF g
    <2>6. raw'[g] = raw[g]
      BY <1>1, <2>1, <2>4 DEF TypeInv, DiskOK
    <2> QED BY <2>1, <2>5, <2>6 DEF g
  <1>5. JobsOK'
    <2>1. Job' = Job
      BY <1>3 DEF Job
    <2> QED BY <1>1, <2>1, JobTypes DEF TypeInv, JobsOK
  <1>6. DiskOK'
    BY <1>1, <1>4 DEF TypeInv, DiskOK
  <1>7. TextsOK' /\ ObjsOK' /\ MapOK' /\ MainOK' /\ EpollOK' /\ KernelOK' /\ OutsideOK'
    BY <1>1, <1>3, Frames
  <1> QED BY <1>5, <1>6, <1>7 DEF TypeInv
LEMMA TypeInductive ==
  ASSUME TypeInv, [Next]_vars
  PROVE  TypeInv'
  <1>1. CASE UNCHANGED vars
    <2>1. /\ UNCHANGED <<up, g_siprec_addr, g_siprec_queue, g_call_factory, main, epoll, jobs>>
          /\ UNCHANGED <<objs, bound, rq, raw, wav, outside>>
      BY <1>1 DEF vars, outside
    <2>2. ObjsStep /\ NoneOpened
      BY <2>1, ObjsKept DEF TypeInv
    <2> QED BY <2>1, <2>2, Frames DEF TypeInv
  <1>2. CASE to_pcm_thread
    BY <1>2, SoxTypes, RemoveTypes DEF to_pcm_thread
  <1> QED BY <1>1, <1>2, EnvironmentTypes, EpollTypes, MainTypes DEF Next

\* The types of the variables, with what the threads are busy with, in one invariant.
THEOREM TypesHold == Spec => []TypeInv
  BY TypeInit, TypeInductive, PTL DEF Spec

\* Every variable has values of its kind: objects, texts and files are found where
\* the threads look for them, and an open recording is never taken for missing.
THEOREM TypeCorrect == Spec => []TypeOK
  BY TypesHold, TypesTyped, PTL

------------------------------------------------------------------------------
(* Until the first session is hung up.                                      *)

Over(c) == session[c] \in {"byeing", "done"}
HungUp == \E c \in Calls : Over(c)

\* A session that is over stays so.
LEMMA StaysOver ==
  ASSUME TypeInv, [Next]_vars, NEW c \in Calls, Over(c)
  PROVE  Over(c)'
  <1>1. session \in [Calls -> {"idle", "inviting", "up", "byeing", "done"}]
    BY DEF TypeInv, OutsideOK, OutsideTypeOK
  <1>2. ASSUME NEW x \in Calls,
               StartSession(x) \/ HangUp(x) \/ Retransmit(x) \/ GiveUp(x)
        PROVE  Over(c)'
    BY <1>1, <1>2 DEF StartSession, HangUp, Retransmit, GiveUp, Over
  <1>3. ASSUME NEW r \in answers, GetOk(r) PROVE Over(c)'
    BY <1>1, <1>3 DEF GetOk, Over
  <1>4. CASE UNCHANGED session
    BY <1>4 DEF Over
  <1>5. CASE epoll_thread \/ to_pcm_thread
    BY <1>4, <1>5 DEF epoll_thread, to_pcm_thread, do_rtp, Notify, TakeRtp, DropRtp, LookupFaults,
                      ReadRtp, WriteRtp, RecvSip, Sox, Remove, outside
  <1>6. CASE main_thread
    BY <1>4, <1>6 DEF main_thread, do_siprec_message, Wait, Wake, Take, AcceptInvite,
                      start_recording, Insert, AnswerBye, RemoveUnknown, Delete, Erase, outside
  <1>7. ASSUME NEW m \in net \cup answers, Lose(m) PROVE Over(c)'
    BY <1>4, <1>7 DEF Lose
  <1>8. ASSUME NEW s \in Stream, SendRtp(s) PROVE Over(c)'
    BY <1>4, <1>8 DEF SendRtp, outside
  <1> QED BY <1>2, <1>3, <1>4, <1>5, <1>6, <1>7, <1>8 DEF Next, Environment, vars

NobodyEnds ==
  /\ \A m \in net : m.method # "BYE"
  /\ \A k \in DOMAIN g_siprec_queue : g_siprec_queue[k].method # "BYE"
  /\ ~ Ending

AllAlive == up /\ NobodyEnds /\ \A o \in DOMAIN objs : objs[o].alive

LEMMA AliveEnvironment ==
  ASSUME TypeInv, AllAlive, ~ HungUp, Environment
  PROVE  AllAlive' \/ HungUp'
  <1>1. UNCHANGED <<up, g_siprec_queue, objs, main>>
    BY DEF Environment, StartSession, HangUp, Retransmit, GiveUp, GetOk, Lose, SendRtp,
           shared, calls, threads
  <1>2. \/ HungUp'
        \/ \A m \in net' : m \in net \/ m.method # "BYE"
    <2>1. ASSUME NEW c \in Calls, StartSession(c) PROVE \A m \in net' : m \in net \/ m.method # "BYE"
      BY <2>1 DEF StartSession, Req
    <2>2. ASSUME NEW c \in Calls, HangUp(c) PROVE HungUp'
      BY <2>2 DEF HangUp, HungUp, Over, TypeInv, OutsideOK, OutsideTypeOK
    <2>3. ASSUME NEW c \in Calls, Retransmit(c)
          PROVE \A m \in net' : m \in net \/ m.method # "BYE"
      BY <2>3 DEF Retransmit, Req, HungUp, Over
    <2>4. ASSUME NEW c \in Calls, GiveUp(c) PROVE UNCHANGED net
      BY <2>4 DEF GiveUp
    <2>5. ASSUME NEW r \in answers, GetOk(r)
          PROVE \A m \in net' : m \in net \/ m.method # "BYE"
      BY <2>5 DEF GetOk, Req
    <2>6. ASSUME NEW m \in net \cup answers, Lose(m) PROVE net' \subseteq net
      BY <2>6 DEF Lose
    <2>7. ASSUME NEW s \in Stream, SendRtp(s) PROVE UNCHANGED net
      BY <2>7 DEF SendRtp, outside
    <2> QED BY <2>1, <2>2, <2>3, <2>4, <2>5, <2>6, <2>7 DEF Environment
  <1> QED BY <1>1, <1>2 DEF AllAlive, NobodyEnds, Ending

LEMMA AliveEpoll ==
  ASSUME TypeInv, AllAlive, epoll_thread
  PROVE  AllAlive'
  <1>1. CASE Notify
    BY <1>1 DEF Notify, shared, calls, outside, AllAlive, NobodyEnds, Ending, TypeInv, MainOK
  <1>2. ASSUME NEW m \in net, RecvSip(m) PROVE AllAlive'
    <2>1. /\ g_siprec_queue' = Append(g_siprec_queue, m) /\ net' = net \ {m}
          /\ UNCHANGED <<up, objs, main>>
      BY <1>2 DEF RecvSip, calls
    <2>2. g_siprec_queue \in Seq(Request) /\ m \in Request
      BY DEF TypeInv, TextsOK, OutsideOK, OutsideTypeOK
    <2>3. \A k \in DOMAIN g_siprec_queue' : g_siprec_queue'[k].method # "BYE"
      BY <2>1, <2>2 DEF AllAlive, NobodyEnds
    <2> QED BY <2>1, <2>3 DEF AllAlive, NobodyEnds, Ending
  <1>3. ASSUME NEW o \in DOMAIN objs, NEW l \in Line, NEW s \in Stream, TakeRtp(o, l, s)
        PROVE  AllAlive'
    <2>1. PICK ml : Becomes(o, ml, objs[o].alive)
      BY <1>3, TakeStep DEF TypeInv, ObjsOK
    <2>2. /\ DOMAIN objs' = DOMAIN objs /\ objs'[o].alive = objs[o].alive
          /\ \A p \in DOMAIN objs : p # o => objs'[p] = objs[p]
      BY <2>1, ObjectParts, BecomesStep DEF TypeInv, ObjsOK
    <2>3. UNCHANGED <<up, g_siprec_queue, main, net>>
      BY <1>3 DEF TakeRtp, ReadRtp, outside
    <2> QED BY <2>2, <2>3 DEF AllAlive, NobodyEnds, Ending
  <1>4. ASSUME NEW o, NEW l, NEW s, DropRtp(o, l, s) PROVE AllAlive'
    BY <1>4 DEF DropRtp, ReadRtp, outside, AllAlive, NobodyEnds, Ending
  <1>5. ASSUME NEW o, NEW l, NEW s, LookupFaults(o, l, s) PROVE FALSE
    BY <1>5 DEF LookupFaults, AllAlive, NobodyEnds, Ending
  <1>6. CASE WriteRtp
    <2>1. epoll.obj \in DOMAIN objs
      BY <1>6 DEF WriteRtp, TypeInv, EpollOK
    <2>2. up'
      BY <1>6, <2>1 DEF WriteRtp, Target, AllAlive
    <2> QED BY <1>6, <2>2 DEF WriteRtp, calls, outside, AllAlive, NobodyEnds, Ending
  <1>7. \A q \in rq : q[1] \in DOMAIN objs /\ q[2] \in Line /\ q[3] \in Stream
    BY DEF TypeInv, KernelOK
  <1> QED BY <1>1, <1>2, <1>3, <1>4, <1>5, <1>6, <1>7 DEF epoll_thread, do_rtp

LEMMA AliveMain ==
  ASSUME TypeInv, AllAlive, main_thread
  PROVE  AllAlive'
  <1>1. CASE Wait \/ Wake \/ Insert
    <2>1. UNCHANGED <<up, g_siprec_queue, objs, net>> /\ main'.pc \in {"wait", "blocked"}
      BY <1>1 DEF Wait, Wake, Insert, Goto, shared, calls, outside, TypeInv, MainOK
    <2> QED BY <2>1 DEF AllAlive, NobodyEnds, Ending
  <1>2. CASE Take
    <2> DEFINE m == Head(g_siprec_queue)
    <2>1. /\ g_siprec_queue \in Seq(Request) /\ g_siprec_queue # <<>> /\ main.pc = "wait"
          /\ g_siprec_queue' = Tail(g_siprec_queue) /\ UNCHANGED <<up, objs, net>>
          /\ m.method # "BYE"
          /\ main' = main \/ (m.method = "INVITE" /\ main' = [main EXCEPT !.pc = m.method, !.msg = m])
      <3>1. g_siprec_queue \in Seq(Request) /\ g_siprec_queue # <<>>
        BY <1>2 DEF Take, TypeInv, TextsOK
      <3>2. 1 \in DOMAIN g_siprec_queue /\ m = g_siprec_queue[1]
        BY <3>1
      <3>3. m.method # "BYE"
        BY <3>2 DEF AllAlive, NobodyEnds
      <3> QED BY <1>2, <3>1, <3>3 DEF Take, calls, outside
    <2>2. \A k \in DOMAIN g_siprec_queue' : g_siprec_queue'[k].method # "BYE"
      BY <2>1 DEF AllAlive, NobodyEnds
    <2>3. ~ Ending'
      BY <2>1 DEF Ending, TypeInv, MainOK
    <2> QED BY <2>1, <2>2, <2>3 DEF AllAlive, NobodyEnds
  <1>3. CASE AcceptInvite
    <2>1. main.msg.call \in Calls
      BY <1>3, ReqTypes DEF AcceptInvite, TypeInv, MainOK, Inviting
    <2>2. /\ DOMAIN objs' = 1 .. (Len(objs) + 1)
          /\ \A o \in DOMAIN objs : objs'[o] = objs[o]
          /\ objs'[Len(objs) + 1].alive
      BY <1>3, <2>1, AcceptStep DEF TypeInv, ObjsOK
    <2>3. DOMAIN objs = 1 .. Len(objs) /\ Len(objs) \in Nat
      BY DEF TypeInv, ObjsOK
    <2>4. \A o \in DOMAIN objs' : objs'[o].alive
      BY <2>2, <2>3 DEF AllAlive
    <2>5. UNCHANGED <<up, g_siprec_queue, net>> /\ main'.pc = "open"
      BY <1>3 DEF AcceptInvite, shared, TypeInv, MainOK
    <2> QED BY <2>4, <2>5 DEF AllAlive, NobodyEnds, Ending
  <1>4. CASE start_recording
    <2>1. main.obj \in DOMAIN objs
      BY <1>4 DEF start_recording, TypeInv, MainOK
    <2>2. PICK ml : Becomes(main.obj, ml, objs[main.obj].alive)
      BY <1>4, <2>1, StartStep DEF TypeInv, ObjsOK
    <2>3. /\ DOMAIN objs' = DOMAIN objs /\ objs'[main.obj].alive = objs[main.obj].alive
          /\ \A p \in DOMAIN objs : p # main.obj => objs'[p] = objs[p]
      BY <2>1, <2>2, ObjectParts, BecomesStep DEF TypeInv, ObjsOK
    <2>4. UNCHANGED <<up, g_siprec_queue, net>> /\ main'.pc = "insert"
      BY <1>4 DEF start_recording, shared, outside, Goto, TypeInv, MainOK
    <2> QED BY <2>1, <2>3, <2>4 DEF AllAlive, NobodyEnds, Ending
  <1>5. CASE AnswerBye \/ RemoveUnknown \/ Delete \/ Erase
    BY <1>5 DEF AnswerBye, RemoveUnknown, Delete, Erase, AllAlive, NobodyEnds, Ending
  <1> QED BY <1>1, <1>2, <1>3, <1>4, <1>5 DEF main_thread, do_siprec_message

LEMMA AliveConversion ==
  ASSUME TypeInv, AllAlive, to_pcm_thread
  PROVE  AllAlive'
  <1>1. ASSUME NEW j \in jobs, Sox(j) PROVE AllAlive'
    BY <1>1 DEF Sox, shared, calls, outside, AllAlive, NobodyEnds, Ending
  <1>2. ASSUME NEW j \in jobs, Remove(j) PROVE AllAlive'
    <2>1. /\ DOMAIN objs' = DOMAIN objs
          /\ \A o \in DOMAIN objs : objs'[o].alive = objs[o].alive
      BY <1>2, JobTypes, UnlinkStep DEF Remove, TypeInv, ObjsOK
    <2>2. UNCHANGED <<up, g_siprec_queue, net, main>>
      BY <1>2 DEF Remove, shared, outside
    <2> QED BY <2>1, <2>2 DEF AllAlive, NobodyEnds, Ending
  <1> QED BY <1>1, <1>2 DEF to_pcm_thread

\* Whatever is lost, late, repeated or out of order, and however many sessions and
\* descriptors there are: until a session is hung up, or given up, no object is
\* freed, so that no packet brings the process down.
THEOREM NoEarlyFault == Spec => []NoFaultBeforeHangUp
  <1> DEFINE Inv == HungUp \/ AllAlive
  <1>1. Init => Inv
    BY DEF Init, AllAlive, NobodyEnds, Ending
  <1>2. TypeInv /\ Inv /\ [Next]_vars => Inv'
    <2> SUFFICES ASSUME TypeInv, Inv, [Next]_vars PROVE Inv'
      OBVIOUS
    <2>1. CASE HungUp
      BY <2>1, StaysOver DEF HungUp
    <2>2. CASE ~ HungUp /\ UNCHANGED vars
      BY <2>2 DEF vars, AllAlive, NobodyEnds, Ending
    <2> QED BY <2>1, <2>2, AliveEnvironment, AliveEpoll, AliveMain, AliveConversion DEF Next
  <1>3. Inv => NoFaultBeforeHangUp
    BY DEF HungUp, Over, AllAlive, NoFaultBeforeHangUp
  <1> QED BY <1>1, <1>2, <1>3, TypesHold, PTL DEF Spec
------------------------------------------------------------------------------
(* Requests in the order sent.                                              *)

InQueue(m) == \E k \in DOMAIN g_siprec_queue : g_siprec_queue[k] = m
Opening(c) == Inviting /\ main.msg.call = c
Closing(c) == Ending /\ main.msg.call = c
Deleted(c) == \E o \in DOMAIN objs : objs[o].cid = c /\ ~ objs[o].alive

\* no INVITE of c is left anywhere
NoInvite(c) == Req("INVITE", c) \notin net /\ ~ InQueue(Req("INVITE", c)) /\ ~ Opening(c)

\* nothing of the end of c is to be seen before it is hung up
EndsOver(c) ==
  Req("BYE", c) \in net \/ InQueue(Req("BYE", c)) \/ Closing(c) \/ Deleted(c) => Over(c)

\* a BYE is behind every INVITE of its session
ByeLast(c) ==
  \A k \in DOMAIN g_siprec_queue : g_siprec_queue[k] = Req("BYE", c) =>
    /\ Req("INVITE", c) \notin net
    /\ \A j \in DOMAIN g_siprec_queue : j > k => g_siprec_queue[j] # Req("INVITE", c)

Order(c) == EndsOver(c) /\ ByeLast(c) /\ (Closing(c) \/ Deleted(c) => NoInvite(c))
OrderInv == \A c \in Calls : Order(c)

LEMMA ReqParts ==
  /\ \A k, c : Req(k, c).method = k /\ Req(k, c).call = c
  /\ \A m \in Request : m = Req(m.method, m.call)
  BY DEF Req, Request

LEMMA Pushed ==
  ASSUME TypeInv, NEW m \in Request, g_siprec_queue' = Append(g_siprec_queue, m)
  PROVE  /\ \A x : InQueue(x)' => InQueue(x) \/ x = m
         /\ DOMAIN g_siprec_queue \subseteq DOMAIN g_siprec_queue'
         /\ \A k \in DOMAIN g_siprec_queue : g_siprec_queue'[k] = g_siprec_queue[k]
         /\ \A k \in DOMAIN g_siprec_queue' :
              k \in DOMAIN g_siprec_queue \/ (g_siprec_queue'[k] = m /\ k = Len(g_siprec_queue) + 1)
         /\ \A k \in DOMAIN g_siprec_queue' : k \in 1 .. (Len(g_siprec_queue) + 1)
  <1>1. g_siprec_queue \in Seq(Request)
    BY DEF TypeInv, TextsOK
  <1> QED BY <1>1 DEF InQueue

LEMMA Popped ==
  ASSUME TypeInv, g_siprec_queue # <<>>, g_siprec_queue' = Tail(g_siprec_queue)
  PROVE  /\ 1 \in DOMAIN g_siprec_queue /\ Head(g_siprec_queue) = g_siprec_queue[1]
         /\ g_siprec_queue[1] \in Request
         /\ \A k \in DOMAIN g_siprec_queue' :
              /\ k \in Nat /\ k + 1 \in DOMAIN g_siprec_queue /\ k + 1 > 1
              /\ g_siprec_queue'[k] = g_siprec_queue[k + 1]
         /\ \A x : InQueue(x)' => InQueue(x)
  <1>1. g_siprec_queue \in Seq(Request)
    BY DEF TypeInv, TextsOK
  <1>2. \A k \in DOMAIN g_siprec_queue' :
          /\ k \in Nat /\ k + 1 \in DOMAIN g_siprec_queue /\ k + 1 > 1
          /\ g_siprec_queue'[k] = g_siprec_queue[k + 1]
    BY <1>1
  <1>3. \A x : InQueue(x)' => InQueue(x)
    BY <1>2 DEF InQueue
  <1> QED BY <1>1, <1>2, <1>3

\* FreeSWITCH sends an INVITE while the session is not over, a BYE when it is.
LEMMA NetGrows ==
  ASSUME TypeInv, Environment, NEW c \in Calls
  PROVE  /\ Req("INVITE", c) \in net' => Req("INVITE", c) \in net \/ ~ Over(c)
         /\ Req("BYE", c) \in net' => Req("BYE", c) \in net \/ Over(c)'
  <1> USE ReqParts DEF Over
  <1>0. session \in [Calls -> {"idle", "inviting", "up", "byeing", "done"}]
    BY DEF TypeInv, OutsideOK, OutsideTypeOK
  <1>1. ASSUME NEW x \in Calls, StartSession(x)
        PROVE  /\ Req("INVITE", c) \in net' => Req("INVITE", c) \in net \/ ~ Over(c)
               /\ Req("BYE", c) \in net' => Req("BYE", c) \in net \/ Over(c)'
    BY <1>1 DEF StartSession
  <1>2. ASSUME NEW x \in Calls, HangUp(x)
        PROVE  /\ Req("INVITE", c) \in net' => Req("INVITE", c) \in net \/ ~ Over(c)
               /\ Req("BYE", c) \in net' => Req("BYE", c) \in net \/ Over(c)'
    BY <1>0, <1>2 DEF HangUp
  <1>3. ASSUME NEW x \in Calls, Retransmit(x)
        PROVE  /\ Req("INVITE", c) \in net' => Req("INVITE", c) \in net \/ ~ Over(c)
               /\ Req("BYE", c) \in net' => Req("BYE", c) \in net \/ Over(c)'
    BY <1>3 DEF Retransmit
  <1>4. ASSUME NEW r \in answers, GetOk(r)
        PROVE  /\ Req("INVITE", c) \in net' => Req("INVITE", c) \in net \/ ~ Over(c)
               /\ Req("BYE", c) \in net' => Req("BYE", c) \in net \/ Over(c)'
    <2>1. net' = net \/ net' = net \cup {Req("ACK", r.call)}
      BY <1>4 DEF GetOk
    <2> QED BY <2>1
  <1>5. ASSUME \/ \E x \in Calls : GiveUp(x)
               \/ \E m \in net \cup answers : Lose(m)
               \/ \E s \in Stream : SendRtp(s)
        PROVE  net' \subseteq net
    BY <1>5 DEF GiveUp, Lose, SendRtp, outside
  <1> QED BY <1>1, <1>2, <1>3, <1>4, <1>5 DEF Environment

LEMMA OrderEnvironment ==
  ASSUME TypeInv, Environment, NEW c \in Calls, Order(c)
  PROVE  Order(c)'
  <1>1. UNCHANGED <<g_siprec_queue, objs, main>>
    BY DEF Environment, StartSession, HangUp, Retransmit, GiveUp, GetOk, Lose, SendRtp,
           shared, calls, threads
  <1>2. /\ InQueue(Req("BYE", c))' = InQueue(Req("BYE", c))
        /\ InQueue(Req("INVITE", c))' = InQueue(Req("INVITE", c))
        /\ Closing(c)' = Closing(c) /\ Opening(c)' = Opening(c) /\ Deleted(c)' = Deleted(c)
    BY <1>1 DEF InQueue, Closing, Opening, Deleted, Inviting, Ending, Req
  <1>3. Over(c) => Over(c)'
    BY StaysOver DEF Next
  <1>4. Req("INVITE", c)' = Req("INVITE", c) /\ Req("BYE", c)' = Req("BYE", c)
    BY DEF Req
  <1>5. EndsOver(c)'
    BY <1>2, <1>3, NetGrows DEF Order, EndsOver, Req
  <1>6. ByeLast(c)'
    BY <1>1, NetGrows DEF Order, EndsOver, ByeLast, InQueue, Req
  <1>7. Closing(c)' \/ Deleted(c)' => NoInvite(c)'
    BY <1>2, NetGrows DEF Order, EndsOver, NoInvite, Req
  <1> QED BY <1>5, <1>6, <1>7 DEF Order
\* Nobody is freed by this step.
NobodyDies == \A o \in DOMAIN objs' : ~ objs'[o].alive => o \in DOMAIN objs /\ ~ objs[o].alive

\* Nothing but the texts and the threads' places matters to the order.
LEMMA OrderKept ==
  ASSUME TypeInv, [Next]_vars, NEW c \in Calls, Order(c), ObjsStep, NobodyDies,
         UNCHANGED <<g_siprec_queue, net>>,
         Closing(c)' => Closing(c), Opening(c)' => Opening(c)
  PROVE  Order(c)'
  <1>1. Deleted(c)' => Deleted(c)
    BY DEF Deleted, ObjsStep, NobodyDies
  <1>2. /\ InQueue(Req("BYE", c))' = InQueue(Req("BYE", c))
        /\ InQueue(Req("INVITE", c))' = InQueue(Req("INVITE", c))
    BY DEF InQueue, Req
  <1>3. EndsOver(c)'
    BY <1>1, <1>2, StaysOver DEF Order, EndsOver, Req
  <1>4. ByeLast(c)'
    BY DEF Order, ByeLast, Req
  <1>5. Closing(c)' \/ Deleted(c)' => NoInvite(c)'
    BY <1>1, <1>2 DEF Order, NoInvite, Req
  <1> QED BY <1>3, <1>4, <1>5 DEF Order

LEMMA DeathRtp ==
  ASSUME TypeInv, do_rtp
  PROVE  ObjsStep /\ NobodyDies /\ UNCHANGED <<g_siprec_queue, net, main>>
  <1>1. ASSUME NEW o \in DOMAIN objs, NEW l \in Line, NEW s \in Stream, TakeRtp(o, l, s)
        PROVE  ObjsStep /\ NobodyDies /\ UNCHANGED <<g_siprec_queue, net, main>>
    <2>1. PICK ml : Becomes(o, ml, objs[o].alive)
      BY <1>1, TakeStep DEF TypeInv, ObjsOK
    <2>2. /\ ObjsStep /\ DOMAIN objs' = DOMAIN objs /\ objs'[o].alive = objs[o].alive
          /\ \A p \in DOMAIN objs : p # o => objs'[p] = objs[p]
      BY <2>1, ObjectParts, BecomesStep DEF TypeInv, ObjsOK
    <2>3. NobodyDies
      BY <2>2 DEF NobodyDies
    <2> QED BY <1>1, <2>2, <2>3 DEF TakeRtp, ReadRtp, outside
  <1>2. ASSUME UNCHANGED objs PROVE ObjsStep /\ NobodyDies
    BY <1>2, ObjsKept DEF TypeInv, NobodyDies
  <1>3. ASSUME NEW o, NEW l, NEW s, DropRtp(o, l, s) \/ LookupFaults(o, l, s)
        PROVE  UNCHANGED <<g_siprec_queue, net, main, objs>>
    BY <1>3 DEF DropRtp, LookupFaults, ReadRtp, outside
  <1>4. ASSUME WriteRtp PROVE UNCHANGED <<g_siprec_queue, net, main, objs>>
    BY <1>4 DEF WriteRtp, calls, outside
  <1>5. \A q \in rq : q[1] \in DOMAIN objs /\ q[2] \in Line /\ q[3] \in Stream
    BY DEF TypeInv, KernelOK
  <1> QED BY <1>1, <1>2, <1>3, <1>4, <1>5 DEF do_rtp

LEMMA OrderRecv ==
  ASSUME TypeInv, NEW m \in net, RecvSip(m), InOrder, NEW c \in Calls, Order(c)
  PROVE  Order(c)'
  <1> DEFINE I == Req("INVITE", c)
             B == Req("BYE", c)
  <1>0. I.method = "INVITE" /\ I.call = c /\ B.method = "BYE" /\ B.call = c /\ I # B
    BY ReqParts
  <1>1. /\ m \in Request /\ net' = net \ {m} /\ g_siprec_queue' = Append(g_siprec_queue, m)
        /\ UNCHANGED <<main, session, objs>>
    BY DEF RecvSip, TypeInv, OutsideOK, OutsideTypeOK, calls
  <1>2. m = B => I \notin net
    <2>1. SUFFICES ASSUME m = B, I \in net PROVE FALSE
      OBVIOUS
    <2>2. SendRank(m) <= SendRank(I)
      BY <1>0, <2>1 DEF RecvSip
    <2>3. SendRank(m) = 2 /\ SendRank(I) = 0
      BY <1>0, <2>1 DEF SendRank
    <2> QED BY <2>2, <2>3
  <1>3. /\ Closing(c)' = Closing(c) /\ Opening(c)' = Opening(c) /\ Deleted(c)' = Deleted(c)
        /\ Over(c)' = Over(c)
    BY <1>1 DEF Closing, Opening, Deleted, Inviting, Ending, Over
  <1>4. EndsOver(c)'
    BY <1>1, <1>3, Pushed DEF Order, EndsOver, Req
  <1>5. ByeLast(c)'
    <2> SUFFICES ASSUME NEW k \in DOMAIN g_siprec_queue', g_siprec_queue'[k] = B
                 PROVE  /\ I \notin net'
                        /\ \A j \in DOMAIN g_siprec_queue' : j > k => g_siprec_queue'[j] # I
      BY DEF ByeLast, Req
    <2>1. CASE k \in DOMAIN g_siprec_queue
      <3>1. I \notin net /\ \A j \in DOMAIN g_siprec_queue : j > k => g_siprec_queue[j] # I
        BY <1>1, <2>1, Pushed DEF Order, ByeLast
      <3> QED BY <1>1, <3>1, Pushed
    <2>2. CASE m = B /\ k = Len(g_siprec_queue) + 1
      <3>1. \A j \in DOMAIN g_siprec_queue' : ~ (j > k)
        <4>1. Len(g_siprec_queue) \in Nat
          BY DEF TypeInv, TextsOK
        <4> QED BY <1>1, <2>2, <4>1, Pushed
      <3> QED BY <1>1, <1>2, <2>2, <3>1
    <2> QED BY <1>1, <2>1, <2>2, Pushed
  <1>6. Closing(c)' \/ Deleted(c)' => NoInvite(c)'
    BY <1>1, <1>3, Pushed DEF Order, NoInvite, Req
  <1> QED BY <1>4, <1>5, <1>6 DEF Order

LEMMA OrderEpoll ==
  ASSUME TypeInv, epoll_thread, InOrder, NEW c \in Calls, Order(c)
  PROVE  Order(c)'
  <1>1. CASE Notify
    <2>1. ObjsStep /\ NobodyDies /\ UNCHANGED <<g_siprec_queue, net>>
      BY <1>1, ObjsKept DEF Notify, shared, calls, outside, TypeInv, NobodyDies
    <2>2. Closing(c)' = Closing(c) /\ Opening(c)' = Opening(c)
      BY <1>1 DEF Notify, Closing, Opening, Inviting, Ending, TypeInv, MainOK
    <2> QED BY <2>1, <2>2, OrderKept DEF Next
  <1>2. CASE do_rtp
    <2>1. Closing(c)' = Closing(c) /\ Opening(c)' = Opening(c)
      BY <1>2, DeathRtp DEF Closing, Opening, Inviting, Ending
    <2> QED BY <1>2, <2>1, DeathRtp, OrderKept DEF Next
  <1> QED BY <1>1, <1>2, OrderRecv DEF epoll_thread
\* The object an INVITE makes is new, and alive.
LEMMA DeathAccept ==
  ASSUME TypeInv, AcceptInvite
  PROVE  /\ ObjsStep /\ NobodyDies /\ UNCHANGED <<g_siprec_queue, net, g_call_factory, jobs>>
         /\ main'.pc = "open" /\ main'.msg = main.msg
         /\ \A o \in DOMAIN objs' : o \in DOMAIN objs \/ o = main'.obj
         /\ \A o \in DOMAIN objs : objs'[o] = objs[o]
         /\ main'.obj \in DOMAIN objs' /\ main'.obj \notin DOMAIN objs
         /\ objs'[main'.obj].cid = main.msg.call /\ objs'[main'.obj].alive
         /\ \A l \in Line, i \in Index : objs'[main'.obj].media_list[l].fh[i] = "null"
  <1>1. main.msg.call \in Calls
    BY ReqTypes DEF AcceptInvite, TypeInv, MainOK, Inviting
  <1>2. DOMAIN objs = 1 .. Len(objs) /\ Len(objs) \in Nat
    BY DEF TypeInv, ObjsOK
  <1>3. main' = [main EXCEPT !.pc = "open", !.obj = Len(objs) + 1]
    BY DEF AcceptInvite
  <1>4. main'.pc = "open" /\ main'.msg = main.msg /\ main'.obj = Len(objs) + 1
    BY <1>3 DEF TypeInv, MainOK
  <1>5. /\ ObjsStep /\ DOMAIN objs' = 1 .. (Len(objs) + 1)
        /\ \A o \in DOMAIN objs : objs'[o] = objs[o]
        /\ objs'[Len(objs) + 1].cid = main.msg.call /\ objs'[Len(objs) + 1].alive
        /\ \A l \in Line, i \in Index : objs'[Len(objs) + 1].media_list[l].fh[i] = "null"
    BY <1>1, AcceptStep DEF TypeInv, ObjsOK
  <1>6. /\ \A o \in DOMAIN objs' : o \in DOMAIN objs \/ o = Len(objs) + 1
        /\ Len(objs) + 1 \in DOMAIN objs' /\ Len(objs) + 1 \notin DOMAIN objs
    BY <1>2, <1>5
  <1>7. NobodyDies
    BY <1>5, <1>6 DEF NobodyDies
  <1>8. UNCHANGED <<g_siprec_queue, net, g_call_factory, jobs>>
    BY DEF AcceptInvite, shared
  <1> QED BY <1>4, <1>5, <1>6, <1>7, <1>8

LEMMA DeathStart ==
  ASSUME TypeInv, start_recording
  PROVE  /\ ObjsStep /\ NobodyDies /\ UNCHANGED <<g_siprec_queue, net, g_call_factory, jobs>>
         /\ main'.pc = "insert" /\ main'.msg = main.msg /\ main'.obj = main.obj
         /\ main.obj \in DOMAIN objs /\ DOMAIN objs' = DOMAIN objs
         /\ objs'[main.obj].alive = objs[main.obj].alive
         /\ \A p \in DOMAIN objs : p # main.obj => objs'[p] = objs[p]
         /\ \A l \in Line, i \in Index : objs'[main.obj].media_list[l].fh[i] # "unlinked"
  <1>1. main.obj \in DOMAIN objs
    BY DEF start_recording, TypeInv, MainOK
  <1>2. PICK ml : /\ Becomes(main.obj, ml, objs[main.obj].alive)
                  /\ \A l \in Line, i \in Index :
                       ml[l].fh[i] = IF OpenedFirst(l, i) THEN "open" ELSE "null"
    BY <1>1, StartStep DEF TypeInv, ObjsOK
  <1>3. /\ ObjsStep /\ DOMAIN objs' = DOMAIN objs /\ objs'[main.obj].alive = objs[main.obj].alive
        /\ objs'[main.obj].media_list = ml
        /\ \A p \in DOMAIN objs : p # main.obj => objs'[p] = objs[p]
    BY <1>1, <1>2, ObjectParts, BecomesStep DEF TypeInv, ObjsOK
  <1>4. NobodyDies
    BY <1>3 DEF NobodyDies
  <1>5. UNCHANGED <<g_siprec_queue, net, g_call_factory, jobs>> /\ main' = Goto("insert")
    BY DEF start_recording, shared, outside
  <1>6. main'.pc = "insert" /\ main'.msg = main.msg /\ main'.obj = main.obj
    BY <1>5 DEF Goto, TypeInv, MainOK
  <1> QED BY <1>1, <1>2, <1>3, <1>4, <1>5, <1>6

\* Deleting a call: its object o is freed, its FILEs are closed where both are there.
Deletes(o) ==
  /\ ObjsStep /\ UNCHANGED <<g_siprec_queue, net, g_call_factory>>
  /\ main.pc = "remove" /\ main'.pc = "erase" /\ main'.msg = main.msg
  /\ o \in DOMAIN objs /\ objs[o].cid = main.msg.call /\ main.msg.call \in Calls
  /\ DOMAIN objs' = DOMAIN objs /\ ~ objs'[o].alive
  /\ \A p \in DOMAIN objs : p # o => objs'[p] = objs[p]
  /\ \A l \in Line :
       IF Converts(objs[o].media_list[l])
       THEN \A i \in Index : objs'[o].media_list[l].fh[i] = "closed"
       ELSE objs'[o].media_list[l] = objs[o].media_list[l]
  /\ \A j \in jobs' : j \in jobs \/ (j.obj = o /\ j.line \in Line /\ j.index = 0
                                      /\ Converts(objs[o].media_list[j.line]))

LEMMA DeathDelete ==
  ASSUME TypeInv, Delete, NEW o, o = g_call_factory[main.msg.call]
  PROVE  Deletes(o)
  <1>1. main.pc = "remove" /\ main.msg.call \in Calls
    BY ReqTypes DEF Delete, TypeInv, MainOK, Ending
  <1>2. o \in DOMAIN objs /\ objs[o].cid = main.msg.call
    BY <1>1 DEF Delete, TypeInv, MapOK
  <1>3. PICK ml : /\ Becomes(o, ml, FALSE)
                  /\ \A l \in Line : IF Converts(objs[o].media_list[l])
                                     THEN \A i \in Index : ml[l].fh[i] = "closed"
                                     ELSE ml[l] = objs[o].media_list[l]
    BY <1>2, DeleteStep DEF TypeInv, ObjsOK
  <1>4. /\ ObjsStep /\ DOMAIN objs' = DOMAIN objs /\ ~ objs'[o].alive
        /\ objs'[o].media_list = ml
        /\ \A p \in DOMAIN objs : p # o => objs'[p] = objs[p]
    <2>1. /\ ObjsStep /\ DOMAIN objs' = DOMAIN objs /\ objs'[o].media_list = ml
          /\ \A p \in DOMAIN objs : p # o => objs'[p] = objs[p]
      <3>1. objs \in Seq(CallType) /\ Becomes(o, ml, FALSE)
        BY <1>3 DEF TypeInv, ObjsOK
      <3>2. ObjsStep /\ DOMAIN objs' = DOMAIN objs
        BY <3>1, BecomesStep
      <3>3. objs'[o].media_list = ml
        BY <3>1, BecomesStep
      <3>4. \A p \in DOMAIN objs : p # o => objs'[p] = objs[p]
        BY <3>1 DEF Becomes
      <3> QED BY <3>2, <3>3, <3>4
    <2>2. objs'[o] = [cid |-> objs[o].cid, alive |-> FALSE, media_list |-> ml]
      BY <1>3 DEF Becomes
    <2> QED BY <2>1, <2>2
  <1>5. UNCHANGED <<g_siprec_queue, net, g_call_factory>> /\ main' = Goto("erase")
    BY DEF Delete, shared, outside
  <1>6. main'.pc = "erase" /\ main'.msg = main.msg
    BY <1>5 DEF Goto, TypeInv, MainOK
  <1>7. jobs' = jobs \cup {[obj |-> o, line |-> l, index |-> 0, step |-> "sox"] :
                              l \in {k \in Line : Converts(objs[o].media_list[k])}}
    BY DEF Delete
  <1>8. \A j \in jobs' : j \in jobs \/ (j.obj = o /\ j.line \in Line /\ j.index = 0
                                          /\ Converts(objs[o].media_list[j.line]))
    BY <1>7
  <1>9. \A l \in Line :
          IF Converts(objs[o].media_list[l])
          THEN \A i \in Index : objs'[o].media_list[l].fh[i] = "closed"
          ELSE objs'[o].media_list[l] = objs[o].media_list[l]
    BY <1>3, <1>4
  <1> QED BY <1>1, <1>2, <1>4, <1>5, <1>6, <1>8, <1>9 DEF Deletes

LEMMA OrderTake ==
  ASSUME TypeInv, Take, NEW c \in Calls, Order(c)
  PROVE  Order(c)'
  <1> DEFINE I == Req("INVITE", c)
             B == Req("BYE", c)
             m == Head(g_siprec_queue)
  <1>0. I.method = "INVITE" /\ I.call = c /\ B.method = "BYE" /\ B.call = c /\ I # B
    BY ReqParts
  <1>1. /\ main.pc = "wait" /\ g_siprec_queue # <<>> /\ g_siprec_queue' = Tail(g_siprec_queue)
        /\ UNCHANGED <<net, session, objs>>
    BY DEF Take, calls, outside
  <1>2. m \in Request /\ m = Req(m.method, m.call) /\ InQueue(m)
    BY <1>1, Popped, ReqParts DEF InQueue
  <1>3. /\ Closing(c)' => m = B
        /\ Opening(c)' => m = I
    <2>1. \/ main' = main
          \/ main' = [main EXCEPT !.pc = m.method, !.msg = m]
      BY DEF Take
    <2>2. CASE main' = main
      BY <1>1, <2>2 DEF Closing, Opening, Inviting, Ending
    <2>3. CASE main' = [main EXCEPT !.pc = m.method, !.msg = m]
      <3>1. main'.pc = m.method /\ main'.msg = m
        BY <2>3 DEF TypeInv, MainOK
      <3>2. m.method \in {"INVITE", "ACK", "BYE"}
        BY <1>2, ReqTypes
      <3> QED BY <1>2, <3>1, <3>2 DEF Closing, Opening, Inviting, Ending
    <2> QED BY <2>1, <2>2, <2>3
  <1>4. Deleted(c)' = Deleted(c) /\ Over(c)' = Over(c)
    BY <1>1 DEF Deleted, Over
  <1>5. EndsOver(c)'
    BY <1>1, <1>2, <1>3, <1>4, Popped DEF Order, EndsOver, Req
  <1>6. ByeLast(c)'
    <2> SUFFICES ASSUME NEW k \in DOMAIN g_siprec_queue', g_siprec_queue'[k] = B
                 PROVE  /\ I \notin net'
                        /\ \A j \in DOMAIN g_siprec_queue' : j > k => g_siprec_queue'[j] # I
      BY DEF ByeLast, Req
    <2>1. /\ k \in Nat /\ k + 1 \in DOMAIN g_siprec_queue /\ g_siprec_queue[k + 1] = B
      BY <1>1, Popped
    <2>2. I \notin net /\ \A j \in DOMAIN g_siprec_queue : j > k + 1 => g_siprec_queue[j] # I
      BY <2>1 DEF Order, ByeLast
    <2>3. ASSUME NEW j \in DOMAIN g_siprec_queue', j > k PROVE g_siprec_queue'[j] # I
      <3>1. j \in Nat /\ j + 1 \in DOMAIN g_siprec_queue /\ g_siprec_queue'[j] = g_siprec_queue[j + 1]
        BY <1>1, Popped
      <3>2. j + 1 > k + 1
        BY <2>1, <2>3, <3>1
      <3> QED BY <2>2, <3>1, <3>2
    <2> QED BY <1>1, <2>2, <2>3
  <1>7. Closing(c)' \/ Deleted(c)' => NoInvite(c)'
    <2>1. ASSUME Deleted(c)' PROVE NoInvite(c)'
      <3>1. NoInvite(c)
        BY <1>4, <2>1 DEF Order
      <3> QED BY <1>1, <1>2, <1>3, <3>1, Popped DEF NoInvite, Req
    <2>2. ASSUME Closing(c)' PROVE NoInvite(c)'
      <3>1. g_siprec_queue[1] = B /\ 1 \in DOMAIN g_siprec_queue
        BY <1>1, <1>3, <2>2, Popped
      <3>2. I \notin net /\ \A j \in DOMAIN g_siprec_queue : j > 1 => g_siprec_queue[j] # I
        BY <3>1 DEF Order, ByeLast
      <3>3. ~ InQueue(I)'
        BY <1>1, <3>2, Popped DEF InQueue, Req
      <3>4. ~ Opening(c)'
        BY <2>2 DEF Closing, Opening, Inviting, Ending
      <3> QED BY <1>1, <3>2, <3>3, <3>4 DEF NoInvite, Req
    <2> QED BY <2>1, <2>2
  <1> QED BY <1>5, <1>6, <1>7 DEF Order
LEMMA OrderMain ==
  ASSUME TypeInv, main_thread, NEW c \in Calls, Order(c)
  PROVE  Order(c)'
  <1>1. CASE Wait \/ Wake \/ Insert \/ RemoveUnknown \/ Erase \/ AnswerBye
    <2>1. /\ UNCHANGED <<g_siprec_queue, net, objs>>
          /\ main'.msg = main.msg
          /\ main'.pc \in {"wait", "blocked"} \/ (main.pc = "BYE" /\ main'.pc = "remove")
      BY <1>1 DEF Wait, Wake, Insert, RemoveUnknown, Erase, AnswerBye, Goto, shared, calls, outside,
                  TypeInv, MainOK
    <2>2. ObjsStep /\ NobodyDies
      BY <2>1, ObjsKept DEF TypeInv, NobodyDies
    <2>3. (Closing(c)' => Closing(c)) /\ (Opening(c)' => Opening(c))
      BY <2>1 DEF Closing, Opening, Inviting, Ending
    <2> QED BY <2>1, <2>2, <2>3, OrderKept DEF Next
  <1>2. CASE AcceptInvite
    <2>1. (Closing(c)' => Closing(c)) /\ (Opening(c)' => Opening(c))
      <3>1. main.pc = "INVITE"
        BY <1>2 DEF AcceptInvite
      <3> QED BY <1>2, <3>1, DeathAccept DEF Closing, Opening, Inviting, Ending
    <2> QED BY <1>2, <2>1, DeathAccept, OrderKept DEF Next
  <1>3. CASE start_recording
    <2>1. (Closing(c)' => Closing(c)) /\ (Opening(c)' => Opening(c))
      <3>1. main.pc = "open"
        BY <1>3 DEF start_recording
      <3> QED BY <1>3, <3>1, DeathStart DEF Closing, Opening, Inviting, Ending
    <2> QED BY <1>3, <2>1, DeathStart, OrderKept DEF Next
  <1>4. CASE Delete
    <2> DEFINE o == g_call_factory[main.msg.call]
    <2>1. /\ UNCHANGED <<g_siprec_queue, net>>
          /\ main.pc = "remove" /\ main'.pc = "erase" /\ main'.msg = main.msg
          /\ objs[o].cid = main.msg.call /\ DOMAIN objs' = DOMAIN objs
          /\ \A p \in DOMAIN objs : p # o => objs'[p] = objs[p]
          /\ objs'[o].cid = objs[o].cid
      BY <1>4, DeathDelete DEF Deletes, ObjsStep
    <2>2. Deleted(c)' => Deleted(c) \/ Closing(c)
      BY <2>1 DEF Deleted, Closing, Ending
    <2>3. (Closing(c)' => Closing(c)) /\ ~ Opening(c)'
      BY <2>1 DEF Closing, Opening, Inviting, Ending
    <2>4. /\ InQueue(Req("BYE", c))' = InQueue(Req("BYE", c))
          /\ InQueue(Req("INVITE", c))' = InQueue(Req("INVITE", c))
      BY <2>1 DEF InQueue, Req
    <2>5. EndsOver(c)'
      <3>1. Over(c) => Over(c)'
        BY <1>4, StaysOver DEF Next
      <3> QED BY <2>1, <2>2, <2>3, <2>4, <3>1 DEF Order, EndsOver, Req
    <2>6. ByeLast(c)'
      BY <2>1 DEF Order, ByeLast, Req
    <2>7. Closing(c)' \/ Deleted(c)' => NoInvite(c)'
      BY <2>1, <2>2, <2>3, <2>4 DEF Order, NoInvite, Req
    <2> QED BY <2>5, <2>6, <2>7 DEF Order
  <1> QED BY <1>1, <1>2, <1>3, <1>4, OrderTake DEF main_thread, do_siprec_message

LEMMA DeathConversion ==
  ASSUME TypeInv, to_pcm_thread
  PROVE  /\ ObjsStep /\ NobodyDies
         /\ UNCHANGED <<g_siprec_queue, net, main, g_call_factory, session, answers, lost>>
  <1>1. ASSUME NEW j \in jobs, Sox(j)
        PROVE  /\ ObjsStep /\ NobodyDies
               /\ UNCHANGED <<g_siprec_queue, net, main, g_call_factory, session, answers, lost>>
    BY <1>1, ObjsKept DEF Sox, shared, calls, outside, TypeInv, NobodyDies
  <1>2. ASSUME NEW j \in jobs, Remove(j)
        PROVE  /\ ObjsStep /\ NobodyDies
               /\ UNCHANGED <<g_siprec_queue, net, main, g_call_factory, session, answers, lost>>
    <2>1. /\ ObjsStep /\ DOMAIN objs' = DOMAIN objs
          /\ \A o \in DOMAIN objs : objs'[o].alive = objs[o].alive
      BY <1>2, JobTypes, UnlinkStep DEF Remove, TypeInv, ObjsOK
    <2>2. NobodyDies
      BY <2>1 DEF NobodyDies
    <2> QED BY <1>2, <2>1, <2>2 DEF Remove, shared, outside
  <1> QED BY <1>1, <1>2 DEF to_pcm_thread

LEMMA OrderInductive ==
  ASSUME TypeInv, InOrder, OrderInv, [Next]_vars
  PROVE  OrderInv'
  <1> SUFFICES ASSUME NEW c \in Calls PROVE Order(c)'
    BY DEF OrderInv
  <1>1. Order(c)
    BY DEF OrderInv
  <1>2. CASE UNCHANGED vars
    <2>1. UNCHANGED <<g_siprec_queue, net, main, objs>>
      BY <1>2 DEF vars
    <2>2. ObjsStep /\ NobodyDies
      BY <2>1, ObjsKept DEF TypeInv, NobodyDies
    <2>3. Closing(c)' = Closing(c) /\ Opening(c)' = Opening(c)
      BY <2>1 DEF Closing, Opening, Inviting, Ending
    <2> QED BY <1>1, <2>1, <2>2, <2>3, OrderKept
  <1>3. CASE to_pcm_thread
    <2>1. Closing(c)' = Closing(c) /\ Opening(c)' = Opening(c)
      BY <1>3, DeathConversion DEF Closing, Opening, Inviting, Ending
    <2> QED BY <1>1, <1>3, <2>1, DeathConversion, OrderKept
  <1> QED BY <1>1, <1>2, <1>3, OrderEnvironment, OrderEpoll, OrderMain DEF Next

\* Delivered in order, a BYE is behind every INVITE of its session wherever the two
\* are, and when it is handled no INVITE is left that could open the call again.
THEOREM ByeComesLast == ASSUME InOrder PROVE Spec => []OrderInv
  <1>1. Init => OrderInv
    BY ReqParts DEF Init, OrderInv, Order, EndsOver, ByeLast, InQueue, Closing, Deleted, Ending
  <1> QED BY <1>1, TypesHold, OrderInductive, PTL DEF Spec
------------------------------------------------------------------------------
(* What is recorded keeps its name.                                         *)

\* a call is deleted once
OneDead ==
  \A o, p \in DOMAIN objs :
    ~ objs[o].alive /\ ~ objs[p].alive /\ objs[o].cid = objs[p].cid => o = p

\* a deleted call is not in the map, but for the moment before it is erased
OutOfMap ==
  /\ \A c \in Calls : Deleted(c) =>
       g_call_factory[c] = 0 \/ (main.pc = "erase" /\ main.msg.call = c)
  /\ main.pc = "erase" => /\ g_call_factory[main.msg.call] \in DOMAIN objs
                          /\ ~ objs[g_call_factory[main.msg.call]].alive

\* conversions are of deleted objects, and of lines whose FILEs were closed
JobsClosed ==
  \A j \in jobs : /\ ~ objs[j.obj].alive
                  /\ \A i \in Index : objs[j.obj].media_list[j.line].fh[i] = "closed"

Unlinked(o) == \E l \in Line, i \in Index : objs[o].media_list[l].fh[i] = "unlinked"

\* files only lose their names when a conversion of the call is done with them
NamesKept ==
  /\ \A o \in DOMAIN objs : Unlinked(o) => Deleted(objs[o].cid)
  /\ \A c \in Calls : g_call_factory[c] # 0 => ~ Unlinked(g_call_factory[c])

IntactInv == OneDead /\ OutOfMap /\ JobsClosed /\ NamesKept

\* This step takes no file's name, and leaves what is closed closed.
FilesRest ==
  /\ \A o \in DOMAIN objs' : Unlinked(o)' => o \in DOMAIN objs /\ Unlinked(o)
  /\ \A o \in DOMAIN objs, l \in Line, i \in Index :
       ~ objs[o].alive /\ objs[o].media_list[l].fh[i] = "closed" =>
         objs'[o].media_list[l].fh[i] = "closed"

\* the main thread is not erasing an entry before or after, or does not move
NotErasing == main' = main \/ (main.pc # "erase" /\ main'.pc # "erase")

JobsGoOn == \A j \in jobs' : \E k \in jobs : j.obj = k.obj /\ j.line = k.line

LEMMA IntactKept ==
  ASSUME TypeInv, TypeInv', IntactInv, ObjsStep, NobodyDies, FilesRest, JobsGoOn, NotErasing,
         UNCHANGED g_call_factory
  PROVE  IntactInv'
  <1>1. \A c \in Calls : Deleted(c)' => Deleted(c)
    BY DEF Deleted, ObjsStep, NobodyDies
  <1>2. \A c \in Calls : Deleted(c) => Deleted(c)'
    BY DEF Deleted, ObjsStep
  <1>3. OneDead'
    BY DEF IntactInv, OneDead, ObjsStep, NobodyDies
  <1>4. OutOfMap'
    <2>1. \A c \in Calls : Deleted(c)' =>
            g_call_factory'[c] = 0 \/ (main'.pc = "erase" /\ main'.msg.call = c)
      BY <1>1 DEF IntactInv, OutOfMap, NotErasing
    <2>2. main'.pc = "erase" => main'= main /\ main.pc = "erase"
      BY DEF NotErasing
    <2>3. main'.pc = "erase" =>
            /\ g_call_factory'[main'.msg.call] \in DOMAIN objs'
            /\ ~ objs'[g_call_factory'[main'.msg.call]].alive
      BY <2>2 DEF IntactInv, OutOfMap, ObjsStep
    <2> QED BY <2>1, <2>3 DEF OutOfMap, Deleted
  <1>5. JobsClosed'
    <2> SUFFICES ASSUME NEW j \in jobs'
                 PROVE  /\ ~ objs'[j.obj].alive
                        /\ \A i \in Index : objs'[j.obj].media_list[j.line].fh[i] = "closed"
      BY DEF JobsClosed
    <2>1. PICK k \in jobs : j.obj = k.obj /\ j.line = k.line
      BY DEF JobsGoOn
    <2>2. /\ ~ objs[k.obj].alive
          /\ \A i \in Index : objs[k.obj].media_list[k.line].fh[i] = "closed"
      BY DEF IntactInv, JobsClosed
    <2>3. k.obj \in DOMAIN objs /\ k.line \in Line
      BY JobTypes
    <2> QED BY <2>1, <2>2, <2>3 DEF ObjsStep, FilesRest
  <1>6. NamesKept'
    <2>1. ASSUME NEW o \in DOMAIN objs', Unlinked(o)' PROVE Deleted(objs[o].cid)' /\ objs'[o].cid = objs[o].cid
      <3>1. o \in DOMAIN objs /\ Unlinked(o) /\ objs[o].cid \in Calls
        BY <2>1, ObjectParts DEF FilesRest, TypeInv, ObjsOK
      <3>2. Deleted(objs[o].cid)
        BY <3>1 DEF IntactInv, NamesKept
      <3>3. objs'[o].cid = objs[o].cid
        BY <3>1 DEF ObjsStep
      <3> QED BY <3>2, <3>3 DEF Deleted, ObjsStep
    <2>2. ASSUME NEW o \in DOMAIN objs', Unlinked(o)' PROVE Deleted(objs[o].cid)'
      BY <2>1, <2>2 DEF Deleted
    <2>3. ASSUME NEW c \in Calls, g_call_factory'[c] # 0 PROVE ~ Unlinked(g_call_factory[c])'
      <3>1. g_call_factory[c] \in DOMAIN objs'
        BY <2>3 DEF TypeInv, MapOK, ObjsStep
      <3>2. ~ Unlinked(g_call_factory[c])
        BY <2>3 DEF IntactInv, NamesKept
      <3> QED BY <3>1, <3>2 DEF FilesRest, Unlinked
    <2> QED BY <2>2, <2>3 DEF NamesKept
  <1> QED BY <1>3, <1>4, <1>5, <1>6 DEF IntactInv

LEMMA RestKept ==
  ASSUME TypeInv, UNCHANGED objs
  PROVE  ObjsStep /\ NobodyDies /\ FilesRest
  BY ObjsKept DEF TypeInv, NobodyDies, FilesRest, Unlinked

LEMMA IntactRtp ==
  ASSUME TypeInv, TypeInv', IntactInv, do_rtp
  PROVE  IntactInv'
  <1>1. ASSUME NEW o \in DOMAIN objs, NEW l \in Line, NEW s \in Stream, TakeRtp(o, l, s)
        PROVE  FilesRest /\ UNCHANGED <<g_call_factory, jobs>>
    <2>1. PICK ml : /\ Becomes(o, ml, objs[o].alive)
                    /\ \A k \in Line : ml[k].fh = objs[o].media_list[k].fh
      BY <1>1, TakeStep DEF TypeInv, ObjsOK
    <2>2. /\ DOMAIN objs' = DOMAIN objs /\ objs'[o].media_list = ml
          /\ \A p \in DOMAIN objs : p # o => objs'[p] = objs[p]
      BY <2>1, ObjectParts, BecomesStep DEF TypeInv, ObjsOK
    <2>3. \A p \in DOMAIN objs, k \in Line : objs'[p].media_list[k].fh = objs[p].media_list[k].fh
      BY <2>1, <2>2
    <2>4. FilesRest
      BY <2>2, <2>3 DEF FilesRest, Unlinked
    <2> QED BY <1>1, <2>4 DEF TakeRtp, ReadRtp
  <1>2. ASSUME NEW o, NEW l, NEW s, DropRtp(o, l, s) \/ LookupFaults(o, l, s)
        PROVE  UNCHANGED <<g_call_factory, jobs, objs>>
    BY <1>2 DEF DropRtp, LookupFaults, ReadRtp
  <1>3. ASSUME WriteRtp PROVE UNCHANGED <<g_call_factory, jobs, objs>>
    BY <1>3 DEF WriteRtp, calls
  <1>4. \A q \in rq : q[1] \in DOMAIN objs /\ q[2] \in Line /\ q[3] \in Stream
    BY DEF TypeInv, KernelOK
  <1>5. FilesRest /\ UNCHANGED <<g_call_factory, jobs>>
    BY <1>1, <1>2, <1>3, <1>4, RestKept DEF do_rtp
  <1>6. JobsGoOn /\ NotErasing
    BY <1>5, DeathRtp DEF JobsGoOn, NotErasing
  <1> QED BY <1>5, <1>6, DeathRtp, IntactKept

LEMMA IntactEpoll ==
  ASSUME TypeInv, TypeInv', IntactInv, epoll_thread
  PROVE  IntactInv'
  <1>1. ASSUME Notify PROVE IntactInv'
    <2>1. UNCHANGED <<g_call_factory, jobs, objs>> /\ NotErasing
      BY <1>1 DEF Notify, calls, NotErasing, TypeInv, MainOK
    <2> QED BY <2>1, RestKept, IntactKept DEF JobsGoOn
  <1>2. ASSUME NEW m \in net, RecvSip(m) PROVE IntactInv'
    <2>1. UNCHANGED <<g_call_factory, jobs, objs>> /\ NotErasing
      BY <1>2 DEF RecvSip, calls, NotErasing
    <2> QED BY <2>1, RestKept, IntactKept DEF JobsGoOn
  <1> QED BY <1>1, <1>2, IntactRtp DEF epoll_thread
LEMMA IntactInsert ==
  ASSUME TypeInv, TypeInv', OrderInv, IntactInv, Insert
  PROVE  IntactInv'
  <1> DEFINE c == main.msg.call
  <1>1. /\ main.pc = "insert" /\ main'.pc = "wait" /\ UNCHANGED <<objs, jobs>>
        /\ g_call_factory' = [g_call_factory EXCEPT ![c] = main.obj]
    BY DEF Insert, Goto, TypeInv, MainOK
  <1>2. c \in Calls /\ main.obj \in DOMAIN objs /\ objs[main.obj].cid = c
    BY <1>1, ReqTypes DEF TypeInv, MainOK, Inviting
  <1>3. ~ Deleted(c)
    <2>1. Opening(c)
      BY <1>1 DEF Opening, Inviting
    <2> QED BY <1>2, <2>1 DEF OrderInv, Order, NoInvite
  <1> HIDE DEF c
  <1>4. \A d \in Calls : g_call_factory'[d] = IF d = c THEN main.obj ELSE g_call_factory[d]
    BY <1>1 DEF TypeInv, MapOK
  <1>5. OutOfMap'
    <2>1. \A d \in Calls : Deleted(d) => g_call_factory'[d] = 0
      BY <1>1, <1>3, <1>4 DEF IntactInv, OutOfMap
    <2> QED BY <1>1, <2>1 DEF OutOfMap, Deleted
  <1>6. NamesKept'
    <2>1. ~ Unlinked(main.obj)
      BY <1>2, <1>3 DEF IntactInv, NamesKept
    <2>2. \A d \in Calls : g_call_factory'[d] # 0 => ~ Unlinked(g_call_factory'[d])
      BY <1>4, <2>1 DEF IntactInv, NamesKept
    <2> QED BY <1>1, <2>2 DEF IntactInv, NamesKept, Unlinked, Deleted
  <1>7. OneDead' /\ JobsClosed'
    BY <1>1 DEF IntactInv, OneDead, JobsClosed
  <1> QED BY <1>5, <1>6, <1>7 DEF IntactInv

LEMMA IntactDelete ==
  ASSUME TypeInv, TypeInv', IntactInv, Delete,
         NEW c, c = main.msg.call, NEW o, o = g_call_factory[c]
  PROVE  IntactInv'
  <1>0. Deletes(o)
    BY DeathDelete
  <1>1. /\ UNCHANGED g_call_factory
        /\ main.pc = "remove" /\ main'.pc = "erase" /\ main'.msg = main.msg
        /\ o \in DOMAIN objs /\ objs[o].cid = c /\ c \in Calls
        /\ DOMAIN objs' = DOMAIN objs /\ ~ objs'[o].alive
        /\ \A p \in DOMAIN objs : p # o => objs'[p] = objs[p]
        /\ \A p \in DOMAIN objs : objs'[p].cid = objs[p].cid
    BY <1>0 DEF Deletes, ObjsStep
  <1>2. \A l \in Line :
          IF Converts(objs[o].media_list[l])
          THEN \A i \in Index : objs'[o].media_list[l].fh[i] = "closed"
          ELSE objs'[o].media_list[l] = objs[o].media_list[l]
    BY <1>0 DEF Deletes
  <1>3. o # 0 /\ main'.msg.call = c
    BY <1>1 DEF Delete
  <1>4. ~ Deleted(c) /\ g_call_factory[c] = o
    BY <1>1, <1>3 DEF IntactInv, OutOfMap
  <1>5. OneDead'
    <2>1. ASSUME NEW p \in DOMAIN objs, p # o, ~ objs'[p].alive PROVE objs[p].cid # c
      BY <1>1, <1>4, <2>1 DEF Deleted
    <2> QED BY <1>1, <2>1 DEF IntactInv, OneDead
  <1>6. \A d \in Calls : Deleted(d)' => Deleted(d) \/ d = c
    BY <1>1 DEF Deleted
  <1>7. \A d \in Calls : Deleted(d) => Deleted(d)'
    BY <1>1 DEF Deleted
  <1>8. OutOfMap'
    <2>1. \A d \in Calls : Deleted(d)' => g_call_factory'[d] = 0 \/ d = c
      BY <1>1, <1>6 DEF IntactInv, OutOfMap
    <2>2. g_call_factory'[main'.msg.call] = o
      BY <1>1, <1>3, <1>4
    <2> QED BY <1>1, <1>3, <2>1, <2>2 DEF OutOfMap
  <1>9. JobsClosed'
    <2> SUFFICES ASSUME NEW j \in jobs'
                 PROVE  /\ ~ objs'[j.obj].alive
                        /\ \A i \in Index : objs'[j.obj].media_list[j.line].fh[i] = "closed"
      BY DEF JobsClosed
    <2>1. CASE j \in jobs
      <3>1. /\ j.obj \in DOMAIN objs /\ ~ objs[j.obj].alive
            /\ \A i \in Index : objs[j.obj].media_list[j.line].fh[i] = "closed"
        BY <2>1, JobTypes DEF IntactInv, JobsClosed
      <3>2. j.obj # o
        BY <1>1, <1>4, <3>1 DEF Deleted
      <3> QED BY <1>1, <3>1, <3>2
    <2>2. CASE j \notin jobs
      <3>1. j.obj = o /\ j.line \in Line /\ Converts(objs[o].media_list[j.line])
        BY <1>0, <2>2 DEF Deletes
      <3>2. \A i \in Index : objs'[o].media_list[j.line].fh[i] = "closed"
        BY <1>2, <3>1
      <3> QED BY <1>1, <3>1, <3>2
    <2> QED BY <2>1, <2>2
  <1>10. NamesKept'
    <2>1. ~ Unlinked(o)
      BY <1>1, <1>3, <1>4 DEF IntactInv, NamesKept
    <2>2. ~ Unlinked(o)'
      <3>1. ASSUME NEW l \in Line, NEW i \in Index PROVE objs'[o].media_list[l].fh[i] # "unlinked"
        <4>1. \/ objs'[o].media_list[l].fh[i] = "closed"
              \/ objs'[o].media_list[l] = objs[o].media_list[l]
          BY <1>2
        <4>2. objs[o].media_list[l].fh[i] # "unlinked"
          BY <2>1 DEF Unlinked
        <4> QED BY <4>1, <4>2
      <3> QED BY <3>1 DEF Unlinked
    <2>3. \A p \in DOMAIN objs : Unlinked(p)' => Unlinked(p)
      <3>1. ASSUME NEW p \in DOMAIN objs, p # o PROVE Unlinked(p)' => Unlinked(p)
        <4>1. objs'[p] = objs[p]
          BY <1>1, <3>1
        <4> QED BY <4>1 DEF Unlinked
      <3> QED BY <2>2, <3>1
    <2>4. \A p \in DOMAIN objs : Unlinked(p)' => Deleted(objs[p].cid)
      BY <2>3 DEF IntactInv, NamesKept
    <2>5. ASSUME NEW p \in DOMAIN objs, Unlinked(p)' PROVE Deleted(objs[p].cid)'
      <3>1. objs[p].cid \in Calls
        BY ObjectParts DEF TypeInv, ObjsOK
      <3>2. Deleted(objs[p].cid) /\ objs'[p].cid = objs[p].cid
        BY <1>1, <2>4, <2>5
      <3> QED BY <1>1, <3>2 DEF Deleted
    <2>6. \A p \in DOMAIN objs' : Unlinked(p)' => Deleted(objs[p].cid)'
      BY <1>1, <2>5
    <2>7. ASSUME NEW d \in Calls, g_call_factory'[d] # 0 PROVE ~ Unlinked(g_call_factory[d])'
      <3>1. PICK p \in DOMAIN objs : p = g_call_factory[d]
        BY <1>1, <2>7 DEF TypeInv, MapOK
      <3>2. ~ Unlinked(p)
        BY <1>1, <2>7, <3>1 DEF IntactInv, NamesKept
      <3>3. ~ Unlinked(p)'
        BY <2>3, <3>2
      <3> QED BY <1>1, <3>1, <3>3 DEF Unlinked
    <2> QED BY <2>6, <2>7 DEF NamesKept, Unlinked
  <1> QED BY <1>5, <1>8, <1>9, <1>10 DEF IntactInv

LEMMA IntactErase ==
  ASSUME TypeInv, TypeInv', IntactInv, Erase
  PROVE  IntactInv'
  <1> DEFINE c == main.msg.call
  <1>1. /\ main.pc = "erase" /\ main'.pc = "wait" /\ UNCHANGED <<objs, jobs>>
        /\ g_call_factory' = [g_call_factory EXCEPT ![c] = 0]
    BY DEF Erase, Goto, TypeInv, MainOK
  <1> HIDE DEF c
  <1>2. \A d \in Calls : g_call_factory'[d] = IF d = c THEN 0 ELSE g_call_factory[d]
    BY <1>1 DEF TypeInv, MapOK
  <1>3. OutOfMap'
    <2>1. \A d \in Calls : Deleted(d) => g_call_factory'[d] = 0
      BY <1>1, <1>2 DEF IntactInv, OutOfMap, c
    <2> QED BY <1>1, <2>1 DEF OutOfMap, Deleted
  <1>4. NamesKept'
    <2>1. \A d \in Calls : g_call_factory'[d] # 0 => ~ Unlinked(g_call_factory'[d])
      BY <1>2 DEF IntactInv, NamesKept
    <2> QED BY <1>1, <2>1 DEF IntactInv, NamesKept, Unlinked, Deleted
  <1>5. OneDead' /\ JobsClosed'
    BY <1>1 DEF IntactInv, OneDead, JobsClosed
  <1> QED BY <1>3, <1>4, <1>5 DEF IntactInv

LEMMA IntactMain ==
  ASSUME TypeInv, TypeInv', OrderInv, IntactInv, main_thread
  PROVE  IntactInv'
  <1>1. CASE Wait \/ Wake \/ Take \/ AnswerBye \/ RemoveUnknown
    <2>1. UNCHANGED <<g_call_factory, jobs, objs>>
      BY <1>1 DEF Wait, Wake, Take, AnswerBye, RemoveUnknown, calls
    <2>2. NotErasing
      <3>1. CASE Take
        <4> DEFINE m == Head(g_siprec_queue)
        <4>1. main.pc = "wait" /\ (main' = main \/ (main'.pc = m.method /\ m.method # "erase"))
          BY <3>1 DEF Take, TypeInv, MainOK
        <4> QED BY <4>1 DEF NotErasing
      <3>2. CASE Wait \/ Wake \/ AnswerBye \/ RemoveUnknown
        BY <3>2 DEF Wait, Wake, AnswerBye, RemoveUnknown, Goto, NotErasing, TypeInv, MainOK
      <3> QED BY <1>1, <3>1, <3>2
    <2> QED BY <2>1, <2>2, RestKept, IntactKept DEF JobsGoOn
  <1>2. CASE AcceptInvite
    <2>1. FilesRest
      <3>1. ASSUME NEW o \in DOMAIN objs', Unlinked(o)' PROVE o \in DOMAIN objs /\ Unlinked(o)
        BY <1>2, <3>1, DeathAccept DEF Unlinked
      <3> QED BY <1>2, <3>1, DeathAccept DEF FilesRest
    <2>2. NotErasing
      BY <1>2, DeathAccept DEF AcceptInvite, NotErasing
    <2> QED BY <1>2, <2>1, <2>2, DeathAccept, IntactKept DEF JobsGoOn
  <1>3. CASE start_recording
    <2>1. objs[main.obj].alive
      <3>1. Inviting /\ main.pc = "open"
        BY <1>3 DEF start_recording, Inviting
      <3>2. main.msg.call \in Calls /\ main.obj \in DOMAIN objs /\ objs[main.obj].cid = main.msg.call
        BY <3>1, ReqTypes DEF TypeInv, MainOK
      <3> QED BY <3>1, <3>2 DEF OrderInv, Order, NoInvite, Opening, Deleted
    <2>2. FilesRest
      BY <1>3, <2>1, DeathStart DEF FilesRest, Unlinked
    <2>3. NotErasing
      BY <1>3, DeathStart DEF start_recording, NotErasing
    <2> QED BY <1>3, <2>2, <2>3, DeathStart, IntactKept DEF JobsGoOn
  <1> QED BY <1>1, <1>2, <1>3, IntactInsert, IntactDelete, IntactErase
          DEF main_thread, do_siprec_message

LEMMA IntactConversion ==
  ASSUME TypeInv, TypeInv', IntactInv, to_pcm_thread
  PROVE  IntactInv'
  <1>1. ASSUME NEW j \in jobs, Sox(j) PROVE IntactInv'
    <2>1. UNCHANGED <<g_call_factory, objs, main>> /\ JobsGoOn
      <3>1. jobs' = (jobs \ {j}) \cup {[j EXCEPT !.step = "remove"]}
        BY <1>1 DEF Sox
      <3>2. j \in Job
        BY DEF TypeInv, JobsOK
      <3>3. [j EXCEPT !.step = "remove"].obj = j.obj /\ [j EXCEPT !.step = "remove"].line = j.line
        BY <3>2 DEF Job
      <3> QED BY <1>1, <3>1, <3>3 DEF Sox, calls, JobsGoOn
    <2> QED BY <2>1, RestKept, IntactKept DEF NotErasing
  <1>2. ASSUME NEW j \in jobs, Remove(j) PROVE IntactInv'
    <2> DEFINE f == JobFile(j)
               d == objs[j.obj].cid
    <2>1. /\ ObjsStep /\ DOMAIN objs' = DOMAIN objs
          /\ \A o \in DOMAIN objs :
               /\ objs'[o].alive = objs[o].alive
               /\ \A l \in Line, i \in Index :
                    objs'[o].media_list[l].fh[i] =
                      IF Names(o, l, i, f) THEN "unlinked" ELSE objs[o].media_list[l].fh[i]
      BY <1>2, JobTypes, UnlinkStep DEF Remove, TypeInv, ObjsOK
    <2>2. UNCHANGED <<g_call_factory, main>>
      BY <1>2 DEF Remove
    <2>3. /\ j.obj \in DOMAIN objs /\ j.line \in Line /\ d \in Calls
          /\ ~ objs[j.obj].alive
          /\ \A i \in Index : objs[j.obj].media_list[j.line].fh[i] = "closed"
      BY JobTypes, ObjectParts DEF IntactInv, JobsClosed, TypeInv, ObjsOK
    <2>4. \A o \in DOMAIN objs, l \in Line, i \in Index :
            Names(o, l, i, f) => objs[o].cid = d /\ l = j.line /\ objs[o].media_list[l].fh[i] = "open"
      BY DEF Names, JobFile
    <2> HIDE DEF d, f
    <2>5. Deleted(d) /\ objs[j.obj].cid = d
      BY <2>3 DEF Deleted, d
    <2>6. \A o \in DOMAIN objs : objs'[o].cid = objs[o].cid
      BY <2>1 DEF ObjsStep
    <2>7. OneDead' /\ OutOfMap'
      BY <2>1, <2>2, <2>6 DEF IntactInv, OneDead, OutOfMap, Deleted
    <2>8. \A o \in DOMAIN objs, l \in Line, i \in Index :
            objs[o].media_list[l].fh[i] = "closed" => objs'[o].media_list[l].fh[i] = "closed"
      BY <2>1, <2>4
    <2>9. JobsClosed'
      <3>1. ASSUME NEW x \in jobs'
            PROVE  \E y \in jobs : x.obj = y.obj /\ x.line = y.line
        <4>1. jobs' \subseteq jobs \cup {[j EXCEPT !.index = 1, !.step = "sox"]}
          BY <1>2 DEF Remove
        <4>2. j \in Job
          BY DEF TypeInv, JobsOK
        <4>3. /\ [j EXCEPT !.index = 1, !.step = "sox"].obj = j.obj
              /\ [j EXCEPT !.index = 1, !.step = "sox"].line = j.line
          BY <4>2 DEF Job
        <4> QED BY <4>1, <4>3
      <3>2. \A y \in jobs : y.obj \in DOMAIN objs /\ y.line \in Line
        BY JobTypes
      <3>3. ASSUME NEW x \in jobs'
            PROVE  /\ ~ objs'[x.obj].alive
                   /\ \A i \in Index : objs'[x.obj].media_list[x.line].fh[i] = "closed"
        <4>1. PICK y \in jobs : x.obj = y.obj /\ x.line = y.line
          BY <3>1
        <4> QED BY <2>1, <2>8, <3>2, <4>1 DEF IntactInv, JobsClosed
      <3> QED BY <3>3 DEF JobsClosed
    <2>10. NamesKept'
      <3>1. \A o \in DOMAIN objs : Unlinked(o)' => Unlinked(o) \/ objs[o].cid = d
        BY <2>1, <2>4 DEF Unlinked
      <3>2. \A o \in DOMAIN objs : Deleted(objs[o].cid)' <=> Deleted(objs[o].cid)
        BY <2>1, <2>6 DEF Deleted
      <3>3. \A o \in DOMAIN objs : Unlinked(o)' => Deleted(objs[o].cid)
        BY <2>5, <3>1 DEF IntactInv, NamesKept
      <3>4. ASSUME NEW c \in Calls, g_call_factory'[c] # 0 PROVE ~ Unlinked(g_call_factory[c])'
        <4>0. PICK o : o = g_call_factory[c]
          OBVIOUS
        <4>1. o # 0 /\ o \in DOMAIN objs /\ objs[o].cid = c /\ ~ Unlinked(o)
          BY <2>2, <3>4, <4>0 DEF TypeInv, MapOK, IntactInv, NamesKept
        <4>2. CASE c # d
          <5>1. ~ Unlinked(o)'
            BY <3>1, <4>1, <4>2
          <5> QED BY <2>2, <4>0, <5>1 DEF Unlinked
        <4>3. CASE c = d
          <5>1. o = j.obj
            BY <2>3, <2>5, <4>0, <4>1, <4>3 DEF IntactInv, OutOfMap, OneDead
          <5>2. \A l \in Line, i \in Index : ~ Names(o, l, i, f)
            BY <2>3, <2>4, <4>1, <5>1
          <5>3. ~ Unlinked(o)'
            BY <2>1, <4>1, <5>2 DEF Unlinked
          <5> QED BY <2>2, <4>0, <5>3 DEF Unlinked
        <4> QED BY <4>2, <4>3
      <3> QED BY <2>1, <2>2, <2>6, <3>2, <3>3, <3>4 DEF NamesKept, Unlinked, Deleted
    <2> QED BY <2>7, <2>9, <2>10 DEF IntactInv
  <1> QED BY <1>1, <1>2 DEF to_pcm_thread
LEMMA IntactInductive ==
  ASSUME TypeInv, TypeInv', OrderInv, IntactInv, [Next]_vars
  PROVE  IntactInv'
  <1>1. CASE UNCHANGED vars \/ Environment
    <2>1. UNCHANGED <<g_call_factory, jobs, objs, main>>
      BY <1>1 DEF vars, Environment, StartSession, HangUp, Retransmit, GiveUp, GetOk, Lose,
                  SendRtp, calls, threads
    <2> QED BY <2>1, RestKept, IntactKept DEF NotErasing, JobsGoOn
  <1> QED BY <1>1, IntactEpoll, IntactMain, IntactConversion DEF Next

\* Of a call's objects one is dead at most; it is out of the map, conversions work on
\* its closed FILEs only, and before its death no file of the call loses its name.
THEOREM IntactAlways == ASSUME InOrder PROVE Spec => []IntactInv
  <1>1. Init => IntactInv
    BY DEF Init, IntactInv, OneDead, OutOfMap, JobsClosed, NamesKept, Deleted
  <1>2. TypeInv /\ TypeInv' /\ OrderInv /\ IntactInv /\ [Next]_vars => IntactInv'
    BY IntactInductive
  <1> QED BY <1>1, <1>2, TypesHold, ByeComesLast, PTL DEF Spec

\* As long as the requests of a session arrive in the order sent, a call in the map
\* is that of its Call-ID and alive, and what is being recorded keeps its name: no
\* conversion of an earlier object of the call takes it away, however often INVITE
\* and BYE are repeated, and whatever is lost.
THEOREM RecordingsStayIntact == ASSUME InOrder PROVE Spec => []RecordingsIntact
  <1>1. TypeInv /\ IntactInv => RecordingsIntact
    <2> SUFFICES ASSUME TypeInv, IntactInv, NEW c \in Calls, g_call_factory[c] # 0
                 PROVE  /\ objs[g_call_factory[c]].cid = c
                        /\ objs[g_call_factory[c]].alive \/ (main.pc = "erase" /\ main.msg.call = c)
                        /\ \A l \in Line, i \in Index :
                             objs[g_call_factory[c]].media_list[l].fh[i] # "unlinked"
      BY DEF RecordingsIntact
    <2> DEFINE o == g_call_factory[c]
    <2>1. o \in DOMAIN objs /\ objs[o].cid = c
      BY DEF TypeInv, MapOK
    <2>2. objs[o].alive \/ (main.pc = "erase" /\ main.msg.call = c)
      BY <2>1 DEF IntactInv, OutOfMap, Deleted
    <2>3. ~ Unlinked(o)
      BY DEF IntactInv, NamesKept
    <2> QED BY <2>1, <2>2, <2>3 DEF Unlinked
  <1> QED BY <1>1, TypesHold, IntactAlways, PTL
------------------------------------------------------------------------------
(* A session that has ended is out of the map.                              *)

\* the BYE of c was handled: no INVITE can put it into the map again
Handled(c) ==
  /\ NoInvite(c)
  /\ g_call_factory[c] = 0 \/ (main.pc \in {"remove", "erase"} /\ main.msg.call = c)

SomethingLost(c) == \E n \in 1 .. MaxLoss : <<c, n>> \in lost

\* the BYE of c was answered
ByeAnswered(c) == \E a \in answers : a.method = "BYE" /\ a.call = c

HandledInv ==
  \A c \in Calls :
    /\ ByeAnswered(c) => Over(c) /\ Handled(c)
    /\ session[c] = "done" => Handled(c) \/ SomethingLost(c)

LEMMA NoInviteStays ==
  ASSUME TypeInv, [Next]_vars, NEW c \in Calls, Over(c), NoInvite(c)
  PROVE  NoInvite(c)'
  <1> DEFINE I == Req("INVITE", c)
  <1>0. I.method = "INVITE" /\ I.call = c
    BY ReqParts
  <1>1. CASE Environment
    <2>1. UNCHANGED <<g_siprec_queue, main>>
      BY <1>1 DEF Environment, StartSession, HangUp, Retransmit, GiveUp, GetOk, Lose, SendRtp,
                  shared, threads
    <2> QED BY <1>1, <2>1, NetGrows DEF NoInvite, InQueue, Opening, Inviting, Req
  <1>2. ASSUME NEW m \in net, RecvSip(m) PROVE NoInvite(c)'
    <2>1. /\ m \in Request /\ net' = net \ {m} /\ g_siprec_queue' = Append(g_siprec_queue, m)
          /\ UNCHANGED main
      BY <1>2 DEF RecvSip, TypeInv, OutsideOK, OutsideTypeOK
    <2>2. ~ InQueue(I)'
      BY <2>1, Pushed DEF NoInvite
    <2> QED BY <2>1, <2>2 DEF NoInvite, Opening, Inviting, Req
  <1>3. CASE Take
    <2> DEFINE m == Head(g_siprec_queue)
    <2>1. /\ g_siprec_queue # <<>> /\ g_siprec_queue' = Tail(g_siprec_queue)
          /\ UNCHANGED net /\ main.pc = "wait"
          /\ main' = main \/ main' = [main EXCEPT !.pc = m.method, !.msg = m]
      BY <1>3 DEF Take, outside
    <2>2. m \in Request /\ m = Req(m.method, m.call) /\ InQueue(m) /\ ~ InQueue(I)'
      BY <2>1, Popped, ReqParts DEF InQueue, NoInvite
    <2>3. main' = main \/ (main'.pc = m.method /\ main'.msg = m /\ m # I)
      BY <2>1, <2>2 DEF TypeInv, MainOK, NoInvite
    <2>4. m.method \in {"INVITE", "ACK", "BYE"}
      BY <2>2, ReqTypes
    <2>5. ~ Opening(c)'
      BY <2>1, <2>2, <2>3, <2>4 DEF Opening, Inviting
    <2> QED BY <2>1, <2>2, <2>5 DEF NoInvite, Req
  <1>4. CASE AcceptInvite \/ start_recording
    <2>1. UNCHANGED <<g_siprec_queue, net>> /\ main'.msg = main.msg /\ Inviting
      BY <1>4, DeathAccept, DeathStart DEF AcceptInvite, start_recording, Inviting
    <2> QED BY <2>1 DEF NoInvite, InQueue, Opening, Inviting, Req
  <1>5. ASSUME UNCHANGED <<g_siprec_queue, net>>, ~ Inviting' \/ UNCHANGED main PROVE NoInvite(c)'
    BY <1>5 DEF NoInvite, InQueue, Opening, Inviting, Req
  <1>6. CASE UNCHANGED vars
    BY <1>5, <1>6 DEF vars
  <1>7. CASE Notify \/ Wait \/ Wake
    BY <1>5, <1>7 DEF Notify, Wait, Wake, Goto, Inviting, shared, outside, TypeInv, MainOK
  <1>8. CASE Insert \/ AnswerBye \/ RemoveUnknown \/ Delete \/ Erase
    BY <1>5, <1>8 DEF Insert, AnswerBye, RemoveUnknown, Delete, Erase, Goto, Inviting, shared,
                      outside, TypeInv, MainOK
  <1>9. CASE do_rtp
    BY <1>5, <1>9, DeathRtp
  <1>10. CASE to_pcm_thread
    BY <1>5, <1>10, DeathConversion
  <1> QED BY <1>1, <1>2, <1>3, <1>4, <1>6, <1>7, <1>8, <1>9, <1>10
          DEF Next, epoll_thread, main_thread, do_siprec_message

LEMMA HandledStays ==
  ASSUME TypeInv, [Next]_vars, NEW c \in Calls, Over(c), Handled(c)
  PROVE  Handled(c)'
  <1>1. NoInvite(c)'
    BY NoInviteStays DEF Handled
  <1>2. ASSUME UNCHANGED <<g_call_factory, main>> PROVE Handled(c)'
    BY <1>1, <1>2 DEF Handled
  <1>3. CASE UNCHANGED vars \/ Environment
    BY <1>2, <1>3 DEF vars, Environment, StartSession, HangUp, Retransmit, GiveUp, GetOk, Lose,
                      SendRtp, calls, threads
  <1>4. CASE epoll_thread
    <2>1. UNCHANGED g_call_factory /\ (main' = main \/ main.pc = "blocked")
      BY <1>4 DEF epoll_thread, do_rtp, Notify, TakeRtp, DropRtp, LookupFaults, ReadRtp, WriteRtp,
                  RecvSip, calls
    <2> QED BY <1>1, <2>1 DEF Handled
  <1>5. CASE to_pcm_thread
    BY <1>2, <1>5, DeathConversion
  <1>6. CASE Wait \/ Wake \/ Take \/ AnswerBye
    <2>1. UNCHANGED g_call_factory /\ main.pc \in {"wait", "blocked", "BYE"}
      BY <1>6 DEF Wait, Wake, Take, AnswerBye, calls
    <2> QED BY <1>1, <2>1 DEF Handled
  <1>7. CASE AcceptInvite \/ start_recording
    <2>1. UNCHANGED g_call_factory /\ main.pc \in {"INVITE", "open"}
      BY <1>7, DeathAccept, DeathStart DEF AcceptInvite, start_recording
    <2> QED BY <1>1, <2>1 DEF Handled
  <1>8. CASE Insert
    <2>1. /\ main.pc = "insert" /\ main.msg.call # c
          /\ g_call_factory' = [g_call_factory EXCEPT ![main.msg.call] = main.obj]
      BY <1>8 DEF Insert, Handled, NoInvite, Opening, Inviting
    <2>2. g_call_factory'[c] = g_call_factory[c]
      BY <2>1 DEF TypeInv, MapOK
    <2> QED BY <1>1, <2>1, <2>2 DEF Handled
  <1>9. CASE RemoveUnknown
    <2>1. UNCHANGED g_call_factory /\ g_call_factory[main.msg.call] = 0
      BY <1>9 DEF RemoveUnknown, calls
    <2> QED BY <1>1, <2>1 DEF Handled
  <1>10. CASE Delete
    BY <1>1, <1>10, DeathDelete DEF Handled, Deletes
  <1>11. CASE Erase
    <2>1. g_call_factory' = [g_call_factory EXCEPT ![main.msg.call] = 0]
      BY <1>11 DEF Erase
    <2>2. g_call_factory'[c] = IF c = main.msg.call THEN 0 ELSE g_call_factory[c]
      BY <2>1 DEF TypeInv, MapOK
    <2> QED BY <1>1, <2>2 DEF Handled
  <1> QED BY <1>3, <1>4, <1>5, <1>6, <1>7, <1>8, <1>9, <1>10, <1>11
          DEF Next, main_thread, do_siprec_message

\* Only the main thread answers, and only FreeSWITCH ends a session.
LEMMA AnswersCome ==
  ASSUME TypeInv, [Next]_vars, NEW c \in Calls
  PROVE  /\ ByeAnswered(c)' => ByeAnswered(c) \/ (AnswerBye /\ Closing(c))
         /\ session'[c] = "done" =>
              session[c] = "done" \/ ByeAnswered(c) \/ SomethingLost(c)
         /\ SomethingLost(c) => SomethingLost(c)'
  <1>0. session \in [Calls -> {"idle", "inviting", "up", "byeing", "done"}]
    BY DEF TypeInv, OutsideOK, OutsideTypeOK
  <1>1. ASSUME UNCHANGED <<session, lost>>, answers' \subseteq answers
        PROVE  /\ ByeAnswered(c)' => ByeAnswered(c)
               /\ session'[c] = "done" => session[c] = "done"
               /\ SomethingLost(c) => SomethingLost(c)'
    BY <1>1 DEF ByeAnswered, SomethingLost
  <1>2. CASE UNCHANGED vars \/ epoll_thread \/ to_pcm_thread
    BY <1>1, <1>2 DEF vars, epoll_thread, do_rtp, Notify, TakeRtp, DropRtp, LookupFaults, ReadRtp,
                      WriteRtp, RecvSip, to_pcm_thread, Sox, Remove, outside
  <1>3. CASE Wait \/ Wake \/ Take \/ start_recording \/ Insert \/ RemoveUnknown \/ Delete \/ Erase
    BY <1>1, <1>3 DEF Wait, Wake, Take, start_recording, Insert, RemoveUnknown, Delete, Erase,
                      outside
  <1>4. CASE AcceptInvite \/ AnswerBye
    <2>1. /\ UNCHANGED <<session, lost>>
          /\ answers' = answers \cup {[method |-> main.msg.method, call |-> main.msg.call,
                                       to |-> g_siprec_addr]}
          /\ (AcceptInvite /\ Inviting) \/ (AnswerBye /\ Ending)
      BY <1>4 DEF AcceptInvite, AnswerBye, SendOk, Inviting, Ending
    <2>2. Inviting => main.msg.method = "INVITE"
      BY DEF TypeInv, MainOK
    <2>3. ByeAnswered(c)' => ByeAnswered(c) \/ (AnswerBye /\ Closing(c))
      BY <2>1, <2>2 DEF ByeAnswered, Closing
    <2> QED BY <2>1, <2>3 DEF SomethingLost
  <1>5. ASSUME NEW x \in Calls, StartSession(x) \/ HangUp(x) \/ Retransmit(x)
        PROVE  /\ UNCHANGED <<answers, lost>> /\ (session'[c] = "done" => session[c] = "done")
    BY <1>0, <1>5 DEF StartSession, HangUp, Retransmit
  <1>6. ASSUME NEW x \in Calls, GiveUp(x)
        PROVE  /\ UNCHANGED <<answers, lost>>
               /\ session'[c] = "done" => session[c] = "done" \/ SomethingLost(c)
    BY <1>0, <1>6 DEF GiveUp, SomethingLost
  <1>7. ASSUME NEW r \in answers, GetOk(r)
        PROVE  /\ UNCHANGED lost /\ answers' \subseteq answers
               /\ session'[c] = "done" => session[c] = "done" \/ ByeAnswered(c)
    <2>1. \/ session' = session
          \/ session' = [session EXCEPT ![r.call] = "up"]
          \/ r.method = "BYE" /\ session' = [session EXCEPT ![r.call] = "done"]
      BY <1>7 DEF GetOk
    <2> QED BY <1>0, <1>7, <2>1 DEF GetOk, ByeAnswered
  <1>8. ASSUME NEW m \in net \cup answers, Lose(m)
        PROVE  /\ UNCHANGED session /\ answers' \subseteq answers /\ lost \subseteq lost'
    BY <1>8 DEF Lose
  <1>9. ASSUME NEW s \in Stream, SendRtp(s) PROVE UNCHANGED <<session, answers, lost>>
    BY <1>9 DEF SendRtp, outside
  <1>10. CASE Environment
    <2>1. ByeAnswered(c)' => ByeAnswered(c)
      <3>1. answers' \subseteq answers
        BY <1>5, <1>6, <1>7, <1>8, <1>9, <1>10 DEF Environment
      <3> QED BY <3>1 DEF ByeAnswered
    <2>2. session'[c] = "done" => session[c] = "done" \/ ByeAnswered(c) \/ SomethingLost(c)
      BY <1>5, <1>6, <1>7, <1>8, <1>9, <1>10 DEF Environment
    <2>3. SomethingLost(c) => SomethingLost(c)'
      <3>1. lost \subseteq lost'
        BY <1>5, <1>6, <1>7, <1>8, <1>9, <1>10 DEF Environment
      <3> QED BY <3>1 DEF SomethingLost
    <2> QED BY <2>1, <2>2, <2>3
  <1> QED BY <1>2, <1>3, <1>4, <1>10 DEF Next, main_thread, do_siprec_message

LEMMA HandledInductive ==
  ASSUME TypeInv, OrderInv, HandledInv, [Next]_vars
  PROVE  HandledInv'
  <1> SUFFICES ASSUME NEW c \in Calls
               PROVE  /\ ByeAnswered(c)' => Over(c)' /\ Handled(c)'
                      /\ session'[c] = "done" => Handled(c)' \/ SomethingLost(c)'
    BY DEF HandledInv
  <1>1. ASSUME AnswerBye, Closing(c) PROVE Over(c) /\ Handled(c)'
    <2>1. Over(c) /\ NoInvite(c)
      BY <1>1 DEF OrderInv, Order, EndsOver
    <2>2. main'.pc = "remove" /\ main'.msg = main.msg
      BY <1>1 DEF AnswerBye, Goto, TypeInv, MainOK
    <2> QED BY <1>1, <2>1, <2>2, NoInviteStays DEF Handled, Closing
  <1>2. ASSUME ByeAnswered(c) PROVE Over(c)' /\ Handled(c)'
    BY <1>2, StaysOver, HandledStays DEF HandledInv
  <1>3. ByeAnswered(c)' => Over(c)' /\ Handled(c)'
    BY <1>1, <1>2, StaysOver, AnswersCome
  <1>4. ASSUME session'[c] = "done" PROVE Handled(c)' \/ SomethingLost(c)'
    <2>1. CASE session[c] = "done"
      <3>1. Over(c) /\ (Handled(c) \/ SomethingLost(c))
        BY <2>1 DEF Over, HandledInv
      <3> QED BY <3>1, HandledStays, AnswersCome
    <2> QED BY <1>2, <1>4, <2>1, AnswersCome
  <1> QED BY <1>3, <1>4

\* A session that has ended leaves its call in the map only if one of its messages
\* was lost, or while its last text is still on its way: the answer to a BYE is not
\* sent before the INVITE has been handled, and the call is removed at once.
THEOREM EndedCallsAreGone == ASSUME InOrder PROVE Spec => []NothingLeftBehind
  <1>1. Init => HandledInv
    BY DEF Init, HandledInv, ByeAnswered
  <1>2. TypeInv /\ OrderInv /\ HandledInv /\ [Next]_vars => HandledInv'
    BY HandledInductive
  <1>3. HandledInv => NothingLeftBehind
    BY DEF HandledInv, Handled, SomethingLost, NothingLeftBehind
  <1> QED BY <1>1, <1>2, <1>3, TypesHold, ByeComesLast, PTL DEF Spec
------------------------------------------------------------------------------
(* Where no INVITE is sent again, a session has one INVITE and one object.  *)

\* a step that sends no INVITE for the second time; a BYE it may
InviteOnce == \A c \in Calls : session[c] = "inviting" => ~ Retransmit(c)

NoObject(c) == \A o \in DOMAIN objs : objs[o].cid # c

\* The INVITE of c is in one place at most, and once it was accepted in none.
Once(c) ==
  LET I == Req("INVITE", c)
  IN  /\ session[c] = "idle" => NoInvite(c) /\ NoObject(c)
      /\ I \in net => ~ InQueue(I) /\ ~ Opening(c) /\ NoObject(c)
      /\ InQueue(I) => ~ Opening(c) /\ NoObject(c)
      /\ \A j, k \in DOMAIN g_siprec_queue :
           g_siprec_queue[j] = I /\ g_siprec_queue[k] = I => j = k
      /\ main.pc = "INVITE" /\ main.msg.call = c => NoObject(c)

OneObject == \A o, p \in DOMAIN objs : objs[o].cid = objs[p].cid => o = p

OnceInv == OneObject /\ \A c \in Calls : Once(c)

\* Nobody is called anew, and nothing moves towards the main thread.
LEMMA OnceKept ==
  ASSUME OnceInv, UNCHANGED <<g_siprec_queue, net, session>>,
         DOMAIN objs' = DOMAIN objs, \A o \in DOMAIN objs : objs'[o].cid = objs[o].cid,
         \A c \in Calls : Opening(c)' => Opening(c),
         main'.pc = "INVITE" => main' = main
  PROVE  OnceInv'
  <1>1. OneObject'
    BY DEF OnceInv, OneObject
  <1>2. ASSUME NEW c \in Calls PROVE Once(c)'
    <2> DEFINE I == Req("INVITE", c)
    <2>1. NoObject(c)' <=> NoObject(c)
      BY DEF NoObject
    <2>2. InQueue(I)' <=> InQueue(I)
      BY DEF InQueue, Req
    <2>3. NoInvite(c) => NoInvite(c)'
      BY <2>2 DEF NoInvite, Req
    <2>4. Once(c)
      BY DEF OnceInv
    <2>5. main'.pc = "INVITE" /\ main'.msg.call = c => NoObject(c)'
      BY <2>1, <2>4 DEF Once
    <2>6. I' = I
      BY DEF Req
    <2> HIDE DEF I
    <2>7. \A j, k \in DOMAIN g_siprec_queue' :
            g_siprec_queue'[j] = I /\ g_siprec_queue'[k] = I => j = k
      BY <2>4 DEF Once, I
    <2>8. /\ session'[c] = "idle" => NoInvite(c)' /\ NoObject(c)'
          /\ I \in net' => ~ InQueue(I)' /\ ~ Opening(c)' /\ NoObject(c)'
          /\ InQueue(I)' => ~ Opening(c)' /\ NoObject(c)'
      BY <2>1, <2>2, <2>3, <2>4, <2>6 DEF Once, I
    <2> QED BY <2>5, <2>6, <2>7, <2>8 DEF Once, I
  <1> QED BY <1>1, <1>2 DEF OnceInv

LEMMA OnceEnvironment ==
  ASSUME TypeInv, OnceInv, InviteOnce, Environment
  PROVE  OnceInv'
  <1>1. UNCHANGED <<g_siprec_queue, objs, main>>
    BY DEF Environment, StartSession, HangUp, Retransmit, GiveUp, GetOk, Lose, SendRtp,
           shared, calls, threads
  <1>2. ASSUME NEW c \in Calls
        PROVE  /\ session'[c] = "idle" => session[c] = "idle" /\ Req("INVITE", c) \notin net'
               /\ Req("INVITE", c) \in net' => Req("INVITE", c) \in net \/ session[c] = "idle"
    <2> DEFINE Claim == /\ session'[c] = "idle" => session[c] = "idle" /\ Req("INVITE", c) \notin net'
                        /\ Req("INVITE", c) \in net' => Req("INVITE", c) \in net \/ session[c] = "idle"
    <2>0. /\ session \in [Calls -> {"idle", "inviting", "up", "byeing", "done"}]
          /\ session[c] = "idle" => Req("INVITE", c) \notin net
      BY DEF TypeInv, OutsideOK, OutsideTypeOK, OnceInv, Once, NoInvite
    <2>1. ASSUME NEW x \in Calls, StartSession(x) PROVE Claim
      BY <2>0, <2>1, ReqParts DEF StartSession
    <2>2. ASSUME NEW x \in Calls, HangUp(x) PROVE Claim
      BY <2>0, <2>2, ReqParts DEF HangUp
    <2>3. ASSUME NEW x \in Calls, Retransmit(x) PROVE Claim
      <3>1. net' = net \cup {Req("BYE", x)} /\ UNCHANGED session
        BY <2>3 DEF Retransmit, InviteOnce
      <3> QED BY <2>0, <3>1, ReqParts
    <2>4. ASSUME NEW x \in Calls, GiveUp(x) PROVE Claim
      BY <2>0, <2>4 DEF GiveUp
    <2>5. ASSUME NEW r \in answers, GetOk(r) PROVE Claim
      <3>1. net' = net \/ net' = net \cup {Req("ACK", r.call)}
        BY <2>5 DEF GetOk
      <3>2. \/ session' = session
            \/ session' = [session EXCEPT ![r.call] = "up"]
            \/ session' = [session EXCEPT ![r.call] = "done"]
        BY <2>5 DEF GetOk
      <3> QED BY <2>0, <3>1, <3>2, ReqParts
    <2>6. ASSUME NEW m \in net \cup answers, Lose(m) PROVE Claim
      BY <2>0, <2>6 DEF Lose
    <2>7. ASSUME NEW s \in Stream, SendRtp(s) PROVE Claim
      BY <2>0, <2>7 DEF SendRtp, outside
    <2> HIDE DEF Claim
    <2>8. Claim
      BY <2>1, <2>2, <2>3, <2>4, <2>5, <2>6, <2>7 DEF Environment
    <2> QED BY <2>8 DEF Claim
  <1>3. OneObject'
    BY <1>1 DEF OnceInv, OneObject
  <1>4. ASSUME NEW c \in Calls PROVE Once(c)'
    <2> DEFINE I == Req("INVITE", c)
    <2>1. Once(c) /\ (NoObject(c)' <=> NoObject(c)) /\ (Opening(c)' <=> Opening(c))
      BY <1>1 DEF OnceInv, NoObject, Opening, Inviting
    <2>2. (InQueue(I)' <=> InQueue(I)) /\ I' = I
      BY <1>1 DEF InQueue, Req
    <2>3. session[c] = "idle" => ~ InQueue(I) /\ ~ Opening(c) /\ NoObject(c)
      BY <2>1 DEF Once, NoInvite
    <2>4. /\ session'[c] = "idle" => NoInvite(c)' /\ NoObject(c)'
          /\ I \in net' => ~ InQueue(I)' /\ ~ Opening(c)' /\ NoObject(c)'
          /\ InQueue(I)' => ~ Opening(c)' /\ NoObject(c)'
      BY <1>2, <2>1, <2>2, <2>3 DEF Once, NoInvite
    <2>5. main'.pc = "INVITE" /\ main'.msg.call = c => NoObject(c)'
      BY <1>1, <2>1 DEF Once
    <2>6. \A j, k \in DOMAIN g_siprec_queue' :
            g_siprec_queue'[j] = I /\ g_siprec_queue'[k] = I => j = k
      BY <1>1, <2>1 DEF Once
    <2> QED BY <2>2, <2>4, <2>5, <2>6 DEF Once
  <1> QED BY <1>3, <1>4 DEF OnceInv

LEMMA OnceRecv ==
  ASSUME TypeInv, OnceInv, NEW m \in net, RecvSip(m)
  PROVE  OnceInv'
  <1>1. /\ m \in Request /\ net' = net \ {m} /\ g_siprec_queue' = Append(g_siprec_queue, m)
        /\ UNCHANGED <<main, session, objs>>
    BY DEF RecvSip, TypeInv, OutsideOK, OutsideTypeOK, calls
  <1>2. OneObject'
    BY <1>1 DEF OnceInv, OneObject
  <1>3. ASSUME NEW c \in Calls PROVE Once(c)'
    <2> DEFINE I == Req("INVITE", c)
    <2>1. Once(c) /\ (NoObject(c)' <=> NoObject(c)) /\ (Opening(c)' <=> Opening(c)) /\ I' = I
      BY <1>1 DEF OnceInv, NoObject, Opening, Inviting, Req
    <2>2. InQueue(I)' => InQueue(I) \/ (m = I /\ I \in net)
      BY <1>1, Pushed
    <2>3. /\ session'[c] = "idle" => NoInvite(c)' /\ NoObject(c)'
          /\ I \in net' => ~ InQueue(I)' /\ ~ Opening(c)' /\ NoObject(c)'
          /\ InQueue(I)' => ~ Opening(c)' /\ NoObject(c)'
      BY <1>1, <2>1, <2>2 DEF Once, NoInvite
    <2>4. main'.pc = "INVITE" /\ main'.msg.call = c => NoObject(c)'
      BY <1>1, <2>1 DEF Once
    <2>5. ASSUME NEW j \in DOMAIN g_siprec_queue', NEW k \in DOMAIN g_siprec_queue',
                 g_siprec_queue'[j] = I, g_siprec_queue'[k] = I
          PROVE  j = k
      <3>1. CASE m = I
        <4>1. ~ InQueue(I)
          BY <2>1, <3>1 DEF Once
        <4>2. j \notin DOMAIN g_siprec_queue /\ k \notin DOMAIN g_siprec_queue
          BY <1>1, <2>5, <4>1, Pushed DEF InQueue
        <4> QED BY <1>1, <4>2, Pushed
      <3>2. CASE m # I
        <4>1. j \in DOMAIN g_siprec_queue /\ k \in DOMAIN g_siprec_queue
          BY <1>1, <2>5, <3>2, Pushed
        <4>2. g_siprec_queue[j] = I /\ g_siprec_queue[k] = I
          BY <1>1, <2>5, <4>1, Pushed
        <4> QED BY <2>1, <4>1, <4>2 DEF Once
      <3> QED BY <3>1, <3>2
    <2> QED BY <2>1, <2>3, <2>4, <2>5 DEF Once
  <1> QED BY <1>2, <1>3 DEF OnceInv

LEMMA OnceTake ==
  ASSUME TypeInv, OnceInv, Take
  PROVE  OnceInv'
  <1> DEFINE m == Head(g_siprec_queue)
  <1>1. /\ main.pc = "wait" /\ g_siprec_queue # <<>> /\ g_siprec_queue' = Tail(g_siprec_queue)
        /\ UNCHANGED <<net, session, objs>>
        /\ main' = main \/ main' = [main EXCEPT !.pc = m.method, !.msg = m]
    BY DEF Take, calls, outside
  <1>2. m \in Request /\ m = Req(m.method, m.call) /\ InQueue(m) /\ m = g_siprec_queue[1]
    BY <1>1, Popped, ReqParts DEF InQueue
  <1>3. m.method \in {"INVITE", "ACK", "BYE"}
    BY <1>2, ReqTypes
  <1>4. main' = main \/ (main'.pc = m.method /\ main'.msg = m)
    BY <1>1 DEF TypeInv, MainOK
  <1>5. OneObject'
    BY <1>1 DEF OnceInv, OneObject
  <1> HIDE DEF m
  <1>6. ASSUME NEW c \in Calls PROVE Once(c)'
    <2> DEFINE I == Req("INVITE", c)
    <2>1. Once(c) /\ (NoObject(c)' <=> NoObject(c)) /\ I' = I /\ ~ Opening(c)
      BY <1>1 DEF OnceInv, NoObject, Opening, Inviting, Req
    <2>2. Opening(c)' => m = I
      BY <1>1, <1>2, <1>3, <1>4 DEF Opening, Inviting
    <2>3. InQueue(I)' => InQueue(I)
      BY <1>1, Popped
    <2>4. m = I => ~ InQueue(I)'
      <3> SUFFICES ASSUME m = I, NEW k \in DOMAIN g_siprec_queue', g_siprec_queue'[k] = I
                   PROVE FALSE
        BY DEF InQueue, Req
      <3>1. k + 1 \in DOMAIN g_siprec_queue /\ g_siprec_queue[k + 1] = I /\ k + 1 # 1
        BY <1>1, Popped
      <3>2. 1 \in DOMAIN g_siprec_queue /\ g_siprec_queue[1] = I
        BY <1>1, <1>2, Popped
      <3> QED BY <2>1, <3>1, <3>2 DEF Once
    <2>5. m = I => InQueue(I)
      BY <1>2
    <2>6. /\ session'[c] = "idle" => NoInvite(c)' /\ NoObject(c)'
          /\ I \in net' => ~ InQueue(I)' /\ ~ Opening(c)' /\ NoObject(c)'
          /\ InQueue(I)' => ~ Opening(c)' /\ NoObject(c)'
      BY <1>1, <2>1, <2>2, <2>3, <2>4, <2>5 DEF Once, NoInvite
    <2>7. main'.pc = "INVITE" /\ main'.msg.call = c => NoObject(c)'
      <3>1. main'.pc = "INVITE" /\ main'.msg.call = c => Opening(c)'
        BY DEF Opening, Inviting
      <3> QED BY <2>1, <2>2, <2>5, <3>1 DEF Once
    <2>8. ASSUME NEW j \in DOMAIN g_siprec_queue', NEW k \in DOMAIN g_siprec_queue',
                 g_siprec_queue'[j] = I, g_siprec_queue'[k] = I
          PROVE  j = k
      <3>1. /\ j \in Nat /\ j + 1 \in DOMAIN g_siprec_queue /\ g_siprec_queue[j + 1] = I
            /\ k \in Nat /\ k + 1 \in DOMAIN g_siprec_queue /\ g_siprec_queue[k + 1] = I
        BY <1>1, <2>8, Popped
      <3>2. j + 1 = k + 1
        BY <2>1, <3>1 DEF Once
      <3> QED BY <3>1, <3>2
    <2> QED BY <2>1, <2>6, <2>7, <2>8 DEF Once
  <1> QED BY <1>5, <1>6 DEF OnceInv
LEMMA OnceAccept ==
  ASSUME TypeInv, OnceInv, AcceptInvite
  PROVE  OnceInv'
  <1> DEFINE n == main'.obj
             d == main.msg.call
  <1>1. /\ UNCHANGED <<g_siprec_queue, net, session>>
        /\ main.pc = "INVITE" /\ main'.pc = "open" /\ main'.msg = main.msg /\ d \in Calls
    BY DeathAccept, ReqTypes DEF AcceptInvite, TypeInv, MainOK, Inviting
  <1>2. /\ \A o \in DOMAIN objs' : o \in DOMAIN objs \/ o = n
        /\ \A o \in DOMAIN objs : o \in DOMAIN objs' /\ objs'[o].cid = objs[o].cid
        /\ objs'[n].cid = d
    BY DeathAccept DEF ObjsStep
  <1>3. NoObject(d) /\ \A c \in Calls : Once(c)
    BY <1>1 DEF OnceInv, Once
  <1> HIDE DEF n, d
  <1>4. OneObject'
    BY <1>2, <1>3 DEF OnceInv, OneObject, NoObject
  <1>5. ASSUME NEW c \in Calls PROVE Once(c)'
    <2> DEFINE I == Req("INVITE", c)
    <2>1. Once(c) /\ I' = I /\ (InQueue(I)' <=> InQueue(I)) /\ (Opening(c)' <=> Opening(c))
      BY <1>1, <1>3 DEF InQueue, Req, Opening, Inviting
    <2>2. Opening(c) <=> c = d
      BY <1>1 DEF Opening, Inviting, d
    <2>3. c # d => (NoObject(c) => NoObject(c)')
      BY <1>2 DEF NoObject
    <2> QED BY <1>1, <2>1, <2>2, <2>3 DEF Once, NoInvite
  <1> QED BY <1>4, <1>5 DEF OnceInv

LEMMA OnceInductive ==
  ASSUME TypeInv, OnceInv, [Next]_vars, [InviteOnce]_vars
  PROVE  OnceInv'
  <1>1. ASSUME UNCHANGED <<g_siprec_queue, net, session, objs>>,
               main'.pc \notin {"INVITE", "open", "insert"} \/ main' = main
        PROVE  OnceInv'
    <2>1. \A c \in Calls : Opening(c)' => Opening(c)
      BY <1>1 DEF Opening, Inviting
    <2> QED BY <1>1, <2>1, OnceKept
  <1>2. CASE UNCHANGED vars
    BY <1>1, <1>2 DEF vars
  <1>0. CASE InviteOnce /\ Environment
    BY <1>0, OnceEnvironment
  <1>3. CASE Notify
    BY <1>1, <1>3 DEF Notify, shared, calls, outside, TypeInv, MainOK
  <1>4. CASE do_rtp
    <2>1. /\ DOMAIN objs' = DOMAIN objs /\ \A o \in DOMAIN objs : objs'[o].cid = objs[o].cid
          /\ UNCHANGED session
      <3>1. ASSUME NEW o \in DOMAIN objs, NEW l \in Line, NEW s \in Stream, TakeRtp(o, l, s)
            PROVE  DOMAIN objs' = DOMAIN objs /\ UNCHANGED session
        <4>1. PICK ml : Becomes(o, ml, objs[o].alive)
          BY <3>1, TakeStep DEF TypeInv, ObjsOK
        <4> QED BY <3>1, <4>1 DEF Becomes, TakeRtp, ReadRtp, outside
      <3>2. ASSUME NEW o, NEW l, NEW s, DropRtp(o, l, s) \/ LookupFaults(o, l, s)
            PROVE  DOMAIN objs' = DOMAIN objs /\ UNCHANGED session
        BY <3>2 DEF DropRtp, LookupFaults, ReadRtp, outside
      <3>3. ASSUME WriteRtp PROVE DOMAIN objs' = DOMAIN objs /\ UNCHANGED session
        BY <3>3 DEF WriteRtp, calls, outside
      <3>4. \A q \in rq : q[1] \in DOMAIN objs /\ q[2] \in Line /\ q[3] \in Stream
        BY DEF TypeInv, KernelOK
      <3>5. DOMAIN objs' = DOMAIN objs /\ UNCHANGED session
        BY <1>4, <3>1, <3>2, <3>3, <3>4 DEF do_rtp
      <3>6. ObjsStep
        BY <1>4, DeathRtp
      <3> QED BY <3>5, <3>6 DEF ObjsStep
    <2>2. UNCHANGED <<g_siprec_queue, net, main>>
      BY <1>4, DeathRtp
    <2>3. \A c \in Calls : Opening(c)' => Opening(c)
      BY <2>2 DEF Opening, Inviting
    <2> QED BY <2>1, <2>2, <2>3, OnceKept
  <1>5. CASE Wait \/ Wake \/ Insert \/ RemoveUnknown \/ Erase \/ AnswerBye
    BY <1>1, <1>5 DEF Wait, Wake, Insert, RemoveUnknown, Erase, AnswerBye, Goto, shared, calls,
                      outside, TypeInv, MainOK
  <1>6. CASE start_recording
    <2>1. /\ UNCHANGED <<g_siprec_queue, net, session>> /\ DOMAIN objs' = DOMAIN objs /\ ObjsStep
          /\ main.pc = "open" /\ main'.pc = "insert" /\ main'.msg = main.msg
      BY <1>6, DeathStart DEF start_recording, outside
    <2>2. \A c \in Calls : Opening(c)' => Opening(c)
      BY <2>1 DEF Opening, Inviting
    <2> QED BY <2>1, <2>2, OnceKept DEF ObjsStep
  <1>7. CASE Delete
    <2>0. Deletes(g_call_factory[main.msg.call])
      BY <1>7, DeathDelete
    <2>1. /\ UNCHANGED <<g_siprec_queue, net, session>> /\ DOMAIN objs' = DOMAIN objs /\ ObjsStep
          /\ main'.pc = "erase"
      BY <1>7, <2>0 DEF Delete, Deletes, outside
    <2>2. \A c \in Calls : Opening(c)' => Opening(c)
      BY <2>1 DEF Opening, Inviting
    <2> QED BY <2>1, <2>2, OnceKept DEF ObjsStep
  <1>8. CASE to_pcm_thread
    <2>1. ASSUME NEW j \in jobs, Sox(j) \/ Remove(j) PROVE DOMAIN objs' = DOMAIN objs
      BY <2>1, JobTypes, UnlinkStep DEF Sox, Remove, calls, TypeInv, ObjsOK
    <2>2. DOMAIN objs' = DOMAIN objs /\ ObjsStep /\ UNCHANGED <<g_siprec_queue, net, main, session>>
      BY <1>8, <2>1, DeathConversion DEF to_pcm_thread
    <2>3. \A c \in Calls : Opening(c)' => Opening(c)
      BY <2>2 DEF Opening, Inviting
    <2> QED BY <2>2, <2>3, OnceKept DEF ObjsStep
  <1> QED BY <1>0, <1>2, <1>3, <1>4, <1>5, <1>6, <1>7, <1>8, OnceRecv, OnceTake, OnceAccept
          DEF Next, epoll_thread, main_thread, do_siprec_message

\* As long as FreeSWITCH has to send no INVITE again, no Call-ID ever has a second
\* object, and so no second socket and no second FILE.
THEOREM OneObjectPerCall == Spec /\ [][InviteOnce]_vars => []OnceInv
  <1>1. Init => OnceInv
    BY ReqParts DEF Init, OnceInv, OneObject, Once, NoInvite, NoObject, InQueue, Opening, Inviting
  <1>2. TypeInv /\ OnceInv /\ [Next]_vars /\ [InviteOnce]_vars => OnceInv'
    BY OnceInductive
  <1> QED BY <1>1, <1>2, TypesHold, PTL DEF Spec
------------------------------------------------------------------------------
(* What the server promises of its recordings.                              *)

Fh(o, l, i) == objs[o].media_list[l].fh[i]
Src(o) == objs[o].media_list[1].src_port
Codec(o) == objs[o].media_list[1].codec
Name(o, l, i) == <<objs[o].cid, l, i>>

\* the phase of a recording when os are the objects
PhaseIn(os, f) ==
  IF \E o \in DOMAIN os : os[o].cid = f[1] /\ os[o].media_list[f[2]].fh[f[3]] \in {"open"}
  THEN "open"
  ELSE IF \E o \in DOMAIN os : os[o].cid = f[1] /\ os[o].media_list[f[2]].fh[f[3]] \in {"closed"}
       THEN "final" ELSE "none"

\* what a recording holds, in one file or the other
Held(r, w) == IF w # None THEN w ELSE IF r # None THEN r ELSE {}

LEMMA PromiseStutters ==
  ASSUME \A f \in File : PhaseIn(objs', f) = PhaseIn(objs, f),
         \A f \in File : Held(raw'[f], wav'[f]) = Held(raw[f], wav[f])
  PROVE  UNCHANGED Promise!vars
  <1>1. [f \in File |-> PhaseIn(objs', f)] = [f \in File |-> PhaseIn(objs, f)]
    OBVIOUS
  <1>2. [f \in File |-> Held(raw'[f], wav'[f])] = [f \in File |-> Held(raw[f], wav[f])]
    OBVIOUS
  <1> QED BY <1>1, <1>2 DEF Promise!vars, PhaseIn, Held, Opened

LEMMA PromiseMoves ==
  ASSUME NEW R \in SUBSET File, NEW from, NEW to,
         \A f \in R : PhaseIn(objs, f) = from,
         \A f \in File : PhaseIn(objs', f) = IF f \in R THEN to ELSE PhaseIn(objs, f),
         \A f \in File : Held(raw'[f], wav'[f]) = Held(raw[f], wav[f])
  PROVE  Promise!Move(R, from, to)
  <1>1. [f \in File |-> PhaseIn(objs', f)]
          = [f \in File |-> IF f \in R THEN to ELSE PhaseIn(objs, f)]
    OBVIOUS
  <1>2. [f \in File |-> Held(raw'[f], wav'[f])] = [f \in File |-> Held(raw[f], wav[f])]
    OBVIOUS
  <1>3. \A f \in R : [g \in File |-> PhaseIn(objs, g)][f] = from
    OBVIOUS
  <1>4. [f \in File |-> IF f \in R THEN to ELSE PhaseIn(objs, f)]
          = [f \in File |-> IF f \in R THEN to ELSE [g \in File |-> PhaseIn(objs, g)][f]]
    OBVIOUS
  <1> QED BY <1>1, <1>2, <1>3, <1>4 DEF Promise!Move, PhaseIn, Held, Opened

LEMMA PromiseRecords ==
  ASSUME NEW g \in File, PhaseIn(objs, g) = "open", NEW s \in {g[1]} \X Side,
         Held(raw[g], wav[g]) \subseteq {s},
         \A f \in File : Held(raw'[f], wav'[f]) = IF f = g THEN {s} ELSE Held(raw[f], wav[f]),
         \A f \in File : PhaseIn(objs', f) = PhaseIn(objs, f)
  PROVE  Promise!Record(g)
  <1> DEFINE A == [f \in File |-> Held(raw[f], wav[f])]
  <1>1. [f \in File |-> PhaseIn(objs', f)] = [f \in File |-> PhaseIn(objs, f)]
    OBVIOUS
  <1>2. [f \in File |-> Held(raw'[f], wav'[f])] = [A EXCEPT ![g] = {s}]
    OBVIOUS
  <1>3. A[g] \subseteq {s} /\ [f \in File |-> PhaseIn(objs, f)][g] = "open"
        /\ [f \in File |-> {f[1]} \X Side][g] = {g[1]} \X Side
    OBVIOUS
  <1>4. \E t \in [f \in File |-> {f[1]} \X Side][g] :
          A[g] \subseteq {t} /\ [f \in File |-> Held(raw'[f], wav'[f])] = [A EXCEPT ![g] = {t}]
    BY <1>2, <1>3
  <1> QED BY <1>1, <1>3, <1>4 DEF Promise!Record, PhaseIn, Held, Opened

\* Where a call has one object, the phase of a recording is that of its FILE.
LEMMA PhaseOf ==
  ASSUME NEW os, \A o, p \in DOMAIN os : os[o].cid = os[p].cid => o = p,
         NEW o \in DOMAIN os, NEW f, os[o].cid = f[1],
         NEW fh, fh = os[o].media_list[f[2]].fh[f[3]]
  PROVE  PhaseIn(os, f) = IF fh = "open" THEN "open" ELSE IF fh = "closed" THEN "final" ELSE "none"
  BY DEF PhaseIn

LEMMA PhaseNone ==
  ASSUME NEW os, NEW f, \A o \in DOMAIN os : os[o].cid # f[1]
  PROVE  PhaseIn(os, f) = "none"
  BY DEF PhaseIn

\* The FILEs are as they were, those of a new object not open yet.
FilesSame ==
  /\ \A o \in DOMAIN objs, l \in Line, i \in Index : Fh(o, l, i)' = Fh(o, l, i)
  /\ \A o \in DOMAIN objs', l \in Line, i \in Index : o \in DOMAIN objs \/ Fh(o, l, i)' = "null"

LEMMA PhaseSame ==
  ASSUME ObjsStep, FilesSame
  PROVE  \A f \in File : PhaseIn(objs', f) = PhaseIn(objs, f)
  <1> SUFFICES ASSUME NEW f \in File PROVE PhaseIn(objs', f) = PhaseIn(objs, f)
    OBVIOUS
  <1>1. f[2] \in Line /\ f[3] \in Index
    BY DEF File
  <1>2. ASSUME NEW state \in {"open", "closed"}
        PROVE  (\E o \in DOMAIN objs' : objs'[o].cid = f[1]
                                        /\ objs'[o].media_list[f[2]].fh[f[3]] \in {state})
                <=> (\E o \in DOMAIN objs : objs[o].cid = f[1]
                                        /\ objs[o].media_list[f[2]].fh[f[3]] \in {state})
    <2>1. state # "null"
      OBVIOUS
    <2>2. ASSUME NEW o \in DOMAIN objs', objs'[o].cid = f[1],
                 objs'[o].media_list[f[2]].fh[f[3]] = state
          PROVE  o \in DOMAIN objs /\ objs[o].cid = f[1]
                 /\ objs[o].media_list[f[2]].fh[f[3]] = state
      BY <1>1, <2>1, <2>2 DEF ObjsStep, FilesSame, Fh
    <2>3. ASSUME NEW o \in DOMAIN objs, objs[o].cid = f[1],
                 objs[o].media_list[f[2]].fh[f[3]] = state
          PROVE  o \in DOMAIN objs' /\ objs'[o].cid = f[1]
                 /\ objs'[o].media_list[f[2]].fh[f[3]] = state
      BY <1>1, <2>3 DEF ObjsStep, FilesSame, Fh
    <2> QED BY <2>2, <2>3
  <1>3. PhaseIn(objs', f) = "open" <=> PhaseIn(objs, f) = "open"
    BY <1>2 DEF PhaseIn
  <1>4. PhaseIn(objs', f) = "final" <=> PhaseIn(objs, f) = "final"
    BY <1>2 DEF PhaseIn
  <1> QED BY <1>3, <1>4 DEF PhaseIn
\* Before a call has an object there is no file of its name.
Fresh == \A f \in File : NoObject(f[1]) => raw[f] = None /\ wav[f] = None

\* A FILE that was never opened has no file; one that is open has not been converted.
FilesTrue ==
  \A o \in DOMAIN objs, l \in Line, i \in Index :
    /\ Fh(o, l, i) # "unlinked"
    /\ Fh(o, l, i) = "null" => raw[Name(o, l, i)] = None /\ wav[Name(o, l, i)] = None
    /\ Fh(o, l, i) = "open" => wav[Name(o, l, i)] = None
    /\ objs[o].alive => Fh(o, l, i) # "closed"

\* The object that is made has no FILE yet, and nobody deletes it meanwhile.
Making ==
  /\ main.pc = "open" => \A l \in Line, i \in Index : Fh(main.obj, l, i) = "null"
  /\ main.pc \in {"open", "insert"} => objs[main.obj].alive
MapAlive ==
  \A c \in Calls : g_call_factory[c] # 0 =>
    objs[g_call_factory[c]].alive \/ (main.pc = "erase" /\ main.msg.call = c)
AtWork == Making /\ MapAlive

\* The two sources of a call are two.
SourcesDiffer ==
  \A o \in DOMAIN objs : Src(o)[1] # None => Src(o)[0] # None /\ Src(o)[0] # Src(o)[1]

\* A raw file holds its source, and that has told the law.
HoldsOne ==
  \A o \in DOMAIN objs, l \in Line, i \in Index : raw[Name(o, l, i)] # None =>
    \A s \in raw[Name(o, l, i)] :
      l = 1 /\ s = <<objs[o].cid, Src(o)[i]>> /\ Codec(o) = "alaw"

\* The packet that is being written is one of the file's source.
Writing ==
  epoll.pc = "write" =>
    /\ epoll.from = <<objs[epoll.obj].cid, Src(epoll.obj)[epoll.index]>>
    /\ Codec(epoll.obj) = "alaw"
    /\ Fh(epoll.obj, 1, epoll.index) # "null"

\* Packets wait in sockets of their call.
Waiting == \A q \in rq : objs[q[1]].cid = q[3][1]

\* A conversion works on closed FILEs, in order, and removes what it has converted.
JobTrue(j) ==
  /\ \A i \in Index : Fh(j.obj, j.line, i) = "closed"
  /\ \A i \in Index : i > j.index \/ (i = j.index /\ j.step = "sox") =>
                        wav[Name(j.obj, j.line, i)] = None
  /\ j.step = "remove" => wav[JobFile(j)] # None \/ raw[JobFile(j)] \in {None, {}}
JobsTrue ==
  /\ \A j \in jobs : JobTrue(j)
  /\ \A j, k \in jobs : j.obj = k.obj /\ j.line = k.line => j = k

RecordInv ==
  /\ Fresh /\ FilesTrue /\ AtWork /\ SourcesDiffer /\ HoldsOne
  /\ Writing /\ Waiting /\ JobsTrue

LEMMA RecordInit == Init => RecordInv
  BY DEF Init, RecordInv, Fresh, FilesTrue, AtWork, Making, MapAlive, SourcesDiffer, HoldsOne,
         Writing, Waiting, JobsTrue

LEMMA LineParts == 1 \in Line /\ 0 \in Index /\ 1 \in Index /\ Index = {0, 1}
  BY ConstantsAssumption DEF Line, Index

LEMMA NameParts ==
  ASSUME objs \in Seq(CallType), NEW o \in DOMAIN objs, NEW l \in Line, NEW i \in Index
  PROVE  Name(o, l, i) \in File /\ Name(o, l, i)[1] = objs[o].cid
         /\ Name(o, l, i)[2] = l /\ Name(o, l, i)[3] = i
  BY ObjectParts DEF Name, File

\* Where a call has one object, no two FILEs have the same name.
LEMMA NamesDiffer ==
  ASSUME objs \in Seq(CallType), OneObject,
         NEW o \in DOMAIN objs, NEW l \in Line, NEW i \in Index,
         NEW p \in DOMAIN objs, NEW k \in Line, NEW h \in Index, Name(o, l, i) = Name(p, k, h)
  PROVE  o = p /\ l = k /\ i = h
  BY NameParts DEF OneObject
\* The threads' FILEs and files are as they were; an object may be new.
Calm ==
  /\ ObjsStep /\ UNCHANGED <<raw, wav, jobs>>
  /\ \A o \in DOMAIN objs : objs'[o] = objs[o]
  /\ \A o \in DOMAIN objs' : o \in DOMAIN objs \/
       /\ \A i \in Index : Src(o)[i]' = None
       /\ \A l \in Line, i \in Index : Fh(o, l, i)' = "null"
  /\ epoll'.pc = "write" => epoll' = epoll
  /\ \A q \in rq' : q \in rq \/ (q[1] \in DOMAIN objs /\ objs[q[1]].cid = q[3][1])

LEMMA RecordCalm ==
  ASSUME TypeInv, TypeInv', OneObject', RecordInv, Calm, AtWork'
  PROVE  RecordInv' /\ UNCHANGED Promise!vars
  <1>1. FilesSame
    BY DEF Calm, FilesSame, Fh
  <1>2. UNCHANGED Promise!vars
    BY <1>1, PhaseSame, PromiseStutters DEF Calm
  <1>3. Fresh'
    <2>1. \A c : NoObject(c)' => NoObject(c)
      BY DEF NoObject, Calm, ObjsStep
    <2> QED BY <2>1 DEF RecordInv, Fresh, Calm
  <1>4. ASSUME NEW o \in DOMAIN objs', o \notin DOMAIN objs, NEW l \in Line, NEW i \in Index
        PROVE  raw'[Name(o, l, i)'] = None /\ wav'[Name(o, l, i)'] = None
    <2>1. \A p \in DOMAIN objs : p \in DOMAIN objs' /\ objs'[p].cid = objs[p].cid /\ p # o
      BY <1>4 DEF Calm, ObjsStep
    <2>2. NoObject(objs'[o].cid)
      BY <2>1 DEF OneObject, NoObject
    <2>3. <<objs'[o].cid, l, i>> \in File
      <3>1. objs'[o] \in CallType
        BY DEF Calm, ObjsStep
      <3> QED BY <3>1 DEF CallType, File
    <2> DEFINE f == <<objs'[o].cid, l, i>>
    <2>4. f \in File /\ f[1] = objs'[o].cid
      BY <2>3
    <2> HIDE DEF f
    <2>5. raw[f] = None /\ wav[f] = None
      BY <2>2, <2>4 DEF RecordInv, Fresh
    <2> QED BY <2>5 DEF Calm, Name, f
  <1>5. \A o \in DOMAIN objs, l \in Line, i \in Index :
          Name(o, l, i)' = Name(o, l, i) /\ Fh(o, l, i)' = Fh(o, l, i) /\ Src(o)' = Src(o)
          /\ Codec(o)' = Codec(o)
    BY DEF Calm, Name, Fh, Src, Codec
  <1>6. FilesTrue'
    <2> SUFFICES ASSUME NEW o \in DOMAIN objs', NEW l \in Line, NEW i \in Index
                 PROVE  /\ Fh(o, l, i)' # "unlinked"
                        /\ Fh(o, l, i)' = "null" =>
                             raw'[Name(o, l, i)'] = None /\ wav'[Name(o, l, i)'] = None
                        /\ Fh(o, l, i)' = "open" => wav'[Name(o, l, i)'] = None
                        /\ objs'[o].alive => Fh(o, l, i)' # "closed"
      BY DEF FilesTrue
    <2>1. CASE o \in DOMAIN objs
      BY <1>5, <2>1 DEF RecordInv, FilesTrue, Calm
    <2>2. CASE o \notin DOMAIN objs
      BY <1>4, <2>2 DEF Calm
    <2> QED BY <2>1, <2>2
  <1>7. SourcesDiffer'
    BY <1>5, LineParts DEF RecordInv, SourcesDiffer, Calm, Src
  <1>8. HoldsOne'
    <2> SUFFICES ASSUME NEW o \in DOMAIN objs', NEW l \in Line, NEW i \in Index,
                        raw'[Name(o, l, i)'] # None, NEW s \in raw'[Name(o, l, i)']
                 PROVE  l = 1 /\ s = <<objs'[o].cid, Src(o)'[i]>> /\ Codec(o)' = "alaw"
      BY DEF HoldsOne
    <2>1. o \in DOMAIN objs
      BY <1>4
    <2> QED BY <1>5, <2>1 DEF RecordInv, HoldsOne, Calm
  <1>9. Writing'
    <2>1. epoll'.pc = "write" => epoll' = epoll /\ epoll.obj \in DOMAIN objs /\ epoll.index \in Index
      BY DEF Calm, TypeInv, EpollOK
    <2> QED BY <1>5, <2>1, LineParts DEF RecordInv, Writing, Calm
  <1>10. Waiting'
    BY DEF RecordInv, Waiting, Calm, TypeInv, KernelOK
  <1>11. JobsTrue'
    <2>1. \A j \in jobs : j.obj \in DOMAIN objs /\ j.line \in Line /\ j.index \in Index
      BY JobTypes
    <2>2. \A j \in jobs : JobFile(j)' = JobFile(j)
      BY <2>1 DEF JobFile, Calm
    <2>3. \A j \in jobs : JobTrue(j) => JobTrue(j)'
      BY <1>5, <2>1, <2>2 DEF JobTrue, Calm
    <2> QED BY <2>3 DEF RecordInv, JobsTrue, Calm
  <1> QED BY <1>2, <1>3, <1>6, <1>7, <1>8, <1>9, <1>10, <1>11 DEF RecordInv
\* The objects, the files and the conversions stay; the threads' places may not.
Still == UNCHANGED <<objs, raw, wav, jobs>> /\ (epoll'.pc = "write" => epoll' = epoll)

LEMMA StillCalm ==
  ASSUME TypeInv, Still,
         \A q \in rq' : q \in rq \/ (q[1] \in DOMAIN objs /\ objs[q[1]].cid = q[3][1])
  PROVE  Calm
  BY ObjsKept DEF TypeInv, Still, Calm

\* Nobody comes to the place where an object is made, or leaves that where it is erased.
LEMMA WorkKept ==
  ASSUME TypeInv, AtWork, UNCHANGED <<objs, g_call_factory>>,
         main'.pc \in {"open", "insert"} => main' = main,
         main.pc = "erase" => main' = main
  PROVE  AtWork'
  BY DEF AtWork, Making, MapAlive, Fh

\* What FreeSWITCH and the network do is not seen by the recordings.
LEMMA RecordEnvironment ==
  ASSUME TypeInv, RecordInv, Environment
  PROVE  Calm /\ AtWork'
  <1>1. UNCHANGED <<objs, g_call_factory, main, epoll, jobs, raw, wav>>
    BY DEF Environment, StartSession, HangUp, Retransmit, GiveUp, GetOk, Lose, SendRtp,
           calls, threads, disk
  <1>2. \A q \in rq' : q \in rq \/ (q[1] \in DOMAIN objs /\ objs[q[1]].cid = q[3][1])
    <2>1. ASSUME NEW s \in Stream, SendRtp(s)
          PROVE  \A q \in rq' : q \in rq \/ (q[1] \in DOMAIN objs /\ objs[q[1]].cid = q[3][1])
      <3>1. PICK o \in DOMAIN objs : objs[o].cid = s[1] /\ rq' = rq \cup {<<o, LineOf(s), s>>}
        BY <2>1 DEF SendRtp
      <3> QED BY <3>1
    <2>2. ASSUME NEW c \in Calls, StartSession(c) \/ HangUp(c) \/ Retransmit(c) \/ GiveUp(c)
          PROVE  UNCHANGED rq
      BY <2>2 DEF StartSession, HangUp, Retransmit, GiveUp, kernel
    <2>3. ASSUME NEW m, GetOk(m) \/ Lose(m) PROVE UNCHANGED rq
      BY <2>3 DEF GetOk, Lose, kernel
    <2> QED BY <2>1, <2>2, <2>3 DEF Environment
  <1>3. AtWork'
    BY <1>1, WorkKept DEF RecordInv
  <1> QED BY <1>1, <1>2, <1>3, StillCalm DEF Still

LEMMA RecordSip ==
  ASSUME TypeInv, RecordInv, Notify \/ \E m \in net : RecvSip(m)
  PROVE  Calm /\ AtWork'
  <1>1. CASE Notify
    <2>1. UNCHANGED <<objs, g_call_factory, jobs, raw, wav, rq>> /\ epoll' = [epoll EXCEPT !.pc = "idle"]
          /\ (main' = main \/ (main.pc = "blocked" /\ main' = Goto("wait")))
      BY <1>1 DEF Notify, calls, kernel, disk, Goto
    <2>2. epoll'.pc = "idle" /\ (main' = main \/ (main.pc = "blocked" /\ main'.pc = "wait"))
      BY <2>1 DEF TypeInv, EpollOK, MainOK, Goto
    <2>3. AtWork'
      BY <2>1, <2>2, WorkKept DEF RecordInv
    <2> QED BY <2>1, <2>2, <2>3, StillCalm DEF Still
  <1>2. ASSUME NEW m \in net, RecvSip(m) PROVE Calm /\ AtWork'
    <2>1. UNCHANGED <<objs, g_call_factory, main, jobs, raw, wav, rq>>
          /\ epoll' = [epoll EXCEPT !.pc = "notify"]
      BY <1>2 DEF RecvSip, calls, kernel, disk
    <2>2. epoll'.pc = "notify"
      BY <2>1 DEF TypeInv, EpollOK
    <2>3. AtWork'
      BY <2>1, WorkKept DEF RecordInv
    <2> QED BY <2>1, <2>2, <2>3, StillCalm DEF Still
  <1> QED BY <1>1, <1>2

LEMMA RecordDrop ==
  ASSUME TypeInv, RecordInv, NEW o, NEW l, NEW s, DropRtp(o, l, s) \/ LookupFaults(o, l, s)
  PROVE  Calm /\ AtWork'
  <1>1. UNCHANGED <<objs, g_call_factory, main, epoll, jobs, raw, wav>> /\ rq' \subseteq rq
    BY DEF DropRtp, LookupFaults, ReadRtp, disk
  <1>2. AtWork'
    BY <1>1, WorkKept DEF RecordInv
  <1> QED BY <1>1, <1>2, StillCalm DEF Still

LEMMA RecordMain ==
  ASSUME TypeInv, RecordInv, Wait \/ Wake \/ Take \/ AnswerBye \/ RemoveUnknown
  PROVE  Calm /\ AtWork'
  <1>1. UNCHANGED <<objs, g_call_factory, epoll, jobs, raw, wav, rq>>
    BY DEF Wait, Wake, Take, AnswerBye, RemoveUnknown, calls, kernel, disk
  <1>2. main.pc # "erase" /\ main'.pc \notin {"open", "insert"}
    <2>1. CASE Take
      <3>1. Head(g_siprec_queue) \in Request
        BY <2>1 DEF Take, TypeInv, TextsOK
      <3> DEFINE m == Head(g_siprec_queue)
      <3>2. main.pc = "wait" /\ main' = IF m.method \in {"INVITE", "BYE"}
                         THEN [main EXCEPT !.pc = m.method, !.msg = m] ELSE main
        BY <2>1 DEF Take
      <3> HIDE DEF m
      <3> QED BY <3>2 DEF TypeInv, MainOK
    <2>2. CASE ~ Take
      BY <2>2 DEF Wait, Wake, AnswerBye, RemoveUnknown, Goto, TypeInv, MainOK
    <2> QED BY <2>1, <2>2
  <1>3. AtWork'
    BY <1>1, <1>2, WorkKept DEF RecordInv
  <1> QED BY <1>1, <1>3, StillCalm DEF Still
LEMMA RecordMap ==
  ASSUME TypeInv, RecordInv, Insert \/ Erase
  PROVE  Calm /\ AtWork'
  <1>1. UNCHANGED <<objs, epoll, jobs, raw, wav, rq>> /\ main' = Goto("wait")
    BY DEF Insert, Erase, kernel, disk
  <1>2. main'.pc = "wait"
    BY <1>1 DEF Goto, TypeInv, MainOK
  <1>3. Making'
    BY <1>2 DEF Making
  <1>4. main.msg.call \in Calls
    BY ReqTypes DEF Insert, Erase, TypeInv, MainOK, Inviting, Ending
  <1>5. MapAlive'
    <2>1. CASE Insert
      <3>1. g_call_factory' = [g_call_factory EXCEPT ![main.msg.call] = main.obj]
            /\ main.pc = "insert"
        BY <2>1 DEF Insert
      <3>2. objs[main.obj].alive
        BY <3>1 DEF RecordInv, AtWork, Making
      <3>3. \A c \in Calls : g_call_factory'[c] = IF c = main.msg.call THEN main.obj
                                                   ELSE g_call_factory[c]
        BY <3>1 DEF TypeInv, MapOK
      <3>4. \A c \in Calls : g_call_factory[c] # 0 => objs[g_call_factory[c]].alive
        BY <3>1 DEF RecordInv, AtWork, MapAlive
      <3> QED BY <1>1, <3>2, <3>3, <3>4 DEF MapAlive
    <2>2. CASE Erase
      <3>1. g_call_factory' = [g_call_factory EXCEPT ![main.msg.call] = 0]
        BY <2>2 DEF Erase
      <3>2. \A c \in Calls : g_call_factory'[c] = IF c = main.msg.call THEN 0
                                                   ELSE g_call_factory[c]
        BY <3>1 DEF TypeInv, MapOK
      <3>3. \A c \in Calls : g_call_factory[c] # 0 /\ c # main.msg.call =>
              objs[g_call_factory[c]].alive
        BY DEF RecordInv, AtWork, MapAlive
      <3> QED BY <1>1, <3>2, <3>3 DEF MapAlive
    <2> QED BY <2>1, <2>2
  <1> QED BY <1>1, <1>2, <1>3, <1>5, StillCalm DEF Still, AtWork

\* A new object has heard nobody.
LEMMA RecordAccept ==
  ASSUME TypeInv, TypeInv', RecordInv, AcceptInvite
  PROVE  Calm /\ AtWork'
  <1>1. /\ ObjsStep /\ NobodyDies /\ UNCHANGED <<g_call_factory, jobs>>
        /\ main'.pc = "open" /\ main'.msg = main.msg
        /\ \A o \in DOMAIN objs' : o \in DOMAIN objs \/ o = main'.obj
        /\ \A o \in DOMAIN objs : objs'[o] = objs[o]
        /\ main'.obj \in DOMAIN objs' /\ objs'[main'.obj].alive
        /\ \A l \in Line, i \in Index : objs'[main'.obj].media_list[l].fh[i] = "null"
    BY DeathAccept
  <1>2. UNCHANGED <<epoll, raw, wav, rq>> /\ main.pc = "INVITE"
    BY DEF AcceptInvite, disk
  <1> DEFINE new == SipRecCall(main.msg.call)
  <1>3. objs' = Append(objs, new) /\ main' = [main EXCEPT !.pc = "open", !.obj = Len(objs) + 1]
    BY DEF AcceptInvite
  <1>4. main'.obj = Len(objs) + 1
    BY <1>3 DEF TypeInv, MainOK
  <1>5. \A i \in Index : new.media_list[1].src_port[i] = None
    BY LineParts DEF SipRecCall, MediaInfo
  <1> HIDE DEF new
  <1>6. objs'[main'.obj] = new
    BY <1>3, <1>4 DEF TypeInv, ObjsOK
  <1>7. \A o \in DOMAIN objs' : o \in DOMAIN objs \/
          /\ \A i \in Index : Src(o)[i]' = None
          /\ \A l \in Line, i \in Index : Fh(o, l, i)' = "null"
    <2> SUFFICES ASSUME NEW o \in DOMAIN objs', o \notin DOMAIN objs
                 PROVE  /\ \A i \in Index : Src(o)[i]' = None
                        /\ \A l \in Line, i \in Index : Fh(o, l, i)' = "null"
      OBVIOUS
    <2>1. o = main'.obj
      BY <1>1
    <2>2. objs'[o] = new
      BY <1>6, <2>1
    <2>3. \A l \in Line, i \in Index : objs'[o].media_list[l].fh[i] = "null"
      BY <1>1, <2>1
    <2> QED BY <1>5, <2>2, <2>3 DEF Src, Fh
  <1>8. Calm
    BY <1>1, <1>2, <1>7 DEF Calm
  <1>9. Making'
    <2>1. \A l \in Line, i \in Index : objs'[main'.obj].media_list[l].fh[i] = "null"
      BY <1>1
    <2>2. objs'[main'.obj].alive
      BY <1>1
    <2> QED BY <2>1, <2>2 DEF Making, Fh
  <1>10. MapAlive'
    <2>1. \A c \in Calls : g_call_factory[c] # 0 =>
            g_call_factory[c] \in DOMAIN objs /\ objs[g_call_factory[c]].alive
      BY <1>2 DEF RecordInv, AtWork, MapAlive, TypeInv, MapOK
    <2> QED BY <1>1, <2>1 DEF MapAlive
  <1> QED BY <1>8, <1>9, <1>10 DEF AtWork
\* A packet of s is read for object o: what it has heard may be more, and when both
\* sources are known, its law is that of the packet.
Hears(o, s) ==
  /\ ObjsStep /\ DOMAIN objs' = DOMAIN objs /\ FilesSame
  /\ \A p \in DOMAIN objs : objs'[p].alive = objs[p].alive /\ (p # o => objs'[p] = objs[p])
  /\ Src(o)' = Learn(Src(o), s[2])
  /\ Codec(o)' = IF SourceIndex(objs[o].media_list[1], s[2]) = None THEN Codec(o) ELSE Law

LEMMA TakeHears ==
  ASSUME TypeInv, NEW o \in DOMAIN objs, NEW l \in Line, NEW s \in Stream, TakeRtp(o, l, s)
  PROVE  Hears(o, s)
  <1> DEFINE m == objs[o].media_list[1]
             i == SourceIndex(m, s[2])
             law == IF i = None THEN m.codec ELSE Law
             new == [rtp_sock |-> l, src_port |-> Learn(m.src_port, s[2]),
                     codec |-> law, fh |-> m.fh]
             ml == [objs[o].media_list EXCEPT ![1] = new]
  <1>1. PICK md : /\ Becomes(o, md, objs[o].alive)
                  /\ \A k \in Line : md[k].fh = objs[o].media_list[k].fh
    BY TakeStep DEF TypeInv, ObjsOK
  <1>2. objs[o].alive \in BOOLEAN /\ objs[o] \in CallType /\ objs[o].media_list \in Media
    BY ObjectParts DEF TypeInv, ObjsOK
  <1>3. /\ ObjsStep /\ DOMAIN objs' = DOMAIN objs /\ objs'[o].alive = objs[o].alive
        /\ objs'[o].media_list = md
        /\ \A p \in DOMAIN objs : p # o => objs'[p] = objs[p]
    BY <1>1, <1>2, BecomesStep DEF TypeInv, ObjsOK
  <1>4. FilesSame
    <2>1. \A p \in DOMAIN objs, k \in Line, h \in Index : Fh(p, k, h)' = Fh(p, k, h)
      BY <1>1, <1>3 DEF Fh
    <2> QED BY <1>3, <2>1 DEF FilesSame
  <1>5. \A p \in DOMAIN objs : objs'[p].alive = objs[p].alive /\ (p # o => objs'[p] = objs[p])
    BY <1>3
  <1>6. objs' = [objs EXCEPT ![o].media_list[1] = new]
    BY DEF TakeRtp
  <1>7. new.src_port = Learn(m.src_port, s[2]) /\ new.codec = law
    OBVIOUS
  <1> HIDE DEF new
  <1>8. objs' = [objs EXCEPT ![o] = [objs[o] EXCEPT !.media_list = ml]]
    BY <1>6
  <1>9. objs'[o].media_list = ml
    BY <1>2, <1>8 DEF CallType
  <1>10. ml[1] = new
    BY <1>2, LineParts DEF Media
  <1>11. Src(o)' = Learn(Src(o), s[2]) /\ Codec(o)' = law
    BY <1>7, <1>9, <1>10 DEF Src, Codec
  <1> QED BY <1>3, <1>4, <1>5, <1>11 DEF Hears, Codec

\* The recording a packet goes to is that of its source.
LEMMA IndexOfSource ==
  ASSUME NEW m \in MediaInfoType, NEW s \in Side,
         m.src_port[1] # None => m.src_port[0] # None /\ m.src_port[0] # m.src_port[1],
         NEW i, i = SourceIndex(m, s), i # None
  PROVE  i \in Index /\ Learn(m.src_port, s)[i] = s
  <1>1. m.src_port \in [Index -> Side \cup {None}] /\ None \notin Side
    BY MediaParts, ConstantsAssumption
  <1>2. i \in Index
    BY DEF SourceIndex, Index
  <1>3. m.src_port[0] # None /\ ~ (m.src_port[0] = s /\ m.src_port[1] = None)
    BY DEF SourceIndex
  <1>4. CASE m.src_port[1] = None
    <2>1. i = 1 /\ m.src_port[0] # s
      BY <1>3, <1>4 DEF SourceIndex
    <2> QED BY <1>1, <1>2, <1>3, <1>4, <2>1 DEF Learn, Index
  <1>5. CASE m.src_port[1] = s
    <2>1. i = 1
      BY <1>3, <1>5 DEF SourceIndex
    <2>2. s # None
      BY <1>1
    <2> QED BY <1>1, <1>2, <1>3, <1>5, <2>1, <2>2 DEF Learn
  <1>6. CASE m.src_port[1] \notin {None, s}
    <2>1. i = 0
      BY <1>3, <1>6 DEF SourceIndex
    <2>2. m.src_port[0] \in Side /\ m.src_port[1] \in Side /\ m.src_port[0] # m.src_port[1]
      BY <1>1, <1>3, <1>6 DEF Index
    <2>3. m.src_port[0] = s
      BY <1>6, <2>2 DEF Side
    <2> QED BY <1>1, <1>2, <1>3, <1>6, <2>1, <2>3 DEF Learn
  <1> QED BY <1>4, <1>5, <1>6

\* What was heard is kept, and the two sources differ.
LEMMA LearnKeeps ==
  ASSUME NEW src \in [Index -> Side \cup {None}], NEW s \in Side,
         src[1] # None => src[0] # None /\ src[0] # src[1]
  PROVE  /\ \A i \in Index : src[i] # None => Learn(src, s)[i] = src[i]
         /\ Learn(src, s)[1] # None =>
              Learn(src, s)[0] # None /\ Learn(src, s)[0] # Learn(src, s)[1]
  <1>1. s # None
    BY ConstantsAssumption
  <1>2. CASE src[0] = None
    <2>1. Learn(src, s) = [src EXCEPT ![0] = s]
      BY <1>2 DEF Learn
    <2> QED BY <1>2, <2>1 DEF Index
  <1>3. CASE src[0] # None /\ src[1] = None /\ src[0] # s
    <2>1. Learn(src, s) = [src EXCEPT ![1] = s]
      BY <1>3 DEF Learn
    <2> QED BY <1>3, <2>1 DEF Index
  <1>4. CASE src[0] # None /\ (src[1] # None \/ src[0] = s)
    <2>1. Learn(src, s) = src
      BY <1>4 DEF Learn
    <2> QED BY <2>1
  <1> QED BY <1>2, <1>3, <1>4
\* What a step says of the FILEs, the files and the conversions when these stay.
LEMMA FilesStay ==
  ASSUME TypeInv, RecordInv, ObjsStep, DOMAIN objs' = DOMAIN objs, FilesSame,
         UNCHANGED <<raw, wav, jobs>>, \A p \in DOMAIN objs : objs'[p].alive = objs[p].alive
  PROVE  UNCHANGED Promise!vars /\ Fresh' /\ FilesTrue' /\ JobsTrue'
  <1>1. UNCHANGED Promise!vars
    BY PhaseSame, PromiseStutters
  <1>2. Fresh'
    BY DEF RecordInv, Fresh, NoObject, ObjsStep
  <1>3. \A p \in DOMAIN objs, k \in Line, h \in Index :
          Name(p, k, h)' = Name(p, k, h) /\ Fh(p, k, h)' = Fh(p, k, h)
    BY DEF ObjsStep, Name, FilesSame
  <1>4. FilesTrue'
    BY <1>3 DEF RecordInv, FilesTrue
  <1>5. \A j \in jobs : j.obj \in DOMAIN objs /\ j.line \in Line /\ j.index \in Index
    BY JobTypes
  <1>6. \A j \in jobs : JobFile(j)' = JobFile(j)
    BY <1>5 DEF JobFile, ObjsStep
  <1>7. \A j \in jobs : JobTrue(j) => JobTrue(j)'
    BY <1>3, <1>5, <1>6 DEF JobTrue
  <1>8. JobsTrue'
    BY <1>7 DEF RecordInv, JobsTrue
  <1> QED BY <1>1, <1>2, <1>4, <1>8

LEMMA RecordTake ==
  ASSUME Law = "alaw", TypeInv, RecordInv,
         NEW o \in DOMAIN objs, NEW l \in Line, NEW s \in Stream, TakeRtp(o, l, s)
  PROVE  RecordInv' /\ UNCHANGED Promise!vars
  <1>1. /\ ObjsStep /\ DOMAIN objs' = DOMAIN objs /\ FilesSame
        /\ \A p \in DOMAIN objs : objs'[p].alive = objs[p].alive /\ (p # o => objs'[p] = objs[p])
        /\ Src(o)' = Learn(Src(o), s[2])
        /\ Codec(o)' = IF SourceIndex(objs[o].media_list[1], s[2]) = None THEN Codec(o) ELSE Law
    BY TakeHears DEF Hears
  <1>2. UNCHANGED <<g_call_factory, main, jobs, raw, wav>> /\ rq' \subseteq rq
        /\ <<o, l, s>> \in rq /\ epoll.pc = "idle"
    BY DEF TakeRtp, ReadRtp, disk
  <1>3. UNCHANGED Promise!vars /\ Fresh' /\ FilesTrue' /\ JobsTrue'
    BY <1>1, <1>2, FilesStay
  <1>4. objs[o].media_list[1] \in MediaInfoType
    BY ObjectParts, LineParts DEF TypeInv, ObjsOK
  <1>5. Src(o) \in [Index -> Side \cup {None}]
    BY <1>4, MediaParts DEF Src
  <1>6. s[2] \in Side /\ s = <<s[1], s[2]>> /\ s[1] = objs[o].cid
    BY <1>2 DEF Stream, RecordInv, Waiting
  <1>7. Src(o)[1] # None => Src(o)[0] # None /\ Src(o)[0] # Src(o)[1]
    BY DEF RecordInv, SourcesDiffer
  <1>8. /\ \A i \in Index : Src(o)[i] # None => Learn(Src(o), s[2])[i] = Src(o)[i]
        /\ Learn(Src(o), s[2])[1] # None =>
             Learn(Src(o), s[2])[0] # None /\ Learn(Src(o), s[2])[0] # Learn(Src(o), s[2])[1]
    BY <1>5, <1>6, <1>7, LearnKeeps
  <1>9. \A p \in DOMAIN objs, i \in Index : Src(p)[i] # None => Src(p)'[i] = Src(p)[i]
    BY <1>1, <1>8 DEF Src
  <1>10. \A p \in DOMAIN objs : Codec(p) = "alaw" => Codec(p)' = "alaw"
    BY <1>1 DEF Codec
  <1>11. SourcesDiffer'
    <2>1. Src(o)'[1] # None => Src(o)'[0] # None /\ Src(o)'[0] # Src(o)'[1]
      BY <1>1, <1>8
    <2> QED BY <1>1, <2>1 DEF RecordInv, SourcesDiffer, Src
  <1>12. AtWork'
    <2>1. Making'
      BY <1>1, <1>2 DEF RecordInv, AtWork, Making, FilesSame, TypeInv, MainOK
    <2>2. MapAlive'
      BY <1>1, <1>2 DEF RecordInv, AtWork, MapAlive, TypeInv, MapOK
    <2> QED BY <2>1, <2>2 DEF AtWork
  <1>13. HoldsOne'
    <2> SUFFICES ASSUME NEW p \in DOMAIN objs, NEW k \in Line, NEW h \in Index,
                        raw[Name(p, k, h)] # None, NEW t \in raw[Name(p, k, h)]
                 PROVE  k = 1 /\ t = <<objs[p].cid, Src(p)'[h]>> /\ Codec(p)' = "alaw"
      BY <1>1, <1>2 DEF HoldsOne, Name, ObjsStep
    <2>1. k = 1 /\ t = <<objs[p].cid, Src(p)[h]>> /\ Codec(p) = "alaw"
      BY DEF RecordInv, HoldsOne
    <2>2. t \in Stream
      BY NameParts DEF TypeInv, ObjsOK, DiskOK
    <2>3. Src(p)[h] # None
      BY <2>1, <2>2, ConstantsAssumption DEF Stream
    <2> QED BY <1>9, <1>10, <2>1, <2>3
  <1>14. Writing'
    <2> DEFINE m == objs[o].media_list[1]
               i == SourceIndex(m, s[2])
    <2>1. epoll' = IF i = None THEN epoll
                   ELSE IF m.fh[i] = "null" THEN epoll
                   ELSE [pc |-> "write", obj |-> o, index |-> i, from |-> s]
      BY DEF TakeRtp
    <2>2. ASSUME NEW h, h = i, h # None, m.fh[h] # "null" PROVE Writing'
      <3>1. h \in Index /\ Learn(Src(o), s[2])[h] = s[2]
        BY <1>4, <1>6, <1>7, <2>2, IndexOfSource DEF Src
      <3>2. Fh(o, 1, h)' # "null"
        <4>1. Fh(o, 1, h) # "null"
          BY <2>2 DEF Fh
        <4> QED BY <1>1, <3>1, <4>1, LineParts DEF FilesSame
      <3>3. s = <<objs'[o].cid, Src(o)'[h]>>
        BY <1>1, <1>6, <3>1 DEF ObjsStep
      <3>4. Codec(o)' = "alaw"
        BY <1>1, <2>2
      <3>5. epoll'.obj = o /\ epoll'.index = h /\ epoll'.from = s
        BY <2>1, <2>2
      <3>6. /\ s = <<objs'[o].cid, objs'[o].media_list[1].src_port[h]>>
            /\ objs'[o].media_list[1].codec = "alaw" /\ objs'[o].media_list[1].fh[h] # "null"
        BY <3>2, <3>3, <3>4 DEF Src, Codec, Fh
      <3> QED BY <3>5, <3>6 DEF Writing, Src, Codec, Fh
    <2>3. ASSUME epoll' = epoll PROVE Writing'
      BY <1>2, <2>3 DEF Writing
    <2> QED BY <2>1, <2>2, <2>3
  <1>15. Waiting'
    BY <1>1, <1>2 DEF RecordInv, Waiting, ObjsStep, TypeInv, KernelOK
  <1> QED BY <1>3, <1>11, <1>12, <1>13, <1>14, <1>15 DEF RecordInv
\* The file g of FILE i of object o takes a packet of s, its source.
LEMMA RecordWrites ==
  ASSUME TypeInv, TypeInv', RecordInv, OneObject,
         NEW o \in DOMAIN objs, NEW i \in Index, NEW s \in Stream, NEW g, g = Name(o, 1, i),
         s = <<objs[o].cid, Src(o)[i]>>, Codec(o) = "alaw", Fh(o, 1, i) = "open",
         raw' = [raw EXCEPT ![g] = @ \cup {s}], epoll'.pc # "write",
         UNCHANGED <<objs, g_call_factory, main, jobs, rq, wav>>
  PROVE  RecordInv' /\ Promise!Record(g)
  <1>1. g \in File /\ g[1] = objs[o].cid /\ g[2] = 1 /\ g[3] = i
    BY LineParts, NameParts DEF TypeInv, ObjsOK
  <1>2. wav[g] = None /\ raw[g] # None
    <2>1. wav[g] = None
      BY LineParts DEF RecordInv, FilesTrue
    <2>2. raw[<<objs[o].cid, 1, i>>] # None
      BY LineParts DEF TypeInv, DiskOK, Fh
    <2> QED BY <2>1, <2>2 DEF Name
  <1>3. \A t \in raw[g] : t = s
    BY <1>2, LineParts DEF RecordInv, HoldsOne
  <1>4. \A f \in File : raw'[f] = IF f = g THEN raw[g] \cup {s} ELSE raw[f]
    BY <1>1 DEF TypeInv, DiskOK
  <1>5. raw'[g] = {s} /\ raw'[g] # None
    <2>1. raw'[g] = raw[g] \cup {s} /\ raw[g] \subseteq Stream
      BY <1>1, <1>2, <1>4 DEF TypeInv, DiskOK
    <2>2. raw'[g] = {s} /\ {s} \in SUBSET Stream
      BY <1>3, <2>1
    <2> QED BY <2>2, ConstantsAssumption
  <1>6. \A p \in DOMAIN objs, k \in Line, h \in Index :
          Name(p, k, h) \in File /\ (Name(p, k, h) = g => p = o /\ k = 1 /\ h = i)
    BY LineParts, NameParts, NamesDiffer DEF TypeInv, ObjsOK
  <1>7. Promise!Record(g)
    <2>1. PhaseIn(objs, g) = "open"
      BY <1>1 DEF PhaseIn, Fh
    <2>2. s \in {g[1]} \X Side
      BY <1>1 DEF Stream
    <2>3. Held(raw[g], wav[g]) \subseteq {s}
      BY <1>2, <1>3 DEF Held
    <2>4. \A f \in File : Held(raw'[f], wav'[f]) = IF f = g THEN {s} ELSE Held(raw[f], wav[f])
      BY <1>2, <1>4, <1>5 DEF Held
    <2> QED BY <1>1, <2>1, <2>2, <2>3, <2>4, PromiseRecords
  <1>8. Fresh'
    <2>1. \A f \in File : NoObject(f[1]) => f # g
      BY <1>1 DEF NoObject
    <2> QED BY <1>4, <2>1 DEF RecordInv, Fresh, NoObject
  <1>9. FilesTrue'
    <2> SUFFICES ASSUME NEW p \in DOMAIN objs, NEW k \in Line, NEW h \in Index
                 PROVE  Fh(p, k, h) = "null" => raw'[Name(p, k, h)] = None
      BY DEF RecordInv, FilesTrue, Fh, Name
    <2> QED BY <1>4, <1>6 DEF RecordInv, FilesTrue
  <1>10. AtWork'
    BY WorkKept DEF RecordInv
  <1>11. SourcesDiffer' /\ Waiting'
    BY DEF RecordInv, SourcesDiffer, Waiting, Src
  <1>12. HoldsOne'
    <2> SUFFICES ASSUME NEW p \in DOMAIN objs, NEW k \in Line, NEW h \in Index,
                        raw'[Name(p, k, h)] # None, NEW t \in raw'[Name(p, k, h)]
                 PROVE  k = 1 /\ t = <<objs[p].cid, Src(p)[h]>> /\ Codec(p) = "alaw"
      BY DEF HoldsOne, Name, Src, Codec
    <2>1. CASE Name(p, k, h) = g
      BY <1>5, <1>6, <2>1
    <2>2. CASE Name(p, k, h) # g
      BY <1>4, <1>6, <2>2 DEF RecordInv, HoldsOne
    <2> QED BY <2>1, <2>2
  <1>13. Writing'
    BY DEF Writing
  <1>14. JobsTrue'
    <2>1. ASSUME NEW j \in jobs PROVE JobTrue(j)'
      <3>1. JobTrue(j) /\ j.obj \in DOMAIN objs /\ j.line \in Line /\ j.index \in Index
        BY JobTypes DEF RecordInv, JobsTrue
      <3>2. JobFile(j) = Name(j.obj, j.line, j.index)
        BY DEF JobFile, Name
      <3>3. Fh(j.obj, j.line, j.index) = "closed"
        BY <3>1 DEF JobTrue
      <3>4. JobFile(j) # g
        BY <1>6, <3>1, <3>2, <3>3
      <3>5. raw'[JobFile(j)] = raw[JobFile(j)]
        BY <1>4, <3>4, JobTypes
      <3> QED BY <3>1, <3>5 DEF JobTrue, JobFile, Fh, Name
    <2> QED BY <2>1 DEF RecordInv, JobsTrue
  <1> QED BY <1>7, <1>8, <1>9, <1>10, <1>11, <1>12, <1>13, <1>14 DEF RecordInv

\* A packet is written to the file of its source while that is open, or is lost.
LEMMA RecordWrite ==
  ASSUME TypeInv, TypeInv', RecordInv, OneObject, WriteRtp
  PROVE  RecordInv' /\ (UNCHANGED Promise!vars \/ \E f \in File : Promise!Record(f))
  <1>1. UNCHANGED <<objs, g_call_factory, main, jobs, rq, wav>> /\ epoll.pc = "write"
        /\ epoll' = [epoll EXCEPT !.pc = "idle"]
    BY DEF WriteRtp, calls, kernel
  <1>2. epoll'.pc = "idle"
    BY <1>1 DEF TypeInv, EpollOK
  <1>3. PICK o \in DOMAIN objs, i \in Index, s \in Stream :
          o = epoll.obj /\ i = epoll.index /\ s = epoll.from
    BY <1>1 DEF TypeInv, EpollOK
  <1>4. PICK g \in File : g = Name(o, 1, i)
    BY <1>3, LineParts, NameParts DEF TypeInv, ObjsOK
  <1>5. /\ s = <<objs[o].cid, Src(o)[i]>> /\ Codec(o) = "alaw" /\ Fh(o, 1, i) # "unlinked"
    <2>1. Fh(o, 1, i) # "unlinked"
      BY LineParts DEF RecordInv, FilesTrue
    <2> QED BY <1>1, <1>3, <2>1 DEF RecordInv, Writing
  <1>6. CASE UNCHANGED raw
    <2>1. Calm
      BY <1>1, <1>2, <1>6, StillCalm DEF Still
    <2>2. AtWork' /\ OneObject'
      BY <1>1, WorkKept DEF RecordInv, OneObject
    <2> QED BY <2>1, <2>2, RecordCalm
  <1>7. CASE Fh(o, 1, i) = "open" /\ raw' = [raw EXCEPT ![g] = @ \cup {s}]
    BY <1>1, <1>2, <1>4, <1>5, <1>7, RecordWrites
  <1>8. UNCHANGED raw \/ (Fh(o, 1, i) = "open" /\ raw' = [raw EXCEPT ![g] = @ \cup {s}])
    <2>1. g = TargetFile /\ Target = objs[o]
      BY <1>3, <1>4 DEF Name, TargetFile, Target
    <2> QED BY <1>3, <2>1 DEF WriteRtp, Fh
  <1> QED BY <1>6, <1>7, <1>8
\* What is heard stays when only FILEs change.
SourcesStay ==
  \A o \in DOMAIN objs : Src(o)' = Src(o) /\ Codec(o)' = Codec(o)

LEMMA WithoutFiles ==
  ASSUME NEW m \in MediaInfoType, NEW fh \in Files
  PROVE  [m EXCEPT !.fh = fh].src_port = m.src_port /\ [m EXCEPT !.fh = fh].codec = m.codec
  BY DEF MediaInfoType

LEMMA StartSources ==
  ASSUME TypeInv, start_recording
  PROVE  SourcesStay
  <1> DEFINE fh(l) == [i \in Index |-> IF OpenedFirst(l, i) THEN "open" ELSE "null"]
  <1>1. PICK o \in DOMAIN objs : o = main.obj
    BY DEF start_recording, TypeInv, MainOK
  <1> DEFINE old == objs[o].media_list
             ml == [l \in Line |-> [old[l] EXCEPT !.fh = fh(l)]]
  <1>2. objs' = [objs EXCEPT ![o] = [objs[o] EXCEPT !.media_list = ml]]
    BY <1>1 DEF start_recording
  <1>3. objs[o] \in CallType /\ old[1] \in MediaInfoType
    BY ObjectParts, LineParts DEF TypeInv, ObjsOK
  <1>4. fh(1) \in Files
    BY DEF Files, FileState
  <1> HIDE DEF fh
  <1>5. ml[1] = [old[1] EXCEPT !.fh = fh(1)]
    BY LineParts
  <1>6. ml[1].src_port = old[1].src_port /\ ml[1].codec = old[1].codec
    <2>1. PICK m \in MediaInfoType : m = old[1]
      BY <1>3
    <2>2. PICK h \in Files : h = fh(1)
      BY <1>4
    <2> HIDE DEF ml, old
    <2>3. ml[1] = [m EXCEPT !.fh = h]
      BY <1>5, <2>1, <2>2
    <2> QED BY <2>1, <2>3, WithoutFiles
  <1> HIDE DEF ml
  <1>7. objs'[o].media_list = ml /\ \A p \in DOMAIN objs : p # o => objs'[p] = objs[p]
    BY <1>2, <1>3 DEF CallType
  <1> QED BY <1>6, <1>7 DEF SourcesStay, Src, Codec

LEMMA DeleteSources ==
  ASSUME TypeInv, Delete
  PROVE  SourcesStay
  <1>1. main.msg.call \in Calls
    BY ReqTypes DEF Delete, TypeInv, MainOK, Ending
  <1>2. PICK o \in DOMAIN objs : o = g_call_factory[main.msg.call]
    BY <1>1 DEF Delete, TypeInv, MapOK
  <1> DEFINE all == [i \in Index |-> "closed"]
             closed(m) == IF Converts(m) THEN [m EXCEPT !.fh = all] ELSE m
             old == objs[o].media_list
             ml == [l \in Line |-> closed(old[l])]
  <1>3. objs' = [objs EXCEPT ![o] = [objs[o] EXCEPT !.alive = FALSE, !.media_list = ml]]
    BY <1>2 DEF Delete
  <1>4. objs[o] \in CallType /\ old[1] \in MediaInfoType
    BY ObjectParts, LineParts DEF TypeInv, ObjsOK
  <1>5. all \in Files
    BY DEF Files, FileState
  <1> HIDE DEF all
  <1>6. ml[1] = closed(old[1])
    BY LineParts
  <1>7. ml[1].src_port = old[1].src_port /\ ml[1].codec = old[1].codec
    <2>1. PICK m \in MediaInfoType : m = old[1]
      BY <1>4
    <2> HIDE DEF ml, old
    <2>2. ml[1] = m \/ ml[1] = [m EXCEPT !.fh = all]
      BY <1>6, <2>1
    <2>3. CASE ml[1] = m
      BY <2>1, <2>3
    <2>4. CASE ml[1] = [m EXCEPT !.fh = all]
      <3>1. [m EXCEPT !.fh = all].src_port = m.src_port /\ [m EXCEPT !.fh = all].codec = m.codec
        BY <1>5, WithoutFiles
      <3> QED BY <2>1, <2>4, <3>1
    <2> QED BY <2>2, <2>3, <2>4
  <1> HIDE DEF ml
  <1>8. [objs[o] EXCEPT !.alive = FALSE, !.media_list = ml].media_list = ml
    BY <1>4 DEF CallType
  <1>9. objs'[o].media_list = ml /\ \A p \in DOMAIN objs : p # o => objs'[p] = objs[p]
    BY <1>3, <1>8
  <1> QED BY <1>7, <1>9 DEF SourcesStay, Src, Codec
\* The conditions on packets and sources, where no FILE that is written to goes away.
LEMMA SourcesKept ==
  ASSUME TypeInv, RecordInv, ObjsStep, DOMAIN objs' = DOMAIN objs, SourcesStay,
         UNCHANGED <<epoll, rq>>,
         \A o \in DOMAIN objs, i \in Index : Fh(o, 1, i) # "null" => Fh(o, 1, i)' # "null"
  PROVE  SourcesDiffer' /\ Writing' /\ Waiting'
  <1>1. SourcesDiffer'
    BY DEF RecordInv, SourcesDiffer, SourcesStay
  <1>2. Writing'
    <2> SUFFICES ASSUME epoll.pc = "write"
                 PROVE  /\ epoll.from = <<objs'[epoll.obj].cid, Src(epoll.obj)'[epoll.index]>>
                        /\ Codec(epoll.obj)' = "alaw" /\ Fh(epoll.obj, 1, epoll.index)' # "null"
      BY DEF Writing, Src, Codec, Fh
    <2>1. PICK o \in DOMAIN objs, i \in Index : o = epoll.obj /\ i = epoll.index
      BY DEF TypeInv, EpollOK
    <2>2. epoll.from = <<objs[o].cid, Src(o)[i]>> /\ Codec(o) = "alaw" /\ Fh(o, 1, i) # "null"
      BY <2>1 DEF RecordInv, Writing
    <2>3. epoll.from = <<objs'[o].cid, Src(o)'[i]>> /\ Codec(o)' = "alaw" /\ Fh(o, 1, i)' # "null"
      BY <2>2 DEF SourcesStay, ObjsStep
    <2> QED BY <2>1, <2>3 DEF Src, Codec, Fh
  <1>3. Waiting'
    BY DEF RecordInv, Waiting, ObjsStep, TypeInv, KernelOK
  <1> QED BY <1>1, <1>2, <1>3

\* The files of a new object are opened: where there were none there are empty ones.
Starts(c, o, R) ==
  /\ ObjsStep /\ DOMAIN objs' = DOMAIN objs /\ SourcesStay
  /\ o \in DOMAIN objs /\ objs[o].cid = c /\ objs'[o].alive = objs[o].alive
  /\ \A p \in DOMAIN objs : p # o => objs'[p] = objs[p]
  /\ \A l \in Line, i \in Index : Fh(o, l, i) = "null"
  /\ \A l \in Line, i \in Index :
       Fh(o, l, i)' = IF Name(o, l, i) \in R THEN "open" ELSE "null"
  /\ \A f \in R : f \in File /\ f[1] = c
  /\ \A f \in File : raw'[f] = IF f \in R THEN {} ELSE raw[f]
  /\ UNCHANGED <<wav, jobs, epoll, rq, g_call_factory>>
  /\ main.pc = "open" /\ main'.pc = "insert" /\ main'.obj = o /\ objs[o].alive

LEMMA RecordingStarts ==
  ASSUME TypeInv, RecordInv, start_recording
  PROVE  \E c, o, R : Starts(c, o, R)
  <1>1. PICK o \in DOMAIN objs, c \in Calls : o = main.obj /\ c = main.msg.call
    BY ReqTypes DEF start_recording, TypeInv, MainOK, Inviting
  <1>2. main.pc = "open"
    BY DEF start_recording
  <1>3. o \in DOMAIN objs /\ objs[o].cid = c
    BY <1>1, <1>2 DEF TypeInv, MainOK
  <1>4. PICK R : R = {f \in File : f[1] = c /\ OpenedFirst(f[2], f[3])}
    OBVIOUS
  <1>5. PICK ml : /\ Becomes(o, ml, objs[o].alive)
                  /\ \A l \in Line, i \in Index :
                       ml[l].fh[i] = IF OpenedFirst(l, i) THEN "open" ELSE "null"
    BY <1>1, <1>3, StartStep DEF TypeInv, ObjsOK
  <1>6. /\ ObjsStep /\ DOMAIN objs' = DOMAIN objs /\ objs'[o].alive = objs[o].alive
        /\ objs'[o].media_list = ml
        /\ \A p \in DOMAIN objs : p # o => objs'[p] = objs[p]
    BY <1>3, <1>5, ObjectParts, BecomesStep DEF TypeInv, ObjsOK
  <1>7. \A l \in Line, i \in Index : Name(o, l, i) \in R <=> OpenedFirst(l, i)
    <2> SUFFICES ASSUME NEW l \in Line, NEW i \in Index
                 PROVE  Name(o, l, i) \in R <=> OpenedFirst(l, i)
      OBVIOUS
    <2>1. Name(o, l, i) \in File /\ Name(o, l, i)[1] = c
          /\ Name(o, l, i)[2] = l /\ Name(o, l, i)[3] = i
      BY <1>3, NameParts DEF TypeInv, ObjsOK
    <2> QED BY <1>4, <2>1
  <1>8. \A l \in Line, i \in Index :
          Fh(o, l, i)' = IF Name(o, l, i) \in R THEN "open" ELSE "null"
    BY <1>5, <1>6, <1>7 DEF Fh
  <1>9. \A f \in File : raw'[f] = IF f \in R THEN {} ELSE raw[f]
    <2>1. raw' = [f \in File |-> IF f[1] = c /\ OpenedFirst(f[2], f[3]) THEN {} ELSE raw[f]]
      BY <1>1 DEF start_recording
    <2>2. \A f \in File : f \in R <=> f[1] = c /\ OpenedFirst(f[2], f[3])
      BY <1>4
    <2> QED BY <2>1, <2>2
  <1>10. UNCHANGED <<wav, jobs, epoll, rq, g_call_factory>> /\ main' = Goto("insert")
    BY DEF start_recording, kernel
  <1>11. main'.pc = "insert" /\ main'.obj = o
    BY <1>1, <1>10 DEF Goto, TypeInv, MainOK
  <1>12. objs[o].alive /\ \A l \in Line, i \in Index : Fh(o, l, i) = "null"
    BY <1>1, <1>2 DEF RecordInv, AtWork, Making
  <1>13. \A f \in R : f \in File /\ f[1] = c
    BY <1>4
  <1>14. Starts(c, o, R)
    BY <1>2, <1>3, <1>6, <1>8, <1>9, <1>10, <1>11, <1>12, <1>13, StartSources DEF Starts
  <1> QED BY <1>14
LEMMA RecordStart ==
  ASSUME TypeInv, RecordInv, OneObject, NEW c, NEW o, NEW R, Starts(c, o, R)
  PROVE  RecordInv' /\ R \in SUBSET File /\ Promise!Open(R)
  <1>1. \A p \in DOMAIN objs, l \in Line, i \in Index :
          /\ Name(p, l, i)' = Name(p, l, i) /\ Name(p, l, i) \in File
          /\ Name(p, l, i)[1] = objs[p].cid
          /\ p # o => Name(p, l, i) \notin R /\ Fh(p, l, i)' = Fh(p, l, i)
    BY NameParts DEF Starts, ObjsStep, Name, Fh, TypeInv, ObjsOK, OneObject
  <1>2. \A f \in R : NoObject(f[1]) => FALSE
    BY DEF Starts, NoObject
  <1>3. \A l \in Line, i \in Index : raw[Name(o, l, i)] = None /\ wav[Name(o, l, i)] = None
    BY DEF Starts, RecordInv, FilesTrue
  <1>4. \A f \in File : f[1] = c => f[2] \in Line /\ f[3] \in Index /\ f = Name(o, f[2], f[3])
    BY DEF File, Name, Starts
  <1>5. \A f \in R : raw[f] = None /\ wav[f] = None
    BY <1>3, <1>4 DEF Starts
  <1>6. Promise!Open(R)
    <2>1. ASSUME NEW f \in File, f[1] = c
          PROVE  PhaseIn(objs, f) = "none" /\ PhaseIn(objs', f) = IF f \in R THEN "open" ELSE "none"
      <3>1. f[2] \in Line /\ f[3] \in Index /\ f = Name(o, f[2], f[3])
        BY <1>4, <2>1
      <3>2. Fh(o, f[2], f[3]) = "null" /\ Fh(o, f[2], f[3])' = IF f \in R THEN "open" ELSE "null"
        BY <3>1 DEF Starts
      <3>3. \A p \in DOMAIN objs : objs[p].cid = c <=> p = o
        BY DEF Starts, OneObject
      <3>4. \A p \in DOMAIN objs' : objs'[p].cid = c <=> p = o
        BY <3>3 DEF Starts, ObjsStep
      <3>5. PhaseIn(objs, f) = "none"
        BY <2>1, <3>2, <3>3 DEF PhaseIn, Fh
      <3>6. o \in DOMAIN objs'
        BY DEF Starts
      <3>7. PhaseIn(objs', f) = IF f \in R THEN "open" ELSE "none"
        BY <2>1, <3>2, <3>4, <3>6 DEF PhaseIn, Fh
      <3> QED BY <3>5, <3>7
    <2>2. ASSUME NEW f \in File, f[1] # c PROVE PhaseIn(objs', f) = PhaseIn(objs, f)
      <3>1. \A p \in DOMAIN objs : objs'[p].cid = objs[p].cid
        BY DEF Starts, ObjsStep
      <3>2. \A p \in DOMAIN objs : objs[p].cid = f[1] => objs'[p] = objs[p]
        BY <2>2 DEF Starts
      <3>3. DOMAIN objs' = DOMAIN objs
        BY DEF Starts
      <3> QED BY <3>1, <3>2, <3>3 DEF PhaseIn
    <2>3. \A f \in R : PhaseIn(objs, f) = "none"
      BY <2>1 DEF Starts
    <2>4. \A f \in File : PhaseIn(objs', f) = IF f \in R THEN "open" ELSE PhaseIn(objs, f)
      BY <2>1, <2>2 DEF Starts
    <2>5. \A f \in File : Held(raw'[f], wav'[f]) = Held(raw[f], wav[f])
      BY <1>5 DEF Starts, Held
    <2>6. R \in SUBSET File
      BY DEF Starts
    <2> QED BY <2>3, <2>4, <2>5, <2>6, PromiseMoves DEF Promise!Open
  <1>7. Fresh'
    <2>1. \A d : NoObject(d)' => NoObject(d)
      BY DEF NoObject, Starts, ObjsStep
    <2> QED BY <1>2, <2>1 DEF RecordInv, Fresh, Starts
  <1>8. FilesTrue'
    <2> SUFFICES ASSUME NEW p \in DOMAIN objs, NEW l \in Line, NEW i \in Index
                 PROVE  /\ Fh(p, l, i)' # "unlinked"
                        /\ Fh(p, l, i)' = "null" =>
                             raw'[Name(p, l, i)] = None /\ wav'[Name(p, l, i)] = None
                        /\ Fh(p, l, i)' = "open" => wav'[Name(p, l, i)] = None
                        /\ objs'[p].alive => Fh(p, l, i)' # "closed"
      BY <1>1 DEF FilesTrue, Starts
    <2>1. CASE p = o
      <3>1. Fh(o, l, i)' = IF Name(o, l, i) \in R THEN "open" ELSE "null"
        BY DEF Starts
      <3>2. wav'[Name(o, l, i)] = None
        BY <1>3 DEF Starts
      <3>3. Name(o, l, i) \notin R => raw'[Name(o, l, i)] = None
        BY <1>1, <1>3, <2>1 DEF Starts
      <3> QED BY <2>1, <3>1, <3>2, <3>3
    <2>2. CASE p # o
      <3>1. Fh(p, l, i)' = Fh(p, l, i) /\ objs'[p].alive = objs[p].alive
        BY <1>1, <2>2 DEF Starts
      <3>2. raw'[Name(p, l, i)] = raw[Name(p, l, i)] /\ wav'[Name(p, l, i)] = wav[Name(p, l, i)]
        BY <1>1, <2>2 DEF Starts
      <3> QED BY <3>1, <3>2 DEF RecordInv, FilesTrue
    <2> QED BY <2>1, <2>2
  <1>9. AtWork'
    <2>1. Making'
      BY DEF Starts, Making
    <2>2. \A p \in DOMAIN objs : objs'[p].alive = objs[p].alive
      BY DEF Starts
    <2>3. MapAlive'
      BY <2>2 DEF RecordInv, AtWork, MapAlive, Starts, TypeInv, MapOK
    <2> QED BY <2>1, <2>3 DEF AtWork
  <1>10. SourcesDiffer' /\ Writing' /\ Waiting'
    <2>1. \A p \in DOMAIN objs, i \in Index : Fh(p, 1, i) # "null" => Fh(p, 1, i)' # "null"
      BY <1>1, LineParts DEF Starts
    <2> QED BY <2>1, SourcesKept DEF Starts
  <1>11. HoldsOne'
    <2> SUFFICES ASSUME NEW p \in DOMAIN objs, NEW l \in Line, NEW i \in Index,
                        raw'[Name(p, l, i)] # None, NEW s \in raw'[Name(p, l, i)]
                 PROVE  l = 1 /\ s = <<objs[p].cid, Src(p)[i]>> /\ Codec(p) = "alaw"
      BY <1>1 DEF HoldsOne, Starts, ObjsStep, SourcesStay
    <2>1. Name(p, l, i) \notin R
      BY <1>1 DEF Starts
    <2>2. raw'[Name(p, l, i)] = raw[Name(p, l, i)]
      BY <1>1, <2>1 DEF Starts
    <2> QED BY <2>2 DEF RecordInv, HoldsOne
  <1>12. JobsTrue'
    <2>1. ASSUME NEW j \in jobs PROVE JobTrue(j)'
      <3>1. JobTrue(j) /\ j.obj \in DOMAIN objs /\ j.line \in Line /\ j.index \in Index
        BY JobTypes DEF RecordInv, JobsTrue
      <3>2. JobFile(j) = Name(j.obj, j.line, j.index) /\ JobFile(j)' = JobFile(j)
        BY <3>1 DEF JobFile, Name, Starts, ObjsStep
      <3>3. j.obj # o
        BY <3>1, LineParts DEF JobTrue, Starts
      <3>4. \A i \in Index : Fh(j.obj, j.line, i)' = Fh(j.obj, j.line, i)
                             /\ Name(j.obj, j.line, i)' = Name(j.obj, j.line, i)
        BY <1>1, <3>1, <3>3
      <3>5. raw'[JobFile(j)] = raw[JobFile(j)]
        BY <1>1, <3>1, <3>2, <3>3 DEF Starts
      <3> QED BY <3>1, <3>2, <3>4, <3>5 DEF JobTrue, Starts
    <2> QED BY <2>1 DEF RecordInv, JobsTrue, Starts
  <1>13. R \in SUBSET File
    BY DEF Starts
  <1> QED BY <1>6, <1>7, <1>8, <1>9, <1>10, <1>11, <1>12, <1>13 DEF RecordInv
LEMMA FhType ==
  ASSUME TypeInv, NEW o \in DOMAIN objs, NEW l \in Line, NEW i \in Index
  PROVE  Fh(o, l, i) \in FileState
  <1>1. objs[o].media_list[l] \in MediaInfoType
    BY ObjectParts DEF TypeInv, ObjsOK
  <1> QED BY <1>1, MediaParts DEF Fh, Files

\* The files of the lines L of object o are closed, and conversions of them begin.
Closes(c, o, L) ==
  /\ ObjsStep /\ DOMAIN objs' = DOMAIN objs /\ SourcesStay
  /\ o \in DOMAIN objs /\ objs[o].cid = c /\ objs[o].alive /\ ~ objs'[o].alive
  /\ \A p \in DOMAIN objs : p # o => objs'[p] = objs[p]
  /\ L \subseteq Line
  /\ \A l \in L, i \in Index : Fh(o, l, i) = "open"
  /\ \A l \in Line, i \in Index : Fh(o, l, i)' = IF l \in L THEN "closed" ELSE Fh(o, l, i)
  /\ jobs' = jobs \cup {[obj |-> o, line |-> l, index |-> 0, step |-> "sox"] : l \in L}
  /\ UNCHANGED <<raw, wav, epoll, rq, g_call_factory>>
  /\ main.pc = "remove" /\ main'.pc = "erase" /\ main'.msg = main.msg
  /\ main.msg.call = c /\ c \in Calls /\ g_call_factory[c] = o

LEMMA RecordingCloses ==
  ASSUME TypeInv, RecordInv, Delete
  PROVE  \E c, o, L : Closes(c, o, L)
  <1>1. main.pc = "remove" /\ main.msg.call \in Calls
    BY ReqTypes DEF Delete, TypeInv, MainOK, Ending
  <1>2. PICK o \in DOMAIN objs : o = g_call_factory[main.msg.call]
    BY <1>1 DEF Delete, TypeInv, MapOK
  <1>3. Deletes(o)
    BY <1>2, DeathDelete
  <1>4. objs[o].alive
    <2>1. o # 0
      BY <1>2 DEF Delete
    <2> QED BY <1>1, <1>2, <2>1 DEF RecordInv, AtWork, MapAlive
  <1>5. PICK L : L = {l \in Line : Converts(objs[o].media_list[l])}
    OBVIOUS
  <1>6. ASSUME NEW l \in L, NEW i \in Index PROVE Fh(o, l, i) = "open"
    <2>1. l \in Line /\ Fh(o, l, 0) # "null" /\ Fh(o, l, 1) # "null"
      BY <1>5 DEF Converts, Fh
    <2>2. Fh(o, l, i) # "null"
      BY <2>1, LineParts
    <2>3. Fh(o, l, i) # "unlinked" /\ Fh(o, l, i) # "closed"
      BY <1>4, <2>1 DEF RecordInv, FilesTrue
    <2> QED BY <2>1, <2>2, <2>3, FhType DEF FileState
  <1>7. \A l \in Line, i \in Index : Fh(o, l, i)' = IF l \in L THEN "closed" ELSE Fh(o, l, i)
    BY <1>3, <1>5 DEF Deletes, Fh
  <1>8. jobs' = jobs \cup {[obj |-> o, line |-> l, index |-> 0, step |-> "sox"] : l \in L}
        /\ UNCHANGED <<raw, wav, epoll, rq, g_call_factory>>
    BY <1>2, <1>5 DEF Delete, disk, kernel
  <1>9. L \subseteq Line /\ g_call_factory[main.msg.call] = o
    BY <1>2, <1>5
  <1>10. Closes(main.msg.call, o, L)
    BY <1>1, <1>3, <1>4, <1>6, <1>7, <1>8, <1>9, DeleteSources DEF Closes, Deletes
  <1> QED BY <1>10

LEMMA RecordClose ==
  ASSUME TypeInv, RecordInv, OneObject, NEW c, NEW o, NEW L, Closes(c, o, L)
  PROVE  RecordInv' /\ \E R \in SUBSET File : Promise!Close(R)
  <1>1. \A p \in DOMAIN objs, l \in Line, i \in Index :
          /\ Name(p, l, i)' = Name(p, l, i)
          /\ p # o => Fh(p, l, i)' = Fh(p, l, i)
    BY DEF Closes, ObjsStep, Name, Fh
  <1>2. PICK R : R = {f \in File : f[1] = c /\ f[2] \in L}
    OBVIOUS
  <1>3. Promise!Close(R)
    <2>1. ASSUME NEW f \in File, f[1] = c
          PROVE  /\ f \in R => PhaseIn(objs, f) = "open"
                 /\ PhaseIn(objs', f) = IF f \in R THEN "final" ELSE PhaseIn(objs, f)
      <3>1. f[2] \in Line /\ f[3] \in Index /\ (f \in R <=> f[2] \in L)
        BY <1>2, <2>1 DEF File
      <3>2. Fh(o, f[2], f[3])' = IF f \in R THEN "closed" ELSE Fh(o, f[2], f[3])
        BY <3>1 DEF Closes
      <3>3. \A p \in DOMAIN objs : objs[p].cid = c <=> p = o
        BY DEF Closes, OneObject
      <3>4. \A p \in DOMAIN objs' : objs'[p].cid = c <=> p = o
        BY <3>3 DEF Closes, ObjsStep
      <3>5. o \in DOMAIN objs /\ o \in DOMAIN objs'
        BY DEF Closes
      <3>6. f \in R => Fh(o, f[2], f[3]) = "open"
        BY <3>1 DEF Closes
      <3>7. f \in R => PhaseIn(objs, f) = "open"
        BY <2>1, <3>3, <3>5, <3>6 DEF PhaseIn, Fh
      <3>8. f \in R => PhaseIn(objs', f) = "final"
        BY <2>1, <3>2, <3>4, <3>5 DEF PhaseIn, Fh
      <3>9. f \notin R => PhaseIn(objs', f) = PhaseIn(objs, f)
        BY <2>1, <3>2, <3>3, <3>4, <3>5 DEF PhaseIn, Fh
      <3> QED BY <3>7, <3>8, <3>9
    <2>2. ASSUME NEW f \in File, f[1] # c PROVE PhaseIn(objs', f) = PhaseIn(objs, f)
      <3>1. \A p \in DOMAIN objs : objs'[p].cid = objs[p].cid
        BY DEF Closes, ObjsStep
      <3>2. \A p \in DOMAIN objs : objs[p].cid = f[1] => objs'[p] = objs[p]
        BY <2>2 DEF Closes
      <3>3. DOMAIN objs' = DOMAIN objs
        BY DEF Closes
      <3> QED BY <3>1, <3>2, <3>3 DEF PhaseIn
    <2>3. \A f \in R : PhaseIn(objs, f) = "open"
      BY <1>2, <2>1
    <2>4. \A f \in File : PhaseIn(objs', f) = IF f \in R THEN "final" ELSE PhaseIn(objs, f)
      BY <1>2, <2>1, <2>2
    <2>5. \A f \in File : Held(raw'[f], wav'[f]) = Held(raw[f], wav[f])
      BY DEF Closes
    <2>6. R \in SUBSET File
      BY <1>2
    <2> QED BY <2>3, <2>4, <2>5, <2>6, PromiseMoves DEF Promise!Close
  <1>4. Fresh'
    <2>1. \A d : NoObject(d)' => NoObject(d)
      BY DEF NoObject, Closes, ObjsStep
    <2> QED BY <2>1 DEF RecordInv, Fresh, Closes
  <1>5. FilesTrue'
    <2> SUFFICES ASSUME NEW p \in DOMAIN objs, NEW l \in Line, NEW i \in Index
                 PROVE  /\ Fh(p, l, i)' # "unlinked"
                        /\ Fh(p, l, i)' = "null" =>
                             raw[Name(p, l, i)] = None /\ wav[Name(p, l, i)] = None
                        /\ Fh(p, l, i)' = "open" => wav[Name(p, l, i)] = None
                        /\ objs'[p].alive => Fh(p, l, i)' # "closed"
      BY <1>1 DEF FilesTrue, Closes
    <2>1. CASE p = o
      BY <2>1 DEF RecordInv, FilesTrue, Closes
    <2>2. CASE p # o
      BY <1>1, <2>2 DEF RecordInv, FilesTrue, Closes
    <2> QED BY <2>1, <2>2
  <1>6. AtWork'
    <2>1. Making'
      BY DEF Closes, Making
    <2>2. ASSUME NEW d \in Calls, g_call_factory[d] # 0, d # c
          PROVE  objs'[g_call_factory[d]].alive
      <3>1. g_call_factory[d] \in DOMAIN objs /\ objs[g_call_factory[d]].cid = d
        BY <2>2 DEF TypeInv, MapOK
      <3>2. objs[g_call_factory[d]].alive
        BY <2>2 DEF RecordInv, AtWork, MapAlive, Closes
      <3>3. g_call_factory[d] # o
        BY <2>2, <3>1 DEF Closes
      <3> QED BY <3>1, <3>2, <3>3 DEF Closes
    <2>3. MapAlive'
      BY <2>2 DEF MapAlive, Closes
    <2> QED BY <2>1, <2>3 DEF AtWork
  <1>7. SourcesDiffer' /\ Writing' /\ Waiting'
    <2>1. \A p \in DOMAIN objs, i \in Index : Fh(p, 1, i) # "null" => Fh(p, 1, i)' # "null"
      BY <1>1, LineParts DEF Closes
    <2> QED BY <2>1, SourcesKept DEF Closes
  <1>8. HoldsOne'
    <2> SUFFICES ASSUME NEW p \in DOMAIN objs, NEW l \in Line, NEW i \in Index,
                        raw[Name(p, l, i)] # None, NEW s \in raw[Name(p, l, i)]
                 PROVE  l = 1 /\ s = <<objs[p].cid, Src(p)[i]>> /\ Codec(p) = "alaw"
      BY <1>1 DEF HoldsOne, Closes, ObjsStep, SourcesStay
    <2> QED BY DEF RecordInv, HoldsOne
  <1>9. ASSUME NEW j \in jobs
        PROVE  JobTrue(j)' /\ ~ (j.obj = o /\ j.line \in L)
    <2>1. JobTrue(j) /\ j.obj \in DOMAIN objs /\ j.line \in Line /\ j.index \in Index
      BY JobTypes DEF RecordInv, JobsTrue
    <2>2. ~ (j.obj = o /\ j.line \in L)
      BY <2>1, LineParts DEF JobTrue, Closes
    <2>3. JobFile(j)' = JobFile(j)
      BY <2>1 DEF JobFile, Closes, ObjsStep
    <2>4. \A i \in Index : Fh(j.obj, j.line, i)' = Fh(j.obj, j.line, i)
                           /\ Name(j.obj, j.line, i)' = Name(j.obj, j.line, i)
      BY <1>1, <2>1, <2>2 DEF Closes
    <2> QED BY <2>1, <2>2, <2>3, <2>4 DEF JobTrue, Closes
  <1>10. ASSUME NEW j, NEW l \in L, j = [obj |-> o, line |-> l, index |-> 0, step |-> "sox"]
         PROVE  JobTrue(j)'
    <2>1. l \in Line /\ o \in DOMAIN objs /\ j.obj = o /\ j.line = l /\ j.step = "sox"
      BY <1>10 DEF Closes
    <2>2. \A i \in Index : Fh(o, l, i)' = "closed"
      BY <2>1 DEF Closes
    <2>3. \A i \in Index : wav[Name(o, l, i)] = None
      BY <2>1 DEF RecordInv, FilesTrue, Closes
    <2> QED BY <1>1, <2>1, <2>2, <2>3 DEF JobTrue, Closes
  <1>11. JobsTrue'
    <2>1. \A j \in jobs' : j \in jobs \/
            \E l \in L : j = [obj |-> o, line |-> l, index |-> 0, step |-> "sox"]
      BY DEF Closes
    <2>2. \A j \in jobs' : JobTrue(j)'
      BY <1>9, <1>10, <2>1
    <2>3. \A j, k \in jobs' : j.obj = k.obj /\ j.line = k.line => j = k
      BY <1>9, <2>1 DEF RecordInv, JobsTrue
    <2> QED BY <2>2, <2>3 DEF JobsTrue
  <1> QED BY <1>2, <1>3, <1>4, <1>5, <1>6, <1>7, <1>8, <1>11 DEF RecordInv
\* A conversion has its file for itself.
LEMMA JobAlone ==
  ASSUME TypeInv, RecordInv, OneObject, NEW j \in jobs
  PROVE  /\ JobTrue(j) /\ j.obj \in DOMAIN objs /\ j.line \in Line /\ j.index \in Index
         /\ JobFile(j) \in File /\ JobFile(j) = Name(j.obj, j.line, j.index)
         /\ ~ NoObject(JobFile(j)[1])
         /\ \A o \in DOMAIN objs, l \in Line, i \in Index :
              /\ Name(o, l, i) \in File
              /\ Name(o, l, i) = JobFile(j) =>
                   o = j.obj /\ l = j.line /\ i = j.index /\ Fh(o, l, i) = "closed"
         /\ \A k \in jobs : k # j => JobFile(k) # JobFile(j)
  <1>1. JobTrue(j) /\ j.obj \in DOMAIN objs /\ j.line \in Line /\ j.index \in Index
        /\ JobFile(j) \in File
    BY JobTypes DEF RecordInv, JobsTrue
  <1>2. JobFile(j) = Name(j.obj, j.line, j.index)
    BY DEF JobFile, Name
  <1>3. ~ NoObject(JobFile(j)[1])
    BY <1>1 DEF JobFile, NoObject
  <1>4. \A o \in DOMAIN objs, l \in Line, i \in Index :
          Name(o, l, i) = JobFile(j) => o = j.obj /\ l = j.line /\ i = j.index
    BY <1>1, <1>2, NamesDiffer DEF TypeInv, ObjsOK
  <1>5. \A i \in Index : Fh(j.obj, j.line, i) = "closed"
    BY <1>1 DEF JobTrue
  <1>6. \A o \in DOMAIN objs, l \in Line, i \in Index : Name(o, l, i) \in File
    BY NameParts DEF TypeInv, ObjsOK
  <1>7. ASSUME NEW k \in jobs, k # j PROVE JobFile(k) # JobFile(j)
    <2>1. k.obj \in DOMAIN objs /\ k.line \in Line /\ k.index \in Index
      BY JobTypes
    <2>2. JobFile(k) = Name(k.obj, k.line, k.index)
      BY DEF JobFile, Name
    <2>3. ~ (k.obj = j.obj /\ k.line = j.line)
      BY <1>7 DEF RecordInv, JobsTrue
    <2> QED BY <1>4, <2>1, <2>2, <2>3
  <1> QED BY <1>1, <1>2, <1>3, <1>4, <1>5, <1>6, <1>7

\* sox has the same audio in the other file, or there was none.
LEMMA RecordSox ==
  ASSUME TypeInv, RecordInv, OneObject, NEW j \in jobs, Sox(j)
  PROVE  RecordInv' /\ UNCHANGED Promise!vars
  <1>1. UNCHANGED <<objs, g_call_factory, main, epoll, rq, raw>> /\ j.step = "sox"
    BY DEF Sox, calls, kernel
  <1>2. PICK g \in File : g = JobFile(j)
    BY JobAlone
  <1>3. wav[g] = None
    <2>1. wav[Name(j.obj, j.line, j.index)] = None
      BY <1>1, JobAlone DEF JobTrue
    <2> QED BY <1>2, <2>1, JobAlone
  <1>4. \A f \in File : f # g => wav'[f] = wav[f]
    <2>1. CASE UNCHANGED wav
      BY <2>1
    <2>2. CASE wav' = [wav EXCEPT ![g] = raw[g]]
      BY <2>2 DEF TypeInv, DiskOK
    <2> QED BY <1>2, <2>1, <2>2 DEF Sox
  <1>5. wav'[g] = raw[g] \/ (wav'[g] = None /\ raw[g] \in {None, {}})
    <2>1. CASE raw[g] # None /\ SoxReads(objs[j.obj].media_list[j.line].codec)
      <3>1. wav' = [wav EXCEPT ![g] = raw[g]]
        BY <1>2, <2>1 DEF Sox
      <3> QED BY <3>1 DEF TypeInv, DiskOK
    <2>2. CASE raw[g] = None
      BY <1>2, <1>3, <2>2 DEF Sox
    <2>3. CASE raw[g] # None /\ objs[j.obj].media_list[j.line].codec # "alaw"
      <3>1. UNCHANGED wav
        BY <1>2, <2>3 DEF Sox, SoxReads
      <3>2. \A s \in raw[g] : j.line = 1 /\ Codec(j.obj) = "alaw"
        BY <1>2, <2>3, JobAlone DEF RecordInv, HoldsOne
      <3>3. \A s \in raw[g] : FALSE
        BY <2>3, <3>2 DEF Codec
      <3>4. raw[g] = {}
        BY <2>3, <3>3 DEF TypeInv, DiskOK
      <3> QED BY <1>3, <3>1, <3>4
    <2> QED BY <2>1, <2>2, <2>3 DEF SoxReads
  <1>6. UNCHANGED Promise!vars
    <2>1. \A f \in File : Held(raw'[f], wav'[f]) = Held(raw[f], wav[f])
      BY <1>1, <1>3, <1>4, <1>5 DEF Held
    <2> QED BY <1>1, <2>1, PromiseStutters
  <1>7. Fresh'
    <2>1. \A f \in File : NoObject(f[1]) => f # g
      BY <1>2, JobAlone
    <2> QED BY <1>1, <1>4, <2>1 DEF RecordInv, Fresh, NoObject
  <1>8. FilesTrue'
    <2> SUFFICES ASSUME NEW p \in DOMAIN objs, NEW l \in Line, NEW i \in Index
                 PROVE  Fh(p, l, i) \in {"null", "open"} =>
                          wav'[Name(p, l, i)] = wav[Name(p, l, i)]
      BY <1>1 DEF RecordInv, FilesTrue, Fh, Name
    <2> QED BY <1>2, <1>4, JobAlone
  <1>9. AtWork' /\ SourcesDiffer' /\ Waiting' /\ HoldsOne' /\ Writing'
    <2>1. AtWork'
      BY <1>1, WorkKept DEF RecordInv
    <2> QED BY <1>1, <2>1 DEF RecordInv, SourcesDiffer, Waiting, HoldsOne, Writing, Src, Codec,
                              Fh, Name
  <1> DEFINE new == [j EXCEPT !.step = "remove"]
  <1>10. new.obj = j.obj /\ new.line = j.line /\ new.index = j.index /\ new.step = "remove"
    <2>1. j \in Job
      BY DEF TypeInv, JobsOK
    <2> QED BY <2>1 DEF Job
  <1>11. jobs' = (jobs \ {j}) \cup {new}
    BY DEF Sox
  <1> HIDE DEF new
  <1>12. JobTrue(new)'
    <2>1. \A i \in Index : Fh(j.obj, j.line, i) = "closed"
      BY JobAlone DEF JobTrue
    <2>2. ASSUME NEW i \in Index, i > j.index PROVE wav'[Name(j.obj, j.line, i)] = None
      <3>1. wav[Name(j.obj, j.line, i)] = None
        BY <2>2, JobAlone DEF JobTrue
      <3>2. Name(j.obj, j.line, i) # g /\ Name(j.obj, j.line, i) \in File
        BY <1>2, <2>2, JobAlone, LineParts
      <3> QED BY <1>4, <3>1, <3>2
    <2>3. \A i \in Index : i > j.index \/ (i = j.index /\ "remove" = "sox") =>
            wav'[Name(j.obj, j.line, i)] = None
      BY <2>2
    <2>4. wav'[g] # None \/ raw[g] \in {None, {}}
      BY <1>5
    <2>5. \A o, l, i : Fh(o, l, i)' = Fh(o, l, i) /\ Name(o, l, i)' = Name(o, l, i)
      BY <1>1 DEF Fh, Name
    <2>6. <<objs'[new.obj].cid, new.line, new.index>> = g
      BY <1>1, <1>2, <1>10 DEF JobFile
    <2> QED BY <1>1, <1>10, <2>1, <2>3, <2>4, <2>5, <2>6 DEF JobTrue, JobFile
  <1>13. ASSUME NEW k \in jobs, k # j PROVE JobTrue(k)'
    <2>1. JobTrue(k) /\ k.obj \in DOMAIN objs /\ k.line \in Line /\ k.index \in Index
      BY JobTypes DEF RecordInv, JobsTrue
    <2>2. \A i \in Index : Name(k.obj, k.line, i) # g /\ Name(k.obj, k.line, i) \in File
      <3>1. ~ (k.obj = j.obj /\ k.line = j.line)
        BY <1>13 DEF RecordInv, JobsTrue
      <3> QED BY <1>2, <2>1, <3>1, JobAlone
    <2>3. \A i \in Index : wav'[Name(k.obj, k.line, i)] = wav[Name(k.obj, k.line, i)]
      BY <1>4, <2>2
    <2>4. JobFile(k) = Name(k.obj, k.line, k.index) /\ JobFile(k)' = JobFile(k)
      BY <1>1 DEF JobFile, Name
    <2>5. wav'[JobFile(k)] = wav[JobFile(k)]
      BY <2>1, <2>3, <2>4
    <2>6. \A o, l, i : Fh(o, l, i)' = Fh(o, l, i) /\ Name(o, l, i)' = Name(o, l, i)
      BY <1>1 DEF Fh, Name
    <2> QED BY <1>1, <2>1, <2>3, <2>4, <2>5, <2>6 DEF JobTrue
  <1>14. JobsTrue'
    <2>1. \A k \in jobs' : JobTrue(k)'
      BY <1>11, <1>12, <1>13
    <2>2. \A k, m \in jobs' : k.obj = m.obj /\ k.line = m.line => k = m
      BY <1>10, <1>11 DEF RecordInv, JobsTrue
    <2> QED BY <2>1, <2>2 DEF JobsTrue
  <1> QED BY <1>6, <1>7, <1>8, <1>9, <1>14 DEF RecordInv
\* The raw file goes once its audio is in the other file, and no FILE is open on it.
LEMMA RecordRemove ==
  ASSUME TypeInv, RecordInv, OneObject, NEW j \in jobs, Remove(j)
  PROVE  RecordInv' /\ UNCHANGED <<objs, main>> /\ UNCHANGED Promise!vars
  <1>1. UNCHANGED <<g_call_factory, main, epoll, rq, wav>> /\ j.step = "remove"
    BY DEF Remove, kernel
  <1>2. PICK g \in File : g = JobFile(j)
    BY JobAlone
  <1>3. objs' = objs
    <2>1. objs \in Seq(CallType) /\ objs' = Unlink(g)
      BY <1>2 DEF Remove, TypeInv, ObjsOK
    <2>2. ASSUME NEW o \in DOMAIN objs
          PROVE  objs[o].cid # g[1] \/ objs[o].media_list[g[2]].fh[g[3]] # "open"
      <3>1. g[2] \in Line /\ g[3] \in Index /\ g = <<g[1], g[2], g[3]>>
        BY DEF File
      <3>2. ASSUME objs[o].cid = g[1] PROVE Fh(o, g[2], g[3]) = "closed"
        <4>1. Name(o, g[2], g[3]) = g
          BY <3>1, <3>2 DEF Name
        <4> QED BY <1>2, <3>1, <4>1, JobAlone
      <3> QED BY <3>2 DEF Fh
    <2>3. objs' = [o \in DOMAIN objs |-> objs[o]]
      BY <2>1, <2>2 DEF Unlink
    <2> QED BY <2>1, <2>3
  <1>4. \A f \in File : raw'[f] = IF f = g THEN None ELSE raw[f]
    BY <1>2 DEF Remove, TypeInv, DiskOK
  <1>5. wav[g] # None \/ raw[g] \in {None, {}}
    BY <1>1, <1>2, JobAlone DEF JobTrue
  <1>6. UNCHANGED Promise!vars
    <2>1. \A f \in File : Held(raw'[f], wav'[f]) = Held(raw[f], wav[f])
      BY <1>1, <1>4, <1>5 DEF Held
    <2> QED BY <1>3, <2>1, PromiseStutters
  <1>7. Fresh'
    BY <1>1, <1>3, <1>4 DEF RecordInv, Fresh, NoObject
  <1>8. \A o \in DOMAIN objs, l \in Line, i \in Index :
          Name(o, l, i) \in File /\ (raw'[Name(o, l, i)] = raw[Name(o, l, i)]
                                      \/ raw'[Name(o, l, i)] = None)
    BY <1>4, JobAlone
  <1>9. FilesTrue'
    <2> SUFFICES ASSUME NEW p \in DOMAIN objs, NEW l \in Line, NEW i \in Index
                 PROVE  Fh(p, l, i) = "null" => raw'[Name(p, l, i)] = None
      BY <1>1, <1>3 DEF RecordInv, FilesTrue, Fh, Name
    <2> QED BY <1>8 DEF RecordInv, FilesTrue
  <1>10. AtWork' /\ SourcesDiffer' /\ Waiting' /\ Writing'
    <2>1. AtWork'
      BY <1>1, <1>3, WorkKept DEF RecordInv
    <2> QED BY <1>1, <1>3, <2>1 DEF RecordInv, SourcesDiffer, Waiting, Writing, Src, Codec, Fh
  <1>11. HoldsOne'
    <2> SUFFICES ASSUME NEW p \in DOMAIN objs, NEW l \in Line, NEW i \in Index,
                        raw'[Name(p, l, i)] # None, NEW s \in raw'[Name(p, l, i)]
                 PROVE  l = 1 /\ s = <<objs[p].cid, Src(p)[i]>> /\ Codec(p) = "alaw"
      BY <1>3 DEF HoldsOne, Src, Codec, Name
    <2>1. raw'[Name(p, l, i)] = raw[Name(p, l, i)]
      BY <1>8
    <2> QED BY <2>1 DEF RecordInv, HoldsOne
  <1> DEFINE new == [j EXCEPT !.index = 1, !.step = "sox"]
  <1>12. new.obj = j.obj /\ new.line = j.line /\ new.index = 1 /\ new.step = "sox"
    <2>1. j \in Job
      BY DEF TypeInv, JobsOK
    <2> QED BY <2>1 DEF Job
  <1>13. jobs' = (jobs \ {j}) \cup (IF j.index = 0 THEN {new} ELSE {})
    BY DEF Remove
  <1> HIDE DEF new
  <1>14. \A o, l, i : Fh(o, l, i)' = Fh(o, l, i) /\ Name(o, l, i)' = Name(o, l, i)
    BY <1>3 DEF Fh, Name
  <1>15. ASSUME j.index = 0 PROVE JobTrue(new)'
    <2>1. \A i \in Index : Fh(j.obj, j.line, i) = "closed"
      BY JobAlone DEF JobTrue
    <2>2. ASSUME NEW i \in Index, i > 1 \/ (i = 1 /\ "sox" = "sox")
          PROVE  wav'[Name(j.obj, j.line, i)] = None
      <3>1. i > j.index
        BY <1>15, <2>2, LineParts
      <3> QED BY <1>1, <3>1, JobAlone DEF JobTrue
    <2> QED BY <1>12, <1>14, <2>1, <2>2 DEF JobTrue
  <1>16. ASSUME NEW k \in jobs, k # j PROVE JobTrue(k)'
    <2>1. JobTrue(k) /\ JobFile(k) \in File
      BY JobTypes DEF RecordInv, JobsTrue
    <2>2. JobFile(k) # g
      BY <1>2, <1>16, JobAlone
    <2>3. raw'[JobFile(k)] = raw[JobFile(k)] /\ JobFile(k)' = JobFile(k)
      BY <1>3, <1>4, <2>1, <2>2 DEF JobFile
    <2> QED BY <1>1, <1>14, <2>1, <2>3 DEF JobTrue
  <1>17. JobsTrue'
    <2>1. \A k \in jobs' : JobTrue(k)'
      BY <1>13, <1>15, <1>16
    <2>2. \A k, m \in jobs' : k.obj = m.obj /\ k.line = m.line => k = m
      BY <1>12, <1>13 DEF RecordInv, JobsTrue
    <2> QED BY <2>1, <2>2 DEF JobsTrue
  <1> QED BY <1>1, <1>3, <1>6, <1>7, <1>9, <1>10, <1>11, <1>17 DEF RecordInv

\* Every step keeps the invariant, and is a step of the promise or none.
LEMMA RecordInductive ==
  ASSUME Law = "alaw", TypeInv, TypeInv', OnceInv, OnceInv', RecordInv, [Next]_vars
  PROVE  RecordInv' /\ [Promise!Next]_(Promise!vars)
  <1>1. OneObject /\ OneObject'
    BY DEF OnceInv
  <1>2. ASSUME Calm, AtWork' PROVE RecordInv' /\ UNCHANGED Promise!vars
    BY <1>1, <1>2, RecordCalm
  <1>3. CASE UNCHANGED vars
    <2>1. UNCHANGED <<objs, g_call_factory, main, epoll, jobs, rq, raw, wav>>
      BY <1>3 DEF vars
    <2>2. Calm /\ AtWork'
      BY <2>1, StillCalm, WorkKept DEF RecordInv, Still
    <2> QED BY <1>2, <2>2
  <1>4. CASE Environment
    BY <1>2, <1>4, RecordEnvironment
  <1>5. CASE epoll_thread
    <2>1. CASE Notify \/ \E m \in net : RecvSip(m)
      BY <1>2, <2>1, RecordSip
    <2>2. CASE WriteRtp
      BY <1>1, <2>2, RecordWrite DEF Promise!Next
    <2>3. ASSUME NEW q \in rq, TakeRtp(q[1], q[2], q[3])
          PROVE  RecordInv' /\ UNCHANGED Promise!vars
      <3>1. q[1] \in DOMAIN objs /\ q[2] \in Line /\ q[3] \in Stream
        BY DEF TypeInv, KernelOK
      <3> QED BY <2>3, <3>1, RecordTake
    <2>4. ASSUME NEW q \in rq, DropRtp(q[1], q[2], q[3]) \/ LookupFaults(q[1], q[2], q[3])
          PROVE  RecordInv' /\ UNCHANGED Promise!vars
      BY <1>2, <2>4, RecordDrop
    <2> QED BY <1>5, <2>1, <2>2, <2>3, <2>4 DEF epoll_thread, do_rtp
  <1>6. CASE main_thread
    <2>1. CASE Wait \/ Wake \/ Take \/ AnswerBye \/ RemoveUnknown
      BY <1>2, <2>1, RecordMain
    <2>2. CASE Insert \/ Erase
      BY <1>2, <2>2, RecordMap
    <2>3. CASE AcceptInvite
      BY <1>2, <2>3, RecordAccept
    <2>4. CASE start_recording
      <3>1. PICK c, o, R : Starts(c, o, R)
        BY <2>4, RecordingStarts
      <3>2. RecordInv' /\ R \in SUBSET File /\ Promise!Open(R)
        BY <1>1, <3>1, RecordStart
      <3> QED BY <3>2 DEF Promise!Next
    <2>5. CASE Delete
      <3>1. PICK c, o, L : Closes(c, o, L)
        BY <2>5, RecordingCloses
      <3>2. RecordInv' /\ \E R \in SUBSET File : Promise!Close(R)
        BY <1>1, <3>1, RecordClose
      <3> QED BY <3>2 DEF Promise!Next
    <2> QED BY <1>6, <2>1, <2>2, <2>3, <2>4, <2>5 DEF main_thread, do_siprec_message
  <1>7. CASE to_pcm_thread
    <2>1. PICK j \in jobs : Sox(j) \/ Remove(j)
      BY <1>7 DEF to_pcm_thread
    <2> QED BY <1>1, <2>1, RecordSox, RecordRemove
  <1> QED BY <1>3, <1>4, <1>5, <1>6, <1>7 DEF Next

LEMMA PromiseInit == Init => Promise!Init
  BY DEF Init, Promise!Init, Opened

\* Where no INVITE is sent again and the RTP is A-law, the server keeps its promise,
\* whatever is lost or out of order and however often a BYE is repeated: a recording
\* is opened once, takes one party's packets while it is open, and what it holds
\* when it is closed is what its conversion leaves.
THEOREM RecordsUntilInviteAgain ==
  ASSUME Law = "alaw" PROVE Spec /\ [][InviteOnce]_vars => ImplementsRecorder
  <1>1. TypeInv /\ TypeInv' /\ OnceInv /\ OnceInv' /\ RecordInv /\ [Next]_vars
          => RecordInv' /\ [Promise!Next]_(Promise!vars)
    BY RecordInductive
  <1>2. Spec => []TypeInv
    BY TypesHold
  <1>3. Spec /\ [][InviteOnce]_vars => []OnceInv
    BY OneObjectPerCall
  <1> QED BY RecordInit, PromiseInit, <1>1, <1>2, <1>3, PTL
          DEF Spec, ImplementsRecorder, Promise!Spec

\* The case the runs check: FreeSWITCH never sends a request again.
THEOREM RecordingServerRecords ==
  ASSUME MaxRetry = 0, Law = "alaw" PROVE Spec => ImplementsRecorder
  <1>1. TypeInv => [InviteOnce]_vars
    <2>1. TypeInv => ~ (retries < MaxRetry)
      BY DEF TypeInv, OutsideOK, OutsideTypeOK
    <2> QED BY <2>1 DEF InviteOnce, Retransmit
  <1> QED BY <1>1, TypesHold, RecordsUntilInviteAgain, PTL
=============================================================================
