---------------------------- MODULE OrekaOwnership ----------------------------
(***************************************************************************)
(* Who holds which descriptor: the inductive invariant of OrekaServer for  *)
(* a network that duplicates nothing, and what follows from it.            *)
(***************************************************************************)
EXTENDS OrekaProofs

------------------------------------------------------------------------------
(* What one INVITE or BYE does to the directions of the channels.           *)

\* After a step that replaced direction d of call c by leg: every other
\* direction of a channel is untouched or new.
LegsAfter(c, d, leg) ==
  \A ch \in Chans', e \in Dir :
    /\ ch \in Channel
    /\ IF ch.callid = c /\ e = d THEN ch.leg[e] = leg
       ELSE \/ ch.leg[e] = NoLeg
            \/ \E old \in Chans : old.callid = ch.callid /\ old.leg[e] = ch.leg[e]

LEMMA WithLegLegs ==
  ASSUME g_chanels \in Seq(Channel), OneChannelPerCall,
         NEW c \in Calls, NEW d \in Dir, NEW leg \in Leg,
         g_chanels' = WithLeg(c, d, leg)
  PROVE  LegsAfter(c, d, leg)
  <1> DEFINE i == find_channel_by_callid(c)
             new == SetLeg(NewChannel(c), d, leg)
  <1>1. \A j \in DOMAIN g_chanels : g_chanels[j] \in Channel /\ g_chanels[j] \in Chans
    BY DEF Chans
  <1>2. CASE i = 0
    <2>1. \A j \in DOMAIN g_chanels : g_chanels[j].callid # c
      BY <1>2, FindByCallid
    <2>2. new \in Channel /\ new.callid = c
      BY NewChannelType, SetLegType DEF NewChannel
    <2>3. new.leg[d] = leg /\ \A e \in Dir : e # d => new.leg[e] = NoLeg
      BY NewChannelType, SetLegType DEF NewChannel
    <2>4. g_chanels' = Append(g_chanels, new)
      BY <1>2 DEF WithLeg
    <2> HIDE DEF new
    <2>5. \A j \in DOMAIN g_chanels' :
            \/ j \in DOMAIN g_chanels /\ g_chanels'[j] = g_chanels[j]
            \/ g_chanels'[j] = new
      BY <2>2, <2>4
    <2>6. \A ch \in Chans' : ch = new \/ \E j \in DOMAIN g_chanels : ch = g_chanels[j]
      BY <2>5 DEF Chans
    <2> QED BY <1>1, <2>1, <2>2, <2>3, <2>6 DEF LegsAfter
  <1>3. CASE i # 0
    <2> DEFINE upd == SetLeg(g_chanels[i], d, leg)
    <2>1. i \in DOMAIN g_chanels /\ g_chanels[i].callid = c
      BY <1>3, FindByCallid
    <2>2. g_chanels' = [g_chanels EXCEPT ![i] = upd]
      BY <1>3 DEF WithLeg
    <2>3. /\ upd \in Channel /\ upd.callid = c /\ upd.leg[d] = leg
          /\ \A e \in Dir : e # d => upd.leg[e] = g_chanels[i].leg[e]
      BY <1>1, <2>1, SetLegType
    <2>4. \A j \in DOMAIN g_chanels : j # i => g_chanels[j].callid # c
      BY <2>1 DEF OneChannelPerCall
    <2> HIDE DEF i, upd
    <2>5. \A ch \in Chans' :
            ch = upd \/ \E j \in DOMAIN g_chanels : j # i /\ ch = g_chanels[j]
      BY <2>1, <2>2 DEF Chans
    <2> QED BY <1>1, <2>1, <2>3, <2>4, <2>5 DEF LegsAfter
  <1> QED BY <1>2, <1>3

ClosedLeg(leg) == [sock |-> 0, port |-> NoPort, file |-> leg.file]

LEMMA ResetLegs ==
  ASSUME g_chanels \in Seq(Channel), OneChannelPerCall,
         NEW i \in DOMAIN g_chanels, NEW d \in Dir,
         g_chanels' = Reset(i, d)
  PROVE  LegsAfter(g_chanels[i].callid, d, ClosedLeg(g_chanels[i].leg[d]))
  <1> DEFINE leg == ClosedLeg(g_chanels[i].leg[d])
             upd == SetLeg(g_chanels[i], d, leg)
             chs == [g_chanels EXCEPT ![i] = upd]
  <1>1. \A j \in DOMAIN g_chanels : g_chanels[j] \in Channel /\ g_chanels[j] \in Chans
    BY DEF Chans
  <1>2. leg \in Leg
    <2>1. g_chanels[i].leg[d] \in Leg
      BY <1>1 DEF Channel
    <2>2. 0 \in Fd
      BY ConstantsAssumption DEF Fd
    <2> QED BY <2>1, <2>2 DEF Leg, ClosedLeg
  <1>3. /\ upd \in Channel /\ upd.callid = g_chanels[i].callid /\ upd.leg[d] = leg
        /\ \A e \in Dir : e # d => upd.leg[e] = g_chanels[i].leg[e]
    BY <1>1, <1>2, SetLegType
  <1>4. \A j \in DOMAIN g_chanels : j # i => g_chanels[j].callid # g_chanels[i].callid
    BY DEF OneChannelPerCall
  <1>5. g_chanels' = chs \/ g_chanels' = Erase(chs, i)
    BY DEF Reset, ClosedLeg
  <1> HIDE DEF upd, leg
  <1>6. chs \in Seq(Channel) /\ DOMAIN chs = DOMAIN g_chanels
    BY <1>3
  <1>7. \A j \in DOMAIN chs : chs[j] = IF j = i THEN upd ELSE g_chanels[j]
    OBVIOUS
  <1> HIDE DEF chs
  <1>8. \A j \in DOMAIN g_chanels' : \E k \in DOMAIN chs : g_chanels'[j] = chs[k]
    BY <1>5, <1>6, EraseSeq
  <1>9. \A ch \in Chans' :
          ch = upd \/ \E j \in DOMAIN g_chanels : j # i /\ ch = g_chanels[j]
    BY <1>6, <1>7, <1>8 DEF Chans
  <1>10. LegsAfter(g_chanels[i].callid, d, leg)
    BY <1>1, <1>3, <1>4, <1>9 DEF LegsAfter
  <1> QED BY <1>10 DEF leg

LEMMA UdpKind == \A p : UdpEntry(p).kind = "udp"
  BY DEF UdpEntry

LEMMA ChansType ==
  ASSUME g_chanels \in Seq(Channel)
  PROVE  /\ Chans \subseteq Channel
         /\ \A ch \in Chans : ch.callid \in Calls /\ \A d \in Dir : ch.leg[d] \in Leg
  <1>1. Chans \subseteq Channel
    BY DEF Chans
  <1> QED BY <1>1 DEF Channel

------------------------------------------------------------------------------
(* The steps that touch neither channels nor descriptors.                   *)

Owned == SocketsOwned /\ FilesOwned /\ FilesDistinct /\ MainOwned /\ StdinOpen

LEMMA OwnedFrame ==
  ASSUME Owned, UNCHANGED <<g_chanels, fdt, heap, socks, MainPorts>>
  PROVE  Owned'
  <1>1. Chans' = Chans /\ MainPorts' = MainPorts /\ MainFds' = MainFds
    BY DEF Chans, MainFds
  <1>2. SocketsOwned'
    BY <1>1 DEF Owned, SocketsOwned
  <1>3. FilesOwned'
    BY <1>1 DEF Owned, FilesOwned, IsOpen
  <1>4. FilesDistinct' /\ StdinOpen'
    BY DEF Owned, FilesDistinct, StdinOpen
  <1>5. MainOwned'
    BY <1>1 DEF Owned, MainOwned
  <1> QED BY <1>2, <1>3, <1>4, <1>5 DEF Owned

\* Nothing becomes pending when the calls stay and the network only shrinks.
LEMMA NetShrinks ==
  ASSUME NetSent, UNCHANGED <<call, fsPort>>, net' \subseteq net
  PROVE  /\ NetSent'
         /\ \A c \in Calls, d \in Dir :
              /\ PendingInvite(c, d)' => PendingInvite(c, d)
              /\ PendingBye(c, d)' => PendingBye(c, d)
  BY DEF NetSent, PendingInvite, PendingBye

LEMMA NetFrame ==
  ASSUME NetSent, LegsInStep, UNCHANGED <<g_chanels, call, fsPort>>, net' \subseteq net
  PROVE  NetSent' /\ LegsInStep'
  BY DEF NetSent, LegsInStep, PendingInvite, PendingBye, Chans

LEMMA InitIInv == RxNamed = {} /\ Init => OwnedInv
  <1> SUFFICES ASSUME RxNamed = {}, Init PROVE OwnedInv
    OBVIOUS
  <1>1. Chans = {} /\ MainPorts = {}
    BY DEF Init, Chans, MainPorts
  <1>2. TypeOK /\ OneChannelPerCall
    BY TypeInductive, OneChannelInductive
  <1>3. 0 \in Fd
    BY ConstantsAssumption DEF Fd
  <1>4. LegsInStep /\ SocketsOwned /\ FilesOwned /\ MainOwned
    BY <1>1 DEF LegsInStep, SocketsOwned, FilesOwned, MainOwned
  <1>5. NetSent /\ FilesDistinct /\ StdinOpen /\ QueuesOnSockets /\ up
    BY <1>3 DEF Init, NetSent, FilesDistinct, StdinOpen, QueuesOnSockets
  <1> QED BY <1>2, <1>4, <1>5 DEF OwnedInv

LEMMA EnvironmentIInv ==
  ASSUME OwnedInv, Environment, TypeOK', OneChannelPerCall'
  PROVE  OwnedInv'
  <1> USE DEF OwnedInv
  <1>1. ASSUME UNCHANGED <<g_chanels, up, fault, fdt, heap, socks, main>>,
               NetSent', LegsInStep', QueuesOnSockets'
        PROVE  OwnedInv'
    <2>1. Owned'
      BY <1>1, OwnedFrame DEF Owned, MainPorts
    <2> QED BY <1>1, <2>1 DEF Owned
  <1>2. ASSUME UNCHANGED <<fdt, rq>>
        PROVE  QueuesOnSockets'
    BY <1>2 DEF QueuesOnSockets
  <1>3. ASSUME NEW c \in Calls, StartCall(c)
        PROVE  OwnedInv'
    <2>1. PICK p \in [Dir -> Ports \ PortsInUse] :
            /\ fsPort' = [s \in Stream |-> IF s[1] = c THEN p[s[2]] ELSE fsPort[s]]
            /\ net' = net \cup {Invite(c, d, p[d]) : d \in Dir}
      BY <1>3 DEF StartCall
    <2>2. call[c] = "idle" /\ call' = [call EXCEPT ![c] = "up"]
      BY <1>3 DEF StartCall
    <2>3. \A x \in Calls, d \in Dir, q \in Ports :
            Invite(x, d, q) \in net' =>
              Invite(x, d, q) \in net \/ (x = c /\ q = p[d])
      BY <2>1 DEF Invite
    <2>4. \A x \in Calls, d \in Dir : Bye(x, d) \in net' => Bye(x, d) \in net
      BY <2>1 DEF Invite, Bye
    <2>5. call \in [Calls -> {"idle", "up", "down"}]
      BY DEF TypeOK, NetworkTypeOK
    <2>6. \A x \in Calls, d \in Dir :
            fsPort'[<<x, d>>] = IF x = c THEN p[d] ELSE fsPort[<<x, d>>]
      BY <2>1 DEF Stream
    <2>7. NetSent'
      BY <2>2, <2>3, <2>4, <2>5, <2>6 DEF NetSent
    <2>8. \A x \in Calls, d \in Dir :
            /\ PendingInvite(x, d)' => PendingInvite(x, d)
            /\ PendingBye(x, d)' => PendingBye(x, d)
      BY <2>2, <2>3, <2>4, <2>5 DEF PendingInvite, PendingBye
    <2>9. \A ch \in Chans : ch.callid \in Calls
      BY ChansType DEF TypeOK, ServerTypeOK
    <2>10. UNCHANGED <<g_chanels, up, fault, fdt, rq, heap, socks, main>>
      BY <1>3 DEF StartCall, server, kernel, starter, files
    <2>11. LegsInStep'
      BY <2>8, <2>9, <2>10 DEF LegsInStep, Chans
    <2> QED BY <1>1, <1>2, <2>7, <2>10, <2>11
  <1>4. ASSUME NEW c \in Calls, HangUp(c)
        PROVE  OwnedInv'
    <2>1. /\ call[c] = "up" /\ call' = [call EXCEPT ![c] = "down"]
          /\ net' = net \cup {Bye(c, d) : d \in Dir}
          /\ UNCHANGED fsPort
      BY <1>4 DEF HangUp
    <2>2. \A x \in Calls, d \in Dir, q \in Ports :
            Invite(x, d, q) \in net' => Invite(x, d, q) \in net
      BY <2>1 DEF Invite, Bye
    <2>3. \A x \in Calls, d \in Dir : Bye(x, d) \in net' => x = c \/ Bye(x, d) \in net
      BY <2>1 DEF Bye
    <2>4. call \in [Calls -> {"idle", "up", "down"}]
      BY DEF TypeOK, NetworkTypeOK
    <2>5. NetSent'
      BY <2>1, <2>2, <2>3, <2>4 DEF NetSent
    <2>6. \A x \in Calls, d \in Dir :
            /\ PendingInvite(x, d)' => PendingInvite(x, d)
            /\ PendingBye(x, d)' => PendingBye(x, d)
      BY <2>1, <2>2, <2>3, <2>4 DEF PendingInvite, PendingBye
    <2>7. \A ch \in Chans : ch.callid \in Calls
      BY ChansType DEF TypeOK, ServerTypeOK
    <2>8. UNCHANGED <<g_chanels, up, fault, fdt, rq, heap, socks, main>>
      BY <1>4 DEF HangUp, server, kernel, starter, files
    <2>9. LegsInStep'
      BY <2>6, <2>7, <2>8 DEF LegsInStep, Chans
    <2> QED BY <1>1, <1>2, <2>5, <2>8, <2>9
  <1>5. ASSUME NEW s \in Stream, SendRtp(s) \/ EndFlight(s)
        PROVE  OwnedInv'
    <2>1. UNCHANGED <<g_chanels, up, fault, fdt, rq, heap, socks, main, call, fsPort, net>>
      BY <1>5 DEF SendRtp, EndFlight, server, kernel, starter, files, caller, network
    <2> QED BY <1>1, <1>2, <2>1, NetFrame
  <1>6. ASSUME NEW m \in net, Lose(m)
        PROVE  OwnedInv'
    <2>1. /\ UNCHANGED <<g_chanels, up, fault, fdt, rq, heap, socks, main, call, fsPort>>
          /\ net' \subseteq net
      BY <1>6 DEF Lose, server, kernel, starter, files, caller
    <2> QED BY <1>1, <1>2, <2>1, NetFrame
  <1>7. ASSUME NEW s \in Stream, ArriveRtp(s)
        PROVE  OwnedInv'
    <2>1. /\ UNCHANGED <<g_chanels, up, fault, fdt, heap, socks, main, call, fsPort, net>>
          /\ \E f \in Fd : /\ IsReceiver(f, fsPort[s])
                           /\ rq' = [rq EXCEPT ![f] = @ \cup {s}]
      BY <1>7 DEF ArriveRtp, server, starter, files, caller, network
    <2>2. QueuesOnSockets'
      BY <2>1 DEF QueuesOnSockets, IsReceiver, BoundAt, TypeOK, KernelTypeOK
    <2> QED BY <1>1, <2>1, <2>2, NetFrame
  <1> QED BY <1>3, <1>4, <1>5, <1>6, <1>7 DEF Environment

------------------------------------------------------------------------------
(* What an INVITE or a BYE that is received leaves in flight.               *)

LEMMA ReceivedOnce ==
  ASSUME dups' = 0, OwnedInv, NEW m \in net, Receive(m)
  PROVE  /\ net' = net \ {m} /\ UNCHANGED <<call, fsPort, main, socks, dups>>
         /\ NetSent'
         /\ \A c \in Calls, d \in Dir :
              /\ PendingInvite(c, d)' => PendingInvite(c, d)
              /\ PendingBye(c, d)' => PendingBye(c, d)
         /\ m.call \in Calls /\ SubjectDir(m) \in Dir
         /\ m.method = "INVITE" => m.port \in Ports /\ ~ PendingInvite(m.call, SubjectDir(m))'
         /\ m.method = "BYE" => /\ PendingBye(m.call, SubjectDir(m))
                                /\ ~ PendingBye(m.call, SubjectDir(m))'
  <1> USE DEF OwnedInv
  <1>1. m \in Message
    BY DEF TypeOK, NetworkTypeOK
  <1>2. m.call \in Calls /\ m.dir \in Dir /\ SubjectDir(m) = m.dir
    BY <1>1 DEF Message, SubjectDir
  <1>3. net' = net \ {m} /\ UNCHANGED <<call, fsPort, main, socks, dups>>
    BY DEF Receive, caller, starter, TypeOK, NetworkTypeOK
  <1>4. /\ NetSent'
        /\ \A c \in Calls, d \in Dir :
             /\ PendingInvite(c, d)' => PendingInvite(c, d)
             /\ PendingBye(c, d)' => PendingBye(c, d)
    BY <1>3, NetShrinks
  <1>5. ASSUME m.method = "INVITE"
        PROVE  m.port \in Ports /\ ~ PendingInvite(m.call, m.dir)'
    <2>1. m.port \in Ports /\ m = Invite(m.call, m.dir, m.port)
      BY <1>1, <1>5 DEF Message, Invite
    <2>2. call[m.call] # "idle" /\ fsPort[<<m.call, m.dir>>] = m.port
      BY <1>2, <2>1 DEF NetSent
    <2>3. \A q \in Ports : Invite(m.call, m.dir, q) \notin net'
      BY <1>2, <1>3, <2>1, <2>2 DEF NetSent
    <2> QED BY <1>3, <2>1, <2>2, <2>3 DEF PendingInvite
  <1>6. ASSUME m.method = "BYE"
        PROVE  PendingBye(m.call, m.dir) /\ ~ PendingBye(m.call, m.dir)'
    <2>1. m = Bye(m.call, m.dir)
      BY <1>1, <1>6 DEF Message, Bye
    <2>2. call[m.call] = "down"
      BY <1>2, <2>1 DEF NetSent
    <2> QED BY <1>3, <2>1, <2>2 DEF PendingBye
  <1> QED BY <1>2, <1>3, <1>4, <1>5, <1>6

\* A direction that waits for its BYE and has a FILE has it open.
LEMMA WaitingFileOpen ==
  ASSUME OwnedInv, NEW ch \in Chans, NEW d \in Dir,
         PendingBye(ch.callid, d), ch.leg[d].file # NULL
  PROVE  /\ ch.leg[d].sock # 0
         /\ IsOpen(ch.leg[d].file)
         /\ heap[ch.leg[d].file].stream = <<ch.callid, d>>
         /\ fdt[heap[ch.leg[d].file].fd].kind = "file"
  <1>1. ch.leg[d].sock # 0
    BY DEF OwnedInv, LegsInStep
  <1> QED BY <1>1 DEF OwnedInv, FilesOwned

------------------------------------------------------------------------------
(* An INVITE.                                                               *)

\* Two descriptors were taken for entries e1 and e2: what was in use is as before.
LEMMA TwoInstalled ==
  ASSUME NEW t \in Table, NEW e1, NEW e2, e1.kind # "free",
         NEW f1, f1 = AllocFd(t), NEW t1, t1 = Install(t, f1, e1),
         NEW f2, f2 = AllocFd(t1), NEW t2, t2 = Install(t1, f2, e2)
  PROVE  /\ \A g \in Fd : t[g].kind # "free" => t2[g] = t[g]
         /\ f1 = -1 \/ (f1 \in Fd /\ t[f1].kind = "free" /\ t2[f1] = e1)
         /\ f2 = -1 \/ (f2 \in Fd /\ t[f2].kind = "free" /\ t2[f2] = e2)
  <1>1. /\ f1 = -1 \/ (f1 \in Fd /\ t[f1].kind = "free")
        /\ f2 = -1 \/ (f2 \in Fd /\ t1[f2].kind = "free")
    BY AllocFree
  <1>2. CASE f1 = -1
    <2>1. t1 = t
      BY <1>2 DEF Install
    <2> QED BY <1>1, <1>2, <2>1 DEF Install, Table
  <1>3. CASE f1 # -1
    <2>1. f1 \in Fd /\ t1 = [t EXCEPT ![f1] = e1]
      BY <1>1, <1>3 DEF Install
    <2>2. f2 # f1
      BY <1>1, <1>3, <2>1 DEF Table
    <2> QED BY <1>1, <1>3, <2>1, <2>2 DEF Install, Table
  <1> QED BY <1>2, <1>3

LEMMA InviteIInv ==
  ASSUME dups' = 0, OwnedInv, TypeOK', OneChannelPerCall',
         NEW m \in net, update_invite_channel(m)
  PROVE  OwnedInv'
  <1> USE DEF OwnedInv
  <1> DEFINE c == m.call
             d == SubjectDir(m)
             p == m.port
             sfd == AllocFd(fdt)
             fdt1 == Install(fdt, sfd, UdpEntry(p))
             ffd == AllocFd(fdt1)
  <1>1. Receive(m) /\ m.method = "INVITE"
    BY DEF update_invite_channel
  <1>2. /\ c \in Calls /\ d \in Dir /\ p \in Ports
        /\ UNCHANGED <<main, socks>>
        /\ NetSent' /\ ~ PendingInvite(c, d)'
        /\ \A x \in Calls, e \in Dir :
             /\ PendingInvite(x, e)' => PendingInvite(x, e)
             /\ PendingBye(x, e)' => PendingBye(x, e)
    BY <1>1, ReceivedOnce
  <1>3. PICK file \in IF ffd = -1 THEN {NULL} ELSE {a \in Heap : heap[a] = NULL} :
          /\ g_chanels' = WithLeg(c, d,
               [sock |-> buildsocket(sfd, p), port |-> p, file |-> file])
          /\ heap' = IF ffd = -1 THEN heap
                     ELSE [heap EXCEPT ![file] = [fd |-> ffd, stream |-> <<c, d>>]]
    BY DEF update_invite_channel
  <1>4. UNCHANGED <<up, fault, rq>> /\ fdt' = Install(fdt1, ffd, FileEntry) /\ up
    BY <1>1 DEF update_invite_channel, Receive
  <1>5. /\ \A g \in Fd : fdt[g].kind # "free" => fdt'[g] = fdt[g]
        /\ sfd = -1 \/ (sfd \in Fd /\ fdt[sfd].kind = "free" /\ fdt'[sfd] = UdpEntry(p))
        /\ ffd = -1 \/ (ffd \in Fd /\ fdt[ffd].kind = "free" /\ fdt'[ffd] = FileEntry)
    <2>1. fdt \in Table /\ UdpEntry(p).kind # "free"
      BY DEF TypeOK, KernelTypeOK, Table, Kind, UdpEntry
    <2> QED BY <1>4, <2>1, TwoInstalled
  <1> DEFINE sock == buildsocket(sfd, p)
             leg == [sock |-> sock, port |-> p, file |-> file]
  <1> HIDE DEF c, d, p, sfd, fdt1, ffd
  <1>6. /\ sock = -1 \/ (sock = sfd /\ sfd # -1)
        /\ sock # 0 /\ sock \in Fd \cup {-1}
    BY <1>5 DEF buildsocket, StdinOpen
  <1>7. leg \in Leg
    BY <1>2, <1>3, <1>6 DEF Leg
  <1> HIDE DEF sock
  <1>8. LegsAfter(c, d, leg)
    BY <1>2, <1>3, <1>7, WithLegLegs DEF TypeOK, ServerTypeOK, sock
  <1>9. /\ \A a \in Heap : heap[a] # NULL => heap'[a] = heap[a]
        /\ \A a \in Heap : heap'[a] # heap[a] => a = file
        /\ file # NULL => /\ file \in Heap
                          /\ heap'[file] = [fd |-> ffd, stream |-> <<c, d>>]
                          /\ heap'[file] # NULL
                          /\ ffd # -1
    <2>1. CASE ffd = -1
      BY <1>3, <2>1
    <2>2. CASE ffd # -1
      <3>1. /\ file \in Heap /\ heap[file] = NULL
            /\ heap' = [heap EXCEPT ![file] = [fd |-> ffd, stream |-> <<c, d>>]]
        BY <1>3, <2>2
      <3>2. [fd |-> ffd, stream |-> <<c, d>>] \in File
        BY <1>2, <1>5, <2>2 DEF File, Stream
      <3>3. DOMAIN heap = Heap
        BY DEF TypeOK, FilesTypeOK
      <3> QED BY <2>2, <3>1, <3>2, <3>3, ConstantsAssumption
    <2> QED BY <2>1, <2>2
  <1>10. Chans \subseteq Channel /\ \A x \in Chans : x.callid \in Calls /\ \A e \in Dir : x.leg[e] \in Leg
    BY ChansType DEF TypeOK, ServerTypeOK
  <1>12. LegsInStep'
    <2> SUFFICES ASSUME NEW ch \in Chans', NEW e \in Dir
                 PROVE  /\ PendingInvite(ch.callid, e)' => ch.leg[e] = NoLeg
                        /\ PendingBye(ch.callid, e)' /\ ch.leg[e].sock = 0 => ch.leg[e].file = NULL
      BY DEF LegsInStep
    <2>1. CASE ch.callid = c /\ e = d
      BY <1>2, <1>6, <1>8, <2>1 DEF LegsAfter
    <2>2. CASE ch.leg[e] = NoLeg
      BY <2>2 DEF NoLeg
    <2>3. ASSUME NEW old \in Chans, old.callid = ch.callid, old.leg[e] = ch.leg[e]
          PROVE  /\ PendingInvite(ch.callid, e)' => ch.leg[e] = NoLeg
                 /\ PendingBye(ch.callid, e)' /\ ch.leg[e].sock = 0 => ch.leg[e].file = NULL
      BY <1>2, <1>10, <2>3 DEF LegsInStep
    <2> QED BY <1>8, <2>1, <2>2, <2>3 DEF LegsAfter
  <1>13. MainFds' = MainFds /\ MainPorts' = MainPorts /\ sfd \notin MainFds \ {-1}
    <2>1. MainFds' = MainFds /\ MainPorts' = MainPorts
      BY <1>2 DEF MainFds, MainPorts
    <2>2. \A g \in MainFds \ {-1} : fdt[g].kind = "udp"
      <3>1. \A q \in MainPorts : socks[q] # -1 => fdt[socks[q]].kind = "udp"
        BY UdpKind DEF MainOwned
      <3> QED BY <3>1 DEF MainFds
    <2> QED BY <1>5, <2>1, <2>2
  <1>14. \A ch \in Chans', e \in Dir : ch.leg[e].sock > 0 =>
           \/ ch.callid = c /\ e = d /\ ch.leg[e] = leg
           \/ /\ ~ (ch.callid = c /\ e = d)
              /\ \E old \in Chans : old.callid = ch.callid /\ old.leg[e] = ch.leg[e]
    BY <1>8 DEF LegsAfter, NoLeg
  <1>15. \A old \in Chans, e \in Dir : old.leg[e].sock > 0 =>
            old.leg[e].sock \in Fd /\ old.leg[e].sock # sfd
    <2> SUFFICES ASSUME NEW old \in Chans, NEW e \in Dir, old.leg[e].sock > 0
                 PROVE  old.leg[e].sock \in Fd /\ old.leg[e].sock # sfd
      OBVIOUS
    <2>1. fdt[old.leg[e].sock].kind = "udp"
      BY UdpKind DEF SocketsOwned
    <2>2. old.leg[e].sock \in Fd
      BY <1>10 DEF Leg
    <2> QED BY <1>5, <2>1, <2>2
  <1>16. SocketsOwned'
    <2> SUFFICES ASSUME NEW ch \in Chans', NEW e \in Dir, ch.leg[e].sock > 0
                 PROVE  /\ fdt'[ch.leg[e].sock] = UdpEntry(ch.leg[e].port)
                        /\ ch.leg[e].sock \notin MainFds
                        /\ \A oc \in Chans', x \in Dir :
                             oc.leg[x].sock = ch.leg[e].sock => oc.callid = ch.callid /\ x = e
      BY <1>13 DEF SocketsOwned
    <2>1. CASE ch.callid = c /\ e = d /\ ch.leg[e] = leg
      <3>1. ch.leg[e].sock = sfd /\ sfd > 0 /\ ch.leg[e].port = p
        BY <1>6, <2>1
      <3>2. \A oc \in Chans', x \in Dir : oc.leg[x].sock = sfd => oc.callid = c /\ x = d
        BY <1>14, <1>15, <3>1
      <3> QED BY <1>5, <1>13, <2>1, <3>1, <3>2
    <2>2. ASSUME NEW old \in Chans, old.callid = ch.callid, old.leg[e] = ch.leg[e]
          PROVE  /\ fdt'[ch.leg[e].sock] = UdpEntry(ch.leg[e].port)
                 /\ ch.leg[e].sock \notin MainFds
                 /\ \A oc \in Chans', x \in Dir :
                      oc.leg[x].sock = ch.leg[e].sock => oc.callid = ch.callid /\ x = e
      <3>1. /\ fdt[ch.leg[e].sock] = UdpEntry(ch.leg[e].port)
            /\ ch.leg[e].sock \notin MainFds
            /\ \A oc \in Chans, x \in Dir :
                 oc.leg[x].sock = ch.leg[e].sock => oc.callid = ch.callid /\ x = e
        BY <2>2 DEF SocketsOwned
      <3>2. ch.leg[e].sock \in Fd /\ ch.leg[e].sock # sfd
        BY <1>15, <2>2
      <3>3. fdt'[ch.leg[e].sock] = fdt[ch.leg[e].sock]
        BY <1>5, <3>1, <3>2 DEF UdpEntry
      <3>4. \A oc \in Chans', x \in Dir :
              oc.leg[x].sock = ch.leg[e].sock => oc.callid = ch.callid /\ x = e
        BY <1>6, <1>14, <3>1, <3>2
      <3> QED BY <3>1, <3>3, <3>4
    <2> QED BY <1>14, <2>1, <2>2
  <1>17. FilesOwned'
    <2> SUFFICES ASSUME NEW ch \in Chans', NEW e \in Dir,
                        ch.leg[e].sock # 0, ch.leg[e].file # NULL
                 PROVE  /\ ch.leg[e].file \in Heap /\ heap'[ch.leg[e].file] # NULL
                        /\ heap'[ch.leg[e].file].stream = <<ch.callid, e>>
                        /\ fdt'[heap'[ch.leg[e].file].fd].kind = "file"
      BY DEF FilesOwned, IsOpen
    <2>1. CASE ch.callid = c /\ e = d
      BY <1>5, <1>8, <1>9, <2>1 DEF LegsAfter, FileEntry
    <2>2. ASSUME NEW old \in Chans, old.callid = ch.callid, old.leg[e] = ch.leg[e]
          PROVE  /\ ch.leg[e].file \in Heap /\ heap'[ch.leg[e].file] # NULL
                 /\ heap'[ch.leg[e].file].stream = <<ch.callid, e>>
                 /\ fdt'[heap'[ch.leg[e].file].fd].kind = "file"
      <3>1. /\ ch.leg[e].file \in Heap /\ heap[ch.leg[e].file] # NULL
            /\ heap[ch.leg[e].file].stream = <<ch.callid, e>>
            /\ fdt[heap[ch.leg[e].file].fd].kind = "file"
        BY <2>2 DEF FilesOwned, IsOpen
      <3>2. heap[ch.leg[e].file].fd \in Fd
        BY <3>1 DEF TypeOK, FilesTypeOK, File
      <3> QED BY <1>5, <1>9, <3>1, <3>2
    <2> QED BY <1>8, <2>1, <2>2 DEF LegsAfter, NoLeg
  <1>18. FilesDistinct'
    <2>1. \A x \in Heap : heap[x] # NULL => heap[x].fd \in Fd
      BY DEF TypeOK, FilesTypeOK, File
    <2>2. \A x \in Heap : heap'[x] # NULL =>
            \/ x = file /\ file # NULL /\ heap'[x].fd = ffd
            \/ heap[x] # NULL /\ heap'[x] = heap[x] /\ heap[x].fd # ffd
      <3> SUFFICES ASSUME NEW x \in Heap, heap'[x] # NULL
                   PROVE  \/ x = file /\ file # NULL /\ heap'[x].fd = ffd
                          \/ heap[x] # NULL /\ heap'[x] = heap[x] /\ heap[x].fd # ffd
        OBVIOUS
      <3>1. CASE heap[x] # NULL
        <4>1. fdt[heap[x].fd].kind = "file" /\ heap[x].fd \in Fd
          BY <2>1, <3>1 DEF FilesDistinct
        <4>2. heap[x].fd # ffd
          BY <1>5, <4>1 DEF Fd
        <4> QED BY <1>9, <3>1, <4>2
      <3>2. CASE heap[x] = NULL
        <4>1. x = file /\ x # NULL
          BY <1>9, <3>2, ConstantsAssumption
        <4> QED BY <1>9, <4>1
      <3> QED BY <3>1, <3>2
    <2>3. \A x \in Heap : heap'[x] # NULL => fdt'[heap'[x].fd].kind = "file"
      BY <1>5, <1>9, <2>1, <2>2 DEF FilesDistinct, FileEntry
    <2> QED BY <2>2, <2>3 DEF FilesDistinct
  <1>19. MainOwned' /\ StdinOpen' /\ QueuesOnSockets'
    <2>1. MainOwned'
      <3>1. \A q \in MainPorts : socks[q] # -1 => socks[q] \in Fd
        BY DEF TypeOK, StarterTypeOK, MainPorts
      <3> QED BY <1>2, <1>5, <1>13, <3>1 DEF MainOwned, UdpEntry
    <2>2. StdinOpen'
      BY <1>5, ConstantsAssumption DEF StdinOpen, Fd
    <2>3. QueuesOnSockets'
      BY <1>4, <1>5 DEF QueuesOnSockets
    <2> QED BY <2>1, <2>2, <2>3
  <1> QED BY <1>2, <1>4, <1>12, <1>16, <1>17, <1>18, <1>19

------------------------------------------------------------------------------
(* A BYE.                                                                   *)

LEMMA ByeIInv ==
  ASSUME dups' = 0, OwnedInv, TypeOK', OneChannelPerCall',
         NEW m \in net, update_bye_channel(m)
  PROVE  OwnedInv'
  <1> USE DEF OwnedInv
  <1> DEFINE c == m.call
             d == SubjectDir(m)
             i == find_channel_by_callid(c)
             leg == g_chanels[i].leg[d]
             file == leg.file
             S == {leg.sock} \cup {heap[file].fd}
  <1>1. Receive(m) /\ m.method = "BYE"
    BY DEF update_bye_channel
  <1>2. /\ c \in Calls /\ d \in Dir
        /\ UNCHANGED <<main, socks>>
        /\ NetSent' /\ PendingBye(c, d) /\ ~ PendingBye(c, d)'
        /\ \A x \in Calls, e \in Dir :
             /\ PendingInvite(x, e)' => PendingInvite(x, e)
             /\ PendingBye(x, e)' => PendingBye(x, e)
    BY <1>1, ReceivedOnce
  <1>3. i \in DOMAIN g_chanels /\ g_chanels[i].callid = c /\ g_chanels[i] \in Chans
    BY FindByCallid DEF TypeOK, ServerTypeOK, update_bye_channel, Chans
  <1>4. file # NULL
    BY DEF update_bye_channel, MayReturn
  <1>5. /\ leg.sock # 0 /\ IsOpen(file)
        /\ heap[file].stream = <<c, d>>
        /\ fdt[heap[file].fd].kind = "file"
    BY <1>2, <1>3, <1>4, WaitingFileOpen
  <1>6. /\ CloseFds(S)
        /\ heap' = [heap EXCEPT ![file] = NULL]
        /\ g_chanels' = Reset(i, d)
        /\ UNCHANGED <<up, fault>> /\ up
    BY <1>1, <1>5 DEF update_bye_channel, Receive
  <1>7. leg \in Leg /\ file \in Heap /\ heap[file] # NULL /\ heap[file].fd \in Fd
    <2>1. leg \in Leg
      BY <1>2, <1>3, ChansType DEF TypeOK, ServerTypeOK
    <2>2. file \in Heap /\ heap[file] # NULL
      BY <1>5 DEF IsOpen
    <2> QED BY <2>1, <2>2 DEF TypeOK, FilesTypeOK, File
  <1>8. LegsAfter(c, d, ClosedLeg(leg))
    BY <1>2, <1>3, <1>6, ResetLegs DEF TypeOK, ServerTypeOK
  <1>9. /\ leg.sock \in Fd \cup {-1} /\ leg.sock # 0
        /\ leg.sock > 0 => /\ fdt[leg.sock].kind = "udp"
                           /\ leg.sock \notin MainFds
                           /\ \A oc \in Chans, x \in Dir :
                                oc.leg[x].sock = leg.sock => oc.callid = c /\ x = d
    <2>1. leg.sock \in Fd \cup {-1}
      <3> HIDE DEF leg
      <3> QED BY <1>7 DEF Leg
    <2>2. leg.sock > 0 => /\ fdt[leg.sock] = UdpEntry(leg.port)
                          /\ leg.sock \notin MainFds
                          /\ \A oc \in Chans, x \in Dir :
                               oc.leg[x].sock = leg.sock =>
                                 oc.callid = g_chanels[i].callid /\ x = d
      <3> HIDE DEF i
      <3> QED BY <1>2, <1>3 DEF SocketsOwned
    <2> QED BY <1>3, <1>5, <2>1, <2>2, UdpKind
  <1>10. ClosedLeg(leg).sock = 0
    BY DEF ClosedLeg
  <1> HIDE DEF c, d, i, leg, file
  <1>11. /\ \A g \in Fd \ S : fdt'[g] = fdt[g] /\ rq'[g] = rq[g]
         /\ \A g \in Fd \cap S : rq'[g] = {}
    BY <1>6 DEF CloseFds
  <1>12. \A a \in Heap : heap'[a] # NULL => a # file /\ heap[a] # NULL /\ heap'[a] = heap[a]
    BY <1>6, <1>7 DEF TypeOK, FilesTypeOK
  <1>13. \A a \in Heap : heap[a] # NULL /\ a # file => heap'[a] = heap[a]
    BY <1>6 DEF TypeOK, FilesTypeOK
  <1>14. \A x \in Chans : x.callid \in Calls /\ \A e \in Dir : x.leg[e] \in Leg
    BY ChansType DEF TypeOK, ServerTypeOK
  <1>15. \A a \in Heap : heap[a] # NULL /\ a # file => heap[a].fd \in Fd \ S
    <2> SUFFICES ASSUME NEW a \in Heap, heap[a] # NULL, a # file
                 PROVE  heap[a].fd \in Fd \ S
      OBVIOUS
    <2>1. heap[a].fd \in Fd
      BY DEF TypeOK, FilesTypeOK, File
    <2>2. fdt[heap[a].fd].kind = "file" /\ heap[a].fd # heap[file].fd
      BY <1>7 DEF FilesDistinct
    <2>3. heap[a].fd # leg.sock
      BY <1>9, <2>1, <2>2 DEF Fd
    <2> QED BY <2>1, <2>2, <2>3
  <1>16. \A old \in Chans, e \in Dir : old.leg[e].sock > 0 /\ ~ (old.callid = c /\ e = d) =>
           old.leg[e].sock \in Fd \ S
    <2> SUFFICES ASSUME NEW old \in Chans, NEW e \in Dir,
                        old.leg[e].sock > 0, ~ (old.callid = c /\ e = d)
                 PROVE  old.leg[e].sock \in Fd \ S
      OBVIOUS
    <2>1. fdt[old.leg[e].sock].kind = "udp"
      BY UdpKind DEF SocketsOwned
    <2>2. old.leg[e].sock \in Fd
      BY <1>14 DEF Leg
    <2>3. old.leg[e].sock # leg.sock
      BY <1>9
    <2> QED BY <1>5, <2>1, <2>2, <2>3
  <1>17. LegsInStep'
    <2> SUFFICES ASSUME NEW ch \in Chans', NEW e \in Dir
                 PROVE  /\ PendingInvite(ch.callid, e)' => ch.leg[e] = NoLeg
                        /\ PendingBye(ch.callid, e)' /\ ch.leg[e].sock = 0 => ch.leg[e].file = NULL
      BY DEF LegsInStep
    <2>1. CASE ch.callid = c /\ e = d
      <3>1. ~ PendingInvite(c, d)
        <4>1. PendingInvite(c, d) => leg = NoLeg
          BY <1>2, <1>3 DEF LegsInStep, leg
        <4> QED BY <1>9, <4>1 DEF NoLeg
      <3> QED BY <1>2, <2>1, <3>1
    <2>2. CASE ch.leg[e] = NoLeg
      BY <2>2 DEF NoLeg
    <2>3. ASSUME NEW old \in Chans, old.callid = ch.callid, old.leg[e] = ch.leg[e]
          PROVE  /\ PendingInvite(ch.callid, e)' => ch.leg[e] = NoLeg
                 /\ PendingBye(ch.callid, e)' /\ ch.leg[e].sock = 0 => ch.leg[e].file = NULL
      BY <1>2, <1>14, <2>3 DEF LegsInStep
    <2> QED BY <1>8, <2>1, <2>2, <2>3 DEF LegsAfter
  <1>18. \A ch \in Chans', e \in Dir : ch.leg[e].sock # 0 =>
           /\ ~ (ch.callid = c /\ e = d)
           /\ \E old \in Chans : old.callid = ch.callid /\ old.leg[e] = ch.leg[e]
    BY <1>8, <1>10 DEF LegsAfter, NoLeg
  <1>19. MainFds' = MainFds /\ MainPorts' = MainPorts
    BY <1>2 DEF MainFds, MainPorts
  <1>20. SocketsOwned'
    <2> SUFFICES ASSUME NEW ch \in Chans', NEW e \in Dir, ch.leg[e].sock > 0
                 PROVE  /\ fdt'[ch.leg[e].sock] = UdpEntry(ch.leg[e].port)
                        /\ ch.leg[e].sock \notin MainFds
                        /\ \A oc \in Chans', x \in Dir :
                             oc.leg[x].sock = ch.leg[e].sock => oc.callid = ch.callid /\ x = e
      BY <1>19 DEF SocketsOwned
    <2>1. PICK old \in Chans : old.callid = ch.callid /\ old.leg[e] = ch.leg[e]
      BY <1>18
    <2>2. /\ fdt[ch.leg[e].sock] = UdpEntry(ch.leg[e].port)
          /\ ch.leg[e].sock \notin MainFds
          /\ \A oc \in Chans, x \in Dir :
               oc.leg[x].sock = ch.leg[e].sock => oc.callid = ch.callid /\ x = e
      BY <2>1 DEF SocketsOwned
    <2>3. ch.leg[e].sock \in Fd \ S
      BY <1>16, <1>18, <2>1
    <2> QED BY <1>11, <1>18, <2>2, <2>3
  <1>21. FilesOwned'
    <2> SUFFICES ASSUME NEW ch \in Chans', NEW e \in Dir,
                        ch.leg[e].sock # 0, ch.leg[e].file # NULL
                 PROVE  /\ ch.leg[e].file \in Heap /\ heap'[ch.leg[e].file] # NULL
                        /\ heap'[ch.leg[e].file].stream = <<ch.callid, e>>
                        /\ fdt'[heap'[ch.leg[e].file].fd].kind = "file"
      BY DEF FilesOwned, IsOpen
    <2>1. PICK old \in Chans : old.callid = ch.callid /\ old.leg[e] = ch.leg[e]
      BY <1>18
    <2>2. /\ ch.leg[e].file \in Heap /\ heap[ch.leg[e].file] # NULL
          /\ heap[ch.leg[e].file].stream = <<ch.callid, e>>
          /\ fdt[heap[ch.leg[e].file].fd].kind = "file"
      BY <2>1 DEF FilesOwned, IsOpen
    <2>3. ch.leg[e].file # file
      BY <1>5, <1>18, <2>2
    <2> QED BY <1>11, <1>13, <1>15, <2>2, <2>3
  <1>22. FilesDistinct'
    BY <1>11, <1>12, <1>15 DEF FilesDistinct
  <1>23. MainOwned'
    <2>1. \A q \in MainPorts : socks[q] # -1 => socks[q] \in Fd \ S
      <3> SUFFICES ASSUME NEW q \in MainPorts, socks[q] # -1
                   PROVE  socks[q] \in Fd \ S
        OBVIOUS
      <3>1. socks[q] \in Fd
        BY DEF TypeOK, StarterTypeOK, MainPorts
      <3>2. fdt[socks[q]].kind = "udp" /\ socks[q] \in MainFds
        BY UdpKind DEF MainOwned, MainFds
      <3>3. socks[q] # leg.sock
        BY <1>9, <3>1, <3>2 DEF Fd
      <3> QED BY <1>5, <3>1, <3>2, <3>3
    <2> QED BY <1>2, <1>11, <1>19, <2>1 DEF MainOwned
  <1>24. StdinOpen'
    <2>1. 0 \in Fd \ S
      BY <1>5, <1>9, ConstantsAssumption DEF StdinOpen, Fd
    <2> QED BY <1>11, <2>1 DEF StdinOpen
  <1>25. QueuesOnSockets'
    BY <1>11 DEF QueuesOnSockets
  <1> QED BY <1>2, <1>6, <1>17, <1>20, <1>21, <1>22, <1>23, <1>24, <1>25

------------------------------------------------------------------------------
(* The other steps.                                                         *)

\* A step that leaves list, descriptors and files alone.
LEMMA QuietStep ==
  ASSUME OwnedInv, TypeOK', OneChannelPerCall', NetSent', LegsInStep', QueuesOnSockets',
         UNCHANGED <<g_chanels, fdt, heap, socks, MainPorts>>,
         UNCHANGED <<up, fault>> \/ fault' = "null"
  PROVE  OwnedInv'
  <1>1. Owned'
    BY OwnedFrame DEF OwnedInv, Owned
  <1>2. (up \/ fault = "null")'
    BY DEF OwnedInv
  <1> QED BY <1>1, <1>2 DEF OwnedInv, Owned

LEMMA OtherByesIInv ==
  ASSUME dups' = 0, OwnedInv, TypeOK', OneChannelPerCall',
         NEW m \in net, ByeFaults(m) \/ ByeUnknown(m)
  PROVE  OwnedInv'
  <1> USE DEF OwnedInv
  <1> DEFINE c == m.call
             d == SubjectDir(m)
             i == find_channel_by_callid(c)
  <1>1. Receive(m) /\ m.method = "BYE"
    BY DEF ByeFaults, ByeUnknown
  <1>2. /\ net' \subseteq net /\ UNCHANGED <<call, fsPort, main, socks>>
        /\ c \in Calls /\ d \in Dir /\ PendingBye(c, d)
    BY <1>1, ReceivedOnce
  <1>3. UNCHANGED <<g_chanels, fdt, rq, heap>>
    BY DEF ByeFaults, ByeUnknown, server, kernel, files
  <1>4. NetSent' /\ LegsInStep'
    BY <1>2, <1>3, NetFrame
  <1>5. QueuesOnSockets' /\ MainPorts' = MainPorts
    BY <1>2, <1>3 DEF QueuesOnSockets, MainPorts
  <1>6. CASE ByeUnknown(m)
    BY <1>2, <1>3, <1>4, <1>5, <1>6, QuietStep DEF ByeUnknown, server
  <1>7. CASE ByeFaults(m)
    <2>1. i \in DOMAIN g_chanels /\ g_chanels[i].callid = c /\ g_chanels[i] \in Chans
      BY <1>7, FindByCallid DEF TypeOK, ServerTypeOK, ByeFaults, Chans
    <2>2. ~ IsOpen(g_chanels[i].leg[d].file)
      BY <1>7 DEF ByeFaults, MayFault
    <2> HIDE DEF i, c, d
    <2>3. g_chanels[i].leg[d].file = NULL
      BY <1>2, <2>1, <2>2, WaitingFileOpen
    <2>4. fault' = "null"
      BY <1>7, <2>3 DEF ByeFaults, Cause, i, c, d
    <2> QED BY <1>2, <1>3, <1>4, <1>5, <2>4, QuietStep
  <1> QED BY <1>6, <1>7

\* A channel found by a socket has it in one of its directions.
LEMMA FoundSock ==
  ASSUME g_chanels \in Seq(Channel), NEW f, find_channel_by_sock(f) # 0
  PROVE  \E d \in Dir : g_chanels[find_channel_by_sock(f)].leg[d].sock = f
  <1> DEFINE S == {j \in DOMAIN g_chanels : \E d \in Dir : g_chanels[j].leg[d].sock = f}
  <1>1. S \in SUBSET Nat
    OBVIOUS
  <1>2. find_channel_by_sock(f) = FirstOf(S)
    BY DEF find_channel_by_sock
  <1>3. S # {}
    BY <1>2 DEF FirstOf
  <1>4. FirstOf(S) \in S
    BY <1>1, <1>3, FirstOfLeast
  <1> QED BY <1>2, <1>4

LEMMA RtpIInv ==
  ASSUME OwnedInv, TypeOK', OneChannelPerCall',
         NEW f \in Fd, NEW s \in Stream, do_rtp(f, s)
  PROVE  OwnedInv'
  <1> USE DEF OwnedInv
  <1>1. /\ UNCHANGED <<g_chanels, fdt, heap, main, socks, call, fsPort, net>>
        /\ s \in rq[f]
        /\ \E rest \in {rq[f], rq[f] \ {s}} : rq' = [rq EXCEPT ![f] = rest]
    BY DEF do_rtp, RecordRtp, RtpFaults, IgnoreRtp, ReadRtp, starter, caller, network
  <1>2. NetSent' /\ LegsInStep'
    BY <1>1, NetFrame
  <1>3. \A g \in Fd : rq'[g] \subseteq rq[g]
    BY <1>1 DEF TypeOK, KernelTypeOK
  <1>4. QueuesOnSockets' /\ MainPorts' = MainPorts
    BY <1>1, <1>3 DEF QueuesOnSockets, MainPorts
  <1>5. CASE UNCHANGED <<up, fault>>
    BY <1>1, <1>2, <1>4, <1>5, QuietStep
  <1>6. CASE RtpFaults(f, s)
    <2> DEFINE i == find_channel_by_sock(f)
    <2>1. i # 0 /\ MayFault(FileFor(f))
      BY <1>6 DEF RtpFaults
    <2>2. g_chanels[i] \in Chans
      BY <2>1, FindBySock DEF TypeOK, ServerTypeOK, Chans
    <2>3. \E d \in Dir : g_chanels[i].leg[d].sock = f
      BY <2>1, FoundSock DEF TypeOK, ServerTypeOK
    <2>4. \E d \in Dir : g_chanels[i].leg[d].sock = f /\ FileFor(f) = g_chanels[i].leg[d].file
      <3>1. FileFor(f) = IF g_chanels[i].leg["tx"].sock = f
                        THEN g_chanels[i].leg["tx"].file ELSE g_chanels[i].leg["rx"].file
        BY DEF FileFor
      <3> HIDE DEF i
      <3> QED BY <2>3, <3>1 DEF Dir
    <2>5. f # 0
      BY <1>1 DEF QueuesOnSockets, StdinOpen
    <2> HIDE DEF i
    <2>6. FileFor(f) = NULL
      BY <2>1, <2>2, <2>4, <2>5 DEF MayFault, FilesOwned
    <2>7. fault' = "null"
      BY <1>6, <2>6 DEF RtpFaults, Cause
    <2> QED BY <1>1, <1>2, <1>4, <2>7, QuietStep
  <1> QED BY <1>5, <1>6 DEF do_rtp, RecordRtp, IgnoreRtp

------------------------------------------------------------------------------
(* main().                                                                  *)

\* The FILEs of the channels are still open when their descriptors are untouched.
LEMMA FilesKept ==
  ASSUME FilesOwned, UNCHANGED <<g_chanels, heap>>,
         \A a \in Heap : heap[a] # NULL => fdt'[heap[a].fd] = fdt[heap[a].fd]
  PROVE  FilesOwned'
  <1> SUFFICES ASSUME NEW ch \in Chans', NEW d \in Dir,
                      ch.leg[d].sock # 0, ch.leg[d].file # NULL
               PROVE  /\ IsOpen(ch.leg[d].file)'
                      /\ heap'[ch.leg[d].file].stream = <<ch.callid, d>>
                      /\ fdt'[heap'[ch.leg[d].file].fd].kind = "file"
    BY DEF FilesOwned
  <1>1. ch \in Chans
    BY DEF Chans
  <1>2. /\ ch.leg[d].file \in Heap /\ heap[ch.leg[d].file] # NULL
        /\ heap[ch.leg[d].file].stream = <<ch.callid, d>>
        /\ fdt[heap[ch.leg[d].file].fd].kind = "file"
    BY <1>1 DEF FilesOwned, IsOpen
  <1> QED BY <1>2 DEF IsOpen

\* A descriptor taken or closed by main() was nobody's, or its own.
LEMMA MainOpenIInv ==
  ASSUME OwnedInv, TypeOK', OneChannelPerCall', NEW p \in StartupPorts, MainOpen(p)
  PROVE  OwnedInv'
  <1> USE DEF OwnedInv
  <1> DEFINE f == AllocFd(fdt)
             s == buildsocket(f, p)
  <1>1. /\ UNCHANGED <<g_chanels, up, fault, rq, heap, call, fsPort, net>>
        /\ fdt' = Install(fdt, f, UdpEntry(p))
        /\ socks' = [socks EXCEPT ![p] = s]
        /\ main' = [main EXCEPT !.todo = @ \ {p}]
        /\ main.phase = "open" /\ p \in main.todo
    BY DEF MainOpen, server, files, caller, network
  <1>2. /\ \A g \in Fd : fdt[g].kind # "free" => fdt'[g] = fdt[g]
        /\ s = -1 \/ (s \in Fd /\ fdt[s].kind = "free" /\ fdt'[s] = UdpEntry(p))
    <2>1. f = -1 \/ (f \in Fd /\ fdt[f].kind = "free")
      BY AllocFree
    <2>2. s = -1 \/ s = f
      BY DEF buildsocket
    <2> HIDE DEF f, s
    <2>3. f # -1 => f \in Fd /\ fdt' = [fdt EXCEPT ![f] = UdpEntry(p)]
      BY <1>1, <2>1 DEF Install
    <2>4. f = -1 => fdt' = fdt
      BY <1>1 DEF Install
    <2>5. DOMAIN fdt = Fd
      BY DEF TypeOK, KernelTypeOK
    <2> QED BY <2>1, <2>2, <2>3, <2>4, <2>5
  <1> HIDE DEF f, s
  <1>3. MainPorts' = MainPorts \cup {p} /\ p \notin MainPorts
    BY <1>1 DEF MainPorts, TypeOK, StarterTypeOK
  <1>4. \A q \in MainPorts : socks'[q] = socks[q] /\ q \in StartupPorts
    BY <1>1, <1>3 DEF TypeOK, StarterTypeOK, MainPorts
  <1>5. socks'[p] = s
    BY <1>1 DEF TypeOK, StarterTypeOK
  <1>6. MainFds' \subseteq MainFds \cup {s}
    BY <1>3, <1>4, <1>5 DEF MainFds
  <1>7. NetSent' /\ LegsInStep'
    BY <1>1, NetFrame
  <1>8. Chans' = Chans
    BY <1>1 DEF Chans
  <1>9. SocketsOwned'
    <2> SUFFICES ASSUME NEW ch \in Chans, NEW e \in Dir, ch.leg[e].sock > 0
                 PROVE  /\ fdt'[ch.leg[e].sock] = UdpEntry(ch.leg[e].port)
                        /\ ch.leg[e].sock \notin MainFds'
                        /\ \A oc \in Chans, x \in Dir :
                             oc.leg[x].sock = ch.leg[e].sock => oc.callid = ch.callid /\ x = e
      BY <1>8 DEF SocketsOwned
    <2>1. /\ fdt[ch.leg[e].sock] = UdpEntry(ch.leg[e].port)
          /\ ch.leg[e].sock \notin MainFds
          /\ \A oc \in Chans, x \in Dir :
               oc.leg[x].sock = ch.leg[e].sock => oc.callid = ch.callid /\ x = e
      BY DEF SocketsOwned
    <2>2. ch.leg[e].sock \in Fd
      <3>1. ch.leg[e] \in Leg
        BY ChansType DEF TypeOK, ServerTypeOK
      <3> QED BY <3>1 DEF Leg
    <2>3. fdt[ch.leg[e].sock].kind = "udp"
      BY <2>1, UdpKind
    <2> QED BY <1>2, <1>6, <2>1, <2>2, <2>3
  <1>10. \A a \in Heap : heap[a] # NULL => heap[a].fd \in Fd
    BY DEF TypeOK, FilesTypeOK, File
  <1>11. FilesOwned'
    <2>1. \A a \in Heap : heap[a] # NULL => fdt'[heap[a].fd] = fdt[heap[a].fd]
      BY <1>2, <1>10 DEF FilesDistinct
    <2> QED BY <1>1, <2>1, FilesKept
  <1>12. FilesDistinct' /\ StdinOpen' /\ QueuesOnSockets'
    <2>1. FilesDistinct'
      BY <1>1, <1>2, <1>10 DEF FilesDistinct
    <2>2. StdinOpen'
      BY <1>2, ConstantsAssumption DEF StdinOpen, Fd
    <2>3. QueuesOnSockets'
      BY <1>1, <1>2 DEF QueuesOnSockets
    <2> QED BY <2>1, <2>2, <2>3
  <1>13. MainOwned'
    <2>1. \A q \in MainPorts : socks[q] # -1 =>
            /\ fdt'[socks[q]] = UdpEntry(q)
            /\ socks[q] # s
            /\ \A r \in MainPorts : socks[r] = socks[q] => q = r
      <3> SUFFICES ASSUME NEW q \in MainPorts, socks[q] # -1
                   PROVE  /\ fdt'[socks[q]] = UdpEntry(q)
                          /\ socks[q] # s
                          /\ \A r \in MainPorts : socks[r] = socks[q] => q = r
        OBVIOUS
      <3>1. socks[q] \in Fd
        BY <1>4 DEF TypeOK, StarterTypeOK
      <3>2. /\ fdt[socks[q]] = UdpEntry(q)
            /\ \A r \in MainPorts : socks[r] = socks[q] => q = r
        BY DEF MainOwned
      <3>3. fdt[socks[q]].kind = "udp"
        BY <3>2, UdpKind
      <3> QED BY <1>2, <3>1, <3>2, <3>3
    <2> QED BY <1>2, <1>3, <1>4, <1>5, <2>1 DEF MainOwned
  <1> QED BY <1>1, <1>7, <1>9, <1>11, <1>12, <1>13

LEMMA MainCloseIInv ==
  ASSUME OwnedInv, TypeOK', OneChannelPerCall', NEW p \in StartupPorts, MainClose(p)
  PROVE  OwnedInv'
  <1> USE DEF OwnedInv
  <1> DEFINE s == socks[p]
  <1>1. /\ UNCHANGED <<g_chanels, up, fault, heap, socks, call, fsPort, net>>
        /\ CloseFds({s})
        /\ main' = [main EXCEPT !.todo = @ \ {p}]
        /\ main.phase = "close" /\ p \in main.todo
    BY DEF MainClose, server, files, caller, network
  <1>2. /\ \A g \in Fd \ {s} : fdt'[g] = fdt[g] /\ rq'[g] = rq[g]
        /\ s \in Fd => rq'[s] = {}
    BY <1>1 DEF CloseFds
  <1>3. MainPorts = main.todo /\ MainPorts' = main.todo \ {p}
    BY <1>1 DEF MainPorts, TypeOK, StarterTypeOK
  <1>4. MainFds' \subseteq MainFds /\ s \in MainFds
    BY <1>1, <1>3 DEF MainFds
  <1>5. s = -1 \/ (s \in Fd /\ fdt[s].kind = "udp")
    <2>1. s \in Fd \cup {-1}
      BY DEF TypeOK, StarterTypeOK
    <2>2. s # -1 => fdt[s] = UdpEntry(p)
      BY <1>1, <1>3 DEF MainOwned
    <2> QED BY <2>1, <2>2, UdpKind
  <1> HIDE DEF s
  <1>6. NetSent' /\ LegsInStep'
    <2>1. net' \subseteq net
      BY <1>1
    <2> QED BY <1>1, <2>1, NetFrame
  <1>7. Chans' = Chans
    BY <1>1 DEF Chans
  <1>8. \A ch \in Chans, e \in Dir : ch.leg[e].sock > 0 => ch.leg[e].sock \in Fd \ {s}
    <2> SUFFICES ASSUME NEW ch \in Chans, NEW e \in Dir, ch.leg[e].sock > 0
                 PROVE  ch.leg[e].sock \in Fd \ {s}
      OBVIOUS
    <2>1. ch.leg[e] \in Leg
      BY ChansType DEF TypeOK, ServerTypeOK
    <2>2. ch.leg[e].sock \notin MainFds
      BY DEF SocketsOwned
    <2> QED BY <1>4, <2>1, <2>2 DEF Leg
  <1>9. SocketsOwned'
    BY <1>2, <1>4, <1>7, <1>8 DEF SocketsOwned
  <1>10. \A a \in Heap : heap[a] # NULL => heap[a].fd \in Fd /\ heap[a].fd # s
    <2>1. \A a \in Heap : heap[a] # NULL => heap[a].fd \in Fd
      BY DEF TypeOK, FilesTypeOK, File
    <2> QED BY <1>5, <2>1 DEF FilesDistinct, Fd
  <1>11. FilesOwned'
    <2>1. \A a \in Heap : heap[a] # NULL => fdt'[heap[a].fd] = fdt[heap[a].fd]
      BY <1>2, <1>10
    <2> QED BY <1>1, <2>1, FilesKept
  <1>12. FilesDistinct'
    BY <1>1, <1>2, <1>10 DEF FilesDistinct
  <1>13. StdinOpen'
    BY <1>2, <1>5, ConstantsAssumption DEF StdinOpen, Fd
  <1>14. QueuesOnSockets'
    BY <1>2 DEF QueuesOnSockets
  <1>15. MainOwned'
    <2>1. \A q \in MainPorts' : socks[q] # -1 => socks[q] \in Fd /\ socks[q] # s
      <3> SUFFICES ASSUME NEW q \in MainPorts', socks[q] # -1
                   PROVE  socks[q] \in Fd /\ socks[q] # s
        OBVIOUS
      <3>1. q \in MainPorts /\ q # p /\ q \in StartupPorts
        BY <1>3 DEF TypeOK, StarterTypeOK
      <3>2. p \in MainPorts
        BY <1>1, <1>3
      <3>3. socks[q] # socks[p]
        BY <3>1, <3>2 DEF MainOwned
      <3> QED BY <3>1, <3>3 DEF TypeOK, StarterTypeOK, s
    <2> QED BY <1>1, <1>2, <1>3, <2>1 DEF MainOwned
  <1> QED BY <1>1, <1>6, <1>9, <1>11, <1>12, <1>13, <1>14, <1>15

\* The end of an inner loop opens and closes nothing.
LEMMA TurnKeepsPorts ==
  ASSUME TypeOK, MainTurn
  PROVE  MainPorts' = MainPorts
  <1> USE DEF MainPorts
  <1>1. main.todo = {} /\ main.phase \in {"open", "close", "sleep"}
    BY DEF MainTurn, TypeOK, StarterTypeOK
  <1>2. CASE main.phase = "close" /\ main' = AfterClose(main)
    BY <1>1, <1>2 DEF AfterClose
  <1>3. CASE main.phase = "open" /\ main' = [main EXCEPT !.phase = "close", !.todo = StartupPorts]
    BY <1>1, <1>3 DEF TypeOK, StarterTypeOK
  <1>4. CASE main.phase = "open" /\ main' = [main EXCEPT !.phase = "sleep"]
    BY <1>1, <1>4 DEF TypeOK, StarterTypeOK
  <1> QED BY <1>2, <1>3, <1>4 DEF MainTurn

LEMMA MainTurnIInv ==
  ASSUME OwnedInv, TypeOK', OneChannelPerCall', MainTurn
  PROVE  OwnedInv'
  <1> USE DEF OwnedInv
  <1>1. UNCHANGED <<g_chanels, up, fault, fdt, rq, heap, socks, call, fsPort, net>>
    BY DEF MainTurn, server, kernel, files, caller, network
  <1>2. MainPorts' = MainPorts
    BY TurnKeepsPorts
  <1>3. NetSent' /\ LegsInStep'
    BY <1>1, NetFrame
  <1>4. QueuesOnSockets'
    BY <1>1 DEF QueuesOnSockets
  <1> QED BY <1>1, <1>2, <1>3, <1>4, QuietStep

------------------------------------------------------------------------------
LEMMA DupsGrow ==
  ASSUME TypeOK, [Next]_vars
  PROVE  dups' = 0 => dups = 0
  <1>1. dups \in Nat
    BY ConstantsAssumption DEF TypeOK, NetworkTypeOK
  <1>2. CASE UNCHANGED vars
    BY <1>2 DEF vars
  <1>3. CASE Environment
    BY <1>3 DEF Environment, StartCall, HangUp, SendRtp, EndFlight, Lose, ArriveRtp, network
  <1>4. ASSUME NEW m \in net, do_sip_message(m)
        PROVE  dups' = 0 => dups = 0
    <2>1. Receive(m)
      BY <1>4 DEF do_sip_message, update_invite_channel, update_bye_channel, ByeFaults, ByeUnknown
    <2> QED BY <1>1, <2>1 DEF Receive
  <1>5. ASSUME NEW f \in Fd, NEW s \in Stream, do_rtp(f, s)
        PROVE  dups' = dups
    BY <1>5 DEF do_rtp, RecordRtp, RtpFaults, IgnoreRtp, ReadRtp, network
  <1>6. CASE main_thread
    BY <1>6 DEF main_thread, MainOpen, MainClose, MainTurn, network
  <1> QED BY <1>2, <1>3, <1>4, <1>5, <1>6 DEF Next, epoll_thread

LEMMA OwnedInductive ==
  ASSUME dups' = 0, OwnedInv, [Next]_vars
  PROVE  OwnedInv'
  <1>1. TypeOK' /\ OneChannelPerCall'
    BY TypeInductive, OneChannelInductive DEF OwnedInv
  <1>2. CASE UNCHANGED vars
    <2>1. UNCHANGED <<g_chanels, up, fault, fdt, rq, heap, main, socks, call, fsPort, net>>
      BY <1>2 DEF vars
    <2>2. NetSent' /\ LegsInStep'
      BY <2>1, NetFrame DEF OwnedInv
    <2>3. QueuesOnSockets' /\ MainPorts' = MainPorts
      BY <2>1 DEF OwnedInv, QueuesOnSockets, MainPorts
    <2> QED BY <1>1, <2>1, <2>2, <2>3, QuietStep
  <1>3. CASE Environment
    BY <1>1, <1>3, EnvironmentIInv
  <1>4. ASSUME NEW m \in net, do_sip_message(m)
        PROVE  OwnedInv'
    BY <1>1, <1>4, InviteIInv, ByeIInv, OtherByesIInv DEF do_sip_message
  <1>5. ASSUME NEW f \in Fd, NEW s \in Stream, do_rtp(f, s)
        PROVE  OwnedInv'
    BY <1>1, <1>5, RtpIInv
  <1>6. CASE main_thread
    BY <1>1, <1>6, MainOpenIInv, MainCloseIInv, MainTurnIInv DEF main_thread
  <1> QED BY <1>2, <1>3, <1>4, <1>5, <1>6 DEF Next, epoll_thread

LEMMA IInvInductive ==
  /\ Init => IInv
  /\ IInv /\ [Next]_vars => IInv'
  <1>1. Init => IInv
    BY InitIInv, TypeInductive, OneChannelInductive DEF IInv
  <1>2. ASSUME IInv, [Next]_vars
        PROVE  IInv'
    <2>1. TypeOK' /\ OneChannelPerCall'
      BY <1>2, TypeInductive, OneChannelInductive DEF IInv
    <2>2. dups' = 0 /\ RxNamed = {} => OwnedInv'
      BY <1>2, DupsGrow, OwnedInductive DEF IInv
    <2> QED BY <2>1, <2>2 DEF IInv
  <1> QED BY <1>1, <1>2

\* The conjunction that makes the ownership of descriptors inductive: it holds
\* until a message is delivered twice, when no recorded name has the letters RX
\* in it, and its first two parts always hold.
THEOREM Invariant == Spec => []IInv
  BY IInvInductive, PTL DEF Spec

\* For any number of calls, ports, descriptors and rounds of main(), whatever is
\* lost, late or out of order, and whatever socket(), bind() and fopen() answer:
\* until a message is duplicated, each direction alone holds the socket and the
\* FILE its INVITE opened, until its BYE.
THEOREM Ownership ==
  ASSUME RxNamed = {}
  PROVE  Spec => []DescriptorOwnership
  <1>1. IInv => DescriptorOwnership
    BY DEF IInv, OwnedInv, DescriptorOwnership
  <1> QED BY <1>1, Invariant, PTL

\* Until a message is duplicated, the pointer fclose or fwrite falls over is NULL:
\* its direction has had no INVITE, or its FILE could not be opened.  It is never
\* a FILE the server has closed itself, whatever is lost, late or out of order.
THEOREM FaultsTraced ==
  ASSUME RxNamed = {}
  PROVE  Spec => []FaultsOnNullOnly
  <1>1. IInv => FaultsOnNullOnly
    BY DEF IInv, OwnedInv, FaultsOnNullOnly
  <1> QED BY <1>1, Invariant, PTL
==============================================================================
