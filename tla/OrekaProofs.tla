----------------------------- MODULE OrekaProofs -----------------------------
(***************************************************************************)
(* Proofs about OrekaServer.                                               *)
(***************************************************************************)
EXTENDS OrekaServer, TLAPS, WellFoundedInduction, SequenceTheorems

Kind == {"free", "std", "udp", "file"}
Table == [Fd -> [kind : Kind, port : Ports \cup {NoPort}]]

------------------------------------------------------------------------------
(* What the operators return.                                               *)

\* FirstOf is the least element of a set of positive numbers.
LEMMA FirstOfLeast ==
  ASSUME NEW S \in SUBSET Nat, S # {}
  PROVE  FirstOf(S) \in S /\ \A j \in S : FirstOf(S) <= j
  <1> DEFINE R == OpToRel(<, Nat)
  <1>1. \E i \in S : \A j \in S : <<j, i>> \notin R
    BY WFMin, NatLessThanWellFounded
  <1>2. \A i, j \in Nat : <<j, i>> \notin R => i <= j
    BY DEF OpToRel
  <1>3. \E i \in S : \A j \in S : i <= j
    <2> HIDE DEF R
    <2> QED BY <1>1, <1>2
  <1> QED BY <1>3 DEF FirstOf

\* find_channel_by_callid returns 0 or the place of a channel of the call.
LEMMA FindByCallid ==
  ASSUME g_chanels \in Seq(Channel), NEW c,
         NEW i, i = find_channel_by_callid(c)
  PROVE  /\ i \in 0 .. Len(g_chanels)
         /\ i # 0 => i \in DOMAIN g_chanels /\ g_chanels[i].callid = c
         /\ i = 0 => \A j \in DOMAIN g_chanels : g_chanels[j].callid # c
  <1> DEFINE S == {j \in DOMAIN g_chanels : g_chanels[j].callid = c}
  <1>1. S \in SUBSET Nat /\ DOMAIN g_chanels = 1 .. Len(g_chanels) /\ Len(g_chanels) \in Nat
    OBVIOUS
  <1>2. i = FirstOf(S)
    BY DEF find_channel_by_callid
  <1>3. CASE S = {}
    <2>1. i = 0
      BY <1>2, <1>3 DEF FirstOf
    <2> QED BY <2>1, <1>1, <1>3
  <1>4. CASE S # {}
    <2>1. i \in S
      BY <1>1, <1>2, <1>4, FirstOfLeast
    <2> QED BY <2>1, <1>1
  <1> QED BY <1>3, <1>4

\* The same for find_channel_by_sock.
LEMMA FindBySock ==
  ASSUME g_chanels \in Seq(Channel), NEW f, find_channel_by_sock(f) # 0
  PROVE  find_channel_by_sock(f) \in DOMAIN g_chanels
  <1> DEFINE S == {j \in DOMAIN g_chanels : \E d \in Dir : g_chanels[j].leg[d].sock = f}
  <1>1. S \in SUBSET Nat
    OBVIOUS
  <1>2. find_channel_by_sock(f) = FirstOf(S)
    BY DEF find_channel_by_sock
  <1>3. S # {}
    BY <1>2 DEF FirstOf
  <1> QED BY <1>1, <1>2, <1>3, FirstOfLeast

\* A system call gets a free descriptor or none.
LEMMA AllocFree ==
  ASSUME NEW t
  PROVE  AllocFd(t) = -1 \/ (AllocFd(t) \in Fd /\ t[AllocFd(t)].kind = "free")
  <1>1. FreeFds(t) \in SUBSET Nat
    BY ConstantsAssumption DEF FreeFds, Fd
  <1>2. FreeFds(t) # {} => FirstOf(FreeFds(t)) \in FreeFds(t)
    BY <1>1, FirstOfLeast
  <1> QED BY <1>2 DEF AllocFd, FreeFds

LEMMA InstallType ==
  ASSUME NEW t \in Table, NEW f \in Fd \cup {-1},
         NEW e \in [kind : Kind, port : Ports \cup {NoPort}]
  PROVE  Install(t, f, e) \in Table
  BY DEF Install, Table

LEMMA EntryTypes ==
  /\ FreeEntry \in [kind : Kind, port : Ports \cup {NoPort}]
  /\ FileEntry \in [kind : Kind, port : Ports \cup {NoPort}]
  /\ \A p \in Ports : UdpEntry(p) \in [kind : Kind, port : Ports \cup {NoPort}]
  BY DEF FreeEntry, FileEntry, UdpEntry, Kind

\* Erase removes the element at i and keeps the order of the others.
LEMMA EraseSeq ==
  ASSUME NEW T, NEW s \in Seq(T), NEW i \in DOMAIN s
  PROVE  /\ Erase(s, i) \in Seq(T)
         /\ DOMAIN Erase(s, i) = 1 .. (Len(s) - 1)
         /\ \A j \in DOMAIN Erase(s, i) :
              /\ Erase(s, i)[j] = s[IF j < i THEN j ELSE j + 1]
              /\ (IF j < i THEN j ELSE j + 1) \in DOMAIN s \ {i}
  <1>1. Len(s) \in Nat \ {0} /\ DOMAIN s = 1 .. Len(s) /\ i \in 1 .. Len(s)
    BY Z3
  <1>2. \A j \in 1 .. (Len(s) - 1) : s[IF j < i THEN j ELSE j + 1] \in T
    BY <1>1
  <1>3. Erase(s, i) = [j \in 1 .. (Len(s) - 1) |-> s[IF j < i THEN j ELSE j + 1]]
    BY <1>1 DEF Erase
  <1>4. Len(s) - 1 \in Nat
    BY <1>1
  <1>5. Erase(s, i) \in Seq(T)
    BY <1>2, <1>3, <1>4, IsASeq
  <1> QED BY <1>1, <1>3, <1>5

------------------------------------------------------------------------------
(* Type correctness.                                                        *)

\* close() keeps the kernel's tables well-typed.
LEMMA CloseFdsType ==
  ASSUME TypeOK, NEW S, CloseFds(S)
  PROVE  /\ fdt' \in Table
         /\ newer' \in SUBSET (Fd \X Fd)
         /\ rq' \in [Fd -> SUBSET Stream]
  BY EntryTypes DEF TypeOK, KernelTypeOK, CloseFds, Table, Kind

LEMMA NewChannelType ==
  ASSUME NEW c \in Calls
  PROVE  NewChannel(c) \in Channel
  BY ConstantsAssumption DEF NewChannel, NoLeg, Channel, Leg, Fd

LEMMA SetLegType ==
  ASSUME NEW ch \in Channel, NEW d \in Dir, NEW leg \in Leg
  PROVE  /\ SetLeg(ch, d, leg) \in Channel
         /\ SetLeg(ch, d, leg).callid = ch.callid
         /\ \A e \in Dir : SetLeg(ch, d, leg).leg[e] = IF e = d THEN leg ELSE ch.leg[e]
  BY DEF SetLeg, Channel

\* Replacing one direction of a channel leaves the list a list of channels.
LEMMA WithLegType ==
  ASSUME g_chanels \in Seq(Channel), NEW c \in Calls, NEW d \in Dir, NEW leg \in Leg
  PROVE  WithLeg(c, d, leg) \in Seq(Channel)
  <1> DEFINE i == find_channel_by_callid(c)
  <1>1. CASE i = 0
    <2>1. SetLeg(NewChannel(c), d, leg) \in Channel
      BY NewChannelType, SetLegType
    <2> QED BY <1>1, <2>1 DEF WithLeg
  <1>2. CASE i # 0
    <2>1. i \in DOMAIN g_chanels
      BY <1>2, FindByCallid
    <2>2. SetLeg(g_chanels[i], d, leg) \in Channel
      BY <2>1, SetLegType
    <2>3. WithLeg(c, d, leg) = [g_chanels EXCEPT ![i] = SetLeg(g_chanels[i], d, leg)]
      BY <1>2 DEF WithLeg
    <2> HIDE DEF i
    <2> QED BY <2>1, <2>2, <2>3
  <1> QED BY <1>1, <1>2

\* The same for a direction that is reset.
LEMMA ResetType ==
  ASSUME g_chanels \in Seq(Channel), NEW i \in DOMAIN g_chanels, NEW d \in Dir
  PROVE  Reset(i, d) \in Seq(Channel)
  <1> DEFINE leg == [sock |-> 0, port |-> NoPort, file |-> g_chanels[i].leg[d].file]
             chs == [g_chanels EXCEPT ![i] = SetLeg(g_chanels[i], d, leg)]
  <1>1. leg \in Leg
    <2>1. g_chanels[i] \in Channel
      OBVIOUS
    <2>2. g_chanels[i].leg[d] \in Leg
      BY <2>1 DEF Channel
    <2>3. 0 \in Fd
      BY ConstantsAssumption DEF Fd
    <2> QED BY <2>2, <2>3 DEF Leg
  <1>2. SetLeg(g_chanels[i], d, leg) \in Channel
    BY <1>1, SetLegType
  <1>3. chs \in Seq(Channel) /\ DOMAIN chs = DOMAIN g_chanels
    BY <1>2
  <1>4. Erase(chs, i) \in Seq(Channel)
    <2> HIDE DEF chs
    <2> QED BY <1>3, EraseSeq
  <1> QED BY <1>3, <1>4 DEF Reset

\* A socket bound to a port is newer than the ones bound to it before.
LEMMA NewerType ==
  ASSUME KernelTypeOK, NEW f \in Fd \cup {-1}, NEW p
  PROVE  NewerThanBound(f, p) \in SUBSET (Fd \X Fd)
  BY DEF KernelTypeOK, NewerThanBound, buildsocket, BoundAt

\* TypeOK holds initially and every action preserves it.
LEMMA TypeInductive ==
  /\ Init => TypeOK
  /\ TypeOK /\ [Next]_vars => TypeOK'
  <1> USE DEF TypeOK
  <1>1. Init => TypeOK
    <2> SUFFICES ASSUME Init PROVE TypeOK
      OBVIOUS
    <2>1. 0 \in Fd
      BY ConstantsAssumption DEF Fd
    <2>2. ServerTypeOK
      BY DEF Init, ServerTypeOK
    <2>3. StarterTypeOK
      BY <2>1, ConstantsAssumption DEF Init, StarterTypeOK
    <2>4. KernelTypeOK
      BY DEF Init, KernelTypeOK, FreeEntry
    <2>5. FilesTypeOK
      BY DEF Init, FilesTypeOK
    <2>6. NetworkTypeOK
      BY ConstantsAssumption DEF Init, NetworkTypeOK
    <2> QED BY <2>2, <2>3, <2>4, <2>5, <2>6
  <1>2. ASSUME TypeOK, [Next]_vars
        PROVE  TypeOK'
    <2> USE <1>2
    <2>a. UNCHANGED server => ServerTypeOK'
      BY DEF ServerTypeOK, server
    <2>b. UNCHANGED starter => StarterTypeOK'
      BY DEF StarterTypeOK, starter
    <2>c. UNCHANGED kernel => KernelTypeOK'
      BY DEF KernelTypeOK, kernel
    <2>d. UNCHANGED files => FilesTypeOK'
      BY DEF FilesTypeOK, files
    <2>e. UNCHANGED <<caller, network, flight>> => NetworkTypeOK'
      BY DEF NetworkTypeOK, caller, network
    <2>1. ASSUME NEW c \in Calls, StartCall(c)
          PROVE  TypeOK'
      <3>1. PICK p \in [Dir -> Ports \ PortsInUse] :
              /\ fsPort' = [s \in Stream |-> IF s[1] = c THEN p[s[2]] ELSE fsPort[s]]
              /\ net' = net \cup {Invite(c, d, p[d]) : d \in Dir}
        BY <2>1 DEF StartCall
      <3>2. \A d \in Dir : Invite(c, d, p[d]) \in Message
        BY DEF Invite, Message
      <3>3. net' \in SUBSET Message
        BY <3>1, <3>2 DEF NetworkTypeOK
      <3>4. fsPort' \in [Stream -> Ports \cup {NoPort}]
        BY <3>1 DEF NetworkTypeOK, Stream
      <3>5. NetworkTypeOK'
        BY <2>1, <3>3, <3>4 DEF NetworkTypeOK, StartCall
      <3> QED BY <2>1, <2>a, <2>b, <2>c, <2>d, <3>5 DEF StartCall
    <2>2. ASSUME NEW c \in Calls, HangUp(c)
          PROVE  TypeOK'
      <3>1. \A d \in Dir : Bye(c, d) \in Message
        BY DEF Bye, Message
      <3>2. NetworkTypeOK'
        BY <2>2, <3>1 DEF NetworkTypeOK, HangUp
      <3> QED BY <2>2, <2>a, <2>b, <2>c, <2>d, <3>2 DEF HangUp
    <2>3. ASSUME NEW s \in Stream, SendRtp(s) \/ EndFlight(s)
          PROVE  TypeOK'
      <3>1. NetworkTypeOK'
        BY <2>3 DEF NetworkTypeOK, SendRtp, EndFlight, caller, network
      <3> QED BY <2>3, <2>a, <2>b, <2>c, <2>d, <3>1 DEF SendRtp, EndFlight
    <2>4. ASSUME NEW s \in Stream, ArriveRtp(s)
          PROVE  TypeOK'
      <3>1. KernelTypeOK'
        BY <2>4 DEF KernelTypeOK, ArriveRtp
      <3> QED BY <2>4, <2>a, <2>b, <2>d, <2>e, <3>1 DEF ArriveRtp
    <2>5. ASSUME NEW m \in net, Lose(m)
          PROVE  TypeOK'
      <3>1. NetworkTypeOK'
        BY <2>5 DEF NetworkTypeOK, Lose, caller
      <3> QED BY <2>5, <2>a, <2>b, <2>c, <2>d, <3>1 DEF Lose
    <2>6. ASSUME NEW m \in net, Receive(m)
          PROVE  /\ NetworkTypeOK' /\ StarterTypeOK'
                 /\ m.call \in Calls /\ SubjectDir(m) \in Dir
                 /\ m.method = "INVITE" => m.port \in Ports
      <3>1. m \in Message
        BY DEF NetworkTypeOK
      <3>2. NetworkTypeOK'
        BY <2>6, ConstantsAssumption DEF NetworkTypeOK, Receive, caller
      <3>3. StarterTypeOK'
        BY <2>6, <2>b DEF Receive
      <3> QED BY <3>1, <3>2, <3>3 DEF Message, SubjectDir, Dir
    <2>7. ASSUME NEW m \in net, update_invite_channel(m)
          PROVE  TypeOK'
      <3> DEFINE d == SubjectDir(m)
                 sfd == AllocFd(fdt)
                 fdt1 == Install(fdt, sfd, UdpEntry(m.port))
                 ffd == AllocFd(fdt1)
      <3>1. /\ m.call \in Calls /\ d \in Dir /\ m.port \in Ports
            /\ NetworkTypeOK' /\ StarterTypeOK'
        BY <2>7, <2>6 DEF update_invite_channel
      <3>2. sfd \in Fd \cup {-1} /\ ffd \in Fd \cup {-1}
        BY AllocFree
      <3>3. fdt1 \in Table /\ Install(fdt1, ffd, FileEntry) \in Table
        <4>1. fdt1 \in Table
          BY <3>1, <3>2, InstallType, EntryTypes DEF KernelTypeOK, Table, Kind
        <4> QED BY <3>2, <4>1, InstallType, EntryTypes
      <3>4. PICK file \in IF ffd = -1 THEN {NULL} ELSE {a \in Heap : heap[a] = NULL} :
              /\ g_chanels' = WithLeg(m.call, d,
                   [sock |-> buildsocket(sfd, m.port), port |-> m.port, file |-> file])
              /\ heap' = IF ffd = -1 THEN heap
                         ELSE [heap EXCEPT ![file] = [fd |-> ffd, stream |-> <<m.call, d>>]]
        BY <2>7 DEF update_invite_channel
      <3>5. /\ fdt' = Install(fdt1, ffd, FileEntry)
            /\ newer' = NewerThanBound(sfd, m.port)
            /\ made' = IF ffd = -1 THEN made ELSE made \cup {<<m.call, d>>}
            /\ audio' = IF ffd = -1 THEN audio ELSE [audio EXCEPT ![<<m.call, d>>] = {}]
            /\ UNCHANGED <<up, fault, rq>>
        BY <2>7 DEF update_invite_channel
      <3> HIDE DEF d, sfd, fdt1, ffd
      <3>6. [sock |-> buildsocket(sfd, m.port), port |-> m.port, file |-> file] \in Leg
        BY <3>1, <3>2, <3>4 DEF Leg, buildsocket
      <3>7. ServerTypeOK'
        BY <3>1, <3>4, <3>5, <3>6, WithLegType DEF ServerTypeOK
      <3>8. KernelTypeOK'
        BY <3>2, <3>3, <3>5, NewerType DEF KernelTypeOK, Table, Kind
      <3>9. FilesTypeOK'
        BY <3>1, <3>2, <3>4, <3>5 DEF FilesTypeOK, File, Stream
      <3> QED BY <3>1, <3>7, <3>8, <3>9
    <2>8. ASSUME NEW m \in net, update_bye_channel(m)
          PROVE  TypeOK'
      <3> DEFINE i == find_channel_by_callid(m.call)
      <3>1. i \in DOMAIN g_chanels
        BY <2>8, FindByCallid DEF ServerTypeOK, update_bye_channel
      <3>2. SubjectDir(m) \in Dir /\ NetworkTypeOK' /\ StarterTypeOK'
        BY <2>8, <2>6 DEF update_bye_channel
      <3>3. g_chanels' = Reset(i, SubjectDir(m)) /\ UNCHANGED <<up, fault>>
        BY <2>8 DEF update_bye_channel
      <3>4. ServerTypeOK'
        <4> HIDE DEF i
        <4> QED BY <3>1, <3>2, <3>3, ResetType DEF ServerTypeOK
      <3>5. KernelTypeOK'
        <4>1. PICK S : CloseFds(S)
          BY <2>8 DEF update_bye_channel
        <4> QED BY <4>1, CloseFdsType DEF KernelTypeOK, Table, Kind
      <3>6. \/ heap' = heap
            \/ \E a \in Heap : heap' = [heap EXCEPT ![a] = NULL]
        BY <2>8 DEF update_bye_channel, IsOpen
      <3>7. FilesTypeOK'
        BY <2>8, <3>6 DEF FilesTypeOK, update_bye_channel
      <3> QED BY <3>2, <3>4, <3>5, <3>7
    <2>9. ASSUME NEW m \in net, ByeFaults(m) \/ ByeUnknown(m)
          PROVE  TypeOK'
      <3>1. NetworkTypeOK' /\ StarterTypeOK'
        BY <2>9, <2>6 DEF ByeFaults, ByeUnknown
      <3>2. ServerTypeOK'
        BY <2>9 DEF ByeFaults, ByeUnknown, ServerTypeOK, server, Cause
      <3> QED BY <2>9, <3>1, <3>2, <2>c, <2>d DEF ByeFaults, ByeUnknown
    <2>10. ASSUME NEW f \in Fd, NEW s \in Stream, do_rtp(f, s)
           PROVE  TypeOK'
      <3>1. ReadRtp(f, s) /\ up' \in BOOLEAN /\ fault' \in {"none", "null", "closed"}
        BY <2>10 DEF do_rtp, RecordRtp, RtpFaults, IgnoreRtp, ServerTypeOK, Cause
      <3>2. audio' = audio \/ \E t : audio' = [audio EXCEPT ![t] = @ \cup {s}]
        BY <2>10 DEF do_rtp, RecordRtp, RtpFaults, IgnoreRtp
      <3>3. FilesTypeOK'
        BY <3>1, <3>2 DEF FilesTypeOK, ReadRtp
      <3>4. ServerTypeOK'
        BY <3>1 DEF ServerTypeOK, ReadRtp
      <3>5. KernelTypeOK'
        BY <3>1 DEF KernelTypeOK, ReadRtp
      <3> QED BY <3>1, <3>3, <3>4, <3>5, <2>b, <2>e DEF ReadRtp
    <2>11. ASSUME NEW p \in StartupPorts, MainOpen(p)
           PROVE  TypeOK'
      <3> DEFINE f == AllocFd(fdt)
      <3>1. f \in Fd \cup {-1} /\ p \in Ports
        BY AllocFree, ConstantsAssumption
      <3>2. /\ main' = [main EXCEPT !.todo = @ \ {p}]
            /\ socks' = [socks EXCEPT ![p] = buildsocket(f, p)]
            /\ fdt' = Install(fdt, f, UdpEntry(p))
            /\ newer' = NewerThanBound(f, p)
            /\ rq' = rq
        BY <2>11 DEF MainOpen
      <3> HIDE DEF f
      <3>3. StarterTypeOK'
        BY <3>1, <3>2 DEF StarterTypeOK, buildsocket
      <3>4. fdt' \in Table
        BY <3>1, <3>2, InstallType, EntryTypes DEF KernelTypeOK, Table, Kind
      <3>5. KernelTypeOK'
        BY <3>1, <3>2, <3>4, NewerType DEF KernelTypeOK, Table, Kind
      <3> QED BY <2>11, <3>3, <3>5, <2>a, <2>d, <2>e DEF MainOpen
    <2>12. ASSUME NEW p \in StartupPorts, MainClose(p)
           PROVE  TypeOK'
      <3>1. KernelTypeOK'
        BY <2>12, CloseFdsType DEF MainClose, KernelTypeOK, Table, Kind
      <3>2. StarterTypeOK'
        BY <2>12 DEF MainClose, StarterTypeOK
      <3> QED BY <2>12, <3>1, <3>2, <2>a, <2>d, <2>e DEF MainClose
    <2>13. CASE MainTurn
      <3>1. StarterTypeOK'
        <4> USE ConstantsAssumption DEF StarterTypeOK
        <4>1. socks' = socks
          BY <2>13 DEF MainTurn
        <4>2. CASE main.phase = "close" /\ main' = AfterClose(main)
          BY <4>1, <4>2 DEF AfterClose
        <4>3. CASE Again(main.round) /\ main' = [main EXCEPT !.phase = "close", !.todo = StartupPorts]
          BY <4>1, <4>3 DEF Again
        <4>4. CASE main' = [main EXCEPT !.phase = "sleep"]
          BY <4>1, <4>4
        <4> QED BY <2>13, <4>2, <4>3, <4>4 DEF MainTurn
      <3> QED BY <2>13, <3>1, <2>a, <2>c, <2>d, <2>e DEF MainTurn
    <2>14. CASE UNCHANGED vars
      BY <2>14, <2>a, <2>b, <2>c, <2>d, <2>e
         DEF vars, server, starter, kernel, files, caller, network
    <2> QED BY <1>2, <2>1, <2>2, <2>3, <2>4, <2>5, <2>7, <2>8, <2>9, <2>10, <2>11,
               <2>12, <2>13, <2>14
         DEF Next, Environment, epoll_thread, do_sip_message, main_thread
  <1> QED BY <1>1, <1>2

\* Every variable keeps the type TypeOK gives it: the channel list is a list of
\* channels, the descriptor table has an entry for each descriptor, and so on.
THEOREM TypeCorrect == Spec => []TypeOK
  BY TypeInductive, PTL DEF Spec

------------------------------------------------------------------------------
(* One channel per call, whatever the network does.                         *)

\* An INVITE adds a channel only when the list has none of its call.
LEMMA WithLegUnique ==
  ASSUME g_chanels \in Seq(Channel), OneChannelPerCall,
         NEW c \in Calls, NEW d \in Dir, NEW leg \in Leg,
         g_chanels' = WithLeg(c, d, leg)
  PROVE  OneChannelPerCall'
  <1> DEFINE i == find_channel_by_callid(c)
             new == SetLeg(NewChannel(c), d, leg)
  <1>1. CASE i = 0
    <2>1. \A j \in DOMAIN g_chanels : g_chanels[j].callid # c
      BY <1>1, FindByCallid
    <2>2. g_chanels' = Append(g_chanels, new) /\ new.callid = c
      BY <1>1 DEF WithLeg, SetLeg, NewChannel
    <2>3. /\ Len(g_chanels) \in Nat
          /\ DOMAIN g_chanels = 1 .. Len(g_chanels)
          /\ DOMAIN g_chanels' = 1 .. (Len(g_chanels) + 1)
          /\ g_chanels'[Len(g_chanels) + 1] = new
          /\ \A j \in DOMAIN g_chanels : g_chanels'[j] = g_chanels[j]
      <3> HIDE DEF new
      <3> QED BY <2>2
    <2>4. \A j \in DOMAIN g_chanels' :
            \/ j \in DOMAIN g_chanels /\ g_chanels'[j] = g_chanels[j]
            \/ j = Len(g_chanels) + 1 /\ g_chanels'[j] = new
      BY <2>3
    <2>5. SUFFICES ASSUME NEW j \in DOMAIN g_chanels', NEW k \in DOMAIN g_chanels',
                          g_chanels'[j].callid = g_chanels'[k].callid
                   PROVE  j = k
      BY DEF OneChannelPerCall
    <2>6. new.callid = c
      BY <2>2
    <2> HIDE DEF new
    <2> QED BY <2>1, <2>4, <2>5, <2>6 DEF OneChannelPerCall
  <1>2. CASE i # 0
    <2>1. i \in DOMAIN g_chanels
      BY <1>2, FindByCallid
    <2>2. g_chanels' = [g_chanels EXCEPT ![i] = SetLeg(g_chanels[i], d, leg)]
      BY <1>2 DEF WithLeg
    <2>3. SetLeg(g_chanels[i], d, leg).callid = g_chanels[i].callid
      BY DEF SetLeg
    <2>4. /\ DOMAIN g_chanels' = DOMAIN g_chanels
          /\ \A j \in DOMAIN g_chanels : g_chanels'[j].callid = g_chanels[j].callid
      <3> HIDE DEF i
      <3> QED BY <2>1, <2>2, <2>3
    <2> QED BY <2>4 DEF OneChannelPerCall
  <1> QED BY <1>1, <1>2

\* A BYE renames no channel and adds none.
LEMMA ResetUnique ==
  ASSUME g_chanels \in Seq(Channel), OneChannelPerCall,
         NEW i \in DOMAIN g_chanels, NEW d \in Dir,
         g_chanels' = Reset(i, d)
  PROVE  OneChannelPerCall'
  <1> DEFINE leg == [sock |-> 0, port |-> NoPort, file |-> g_chanels[i].leg[d].file]
             ch == SetLeg(g_chanels[i], d, leg)
             chs == [g_chanels EXCEPT ![i] = ch]
  <1>1. ch.callid = g_chanels[i].callid
    BY DEF SetLeg
  <1>2. /\ DOMAIN chs = DOMAIN g_chanels
        /\ \A j \in DOMAIN chs : chs[j].callid = g_chanels[j].callid
    <2> HIDE DEF ch
    <2> QED BY <1>1
  <1>3. chs \in Seq(Channel)
    <2>1. g_chanels[i] \in Channel /\ leg \in Leg
      <3>1. g_chanels[i] \in Channel
        OBVIOUS
      <3>2. g_chanels[i].leg[d] \in Leg
        BY <3>1 DEF Channel
      <3>3. 0 \in Fd
        BY ConstantsAssumption DEF Fd
      <3> QED BY <3>1, <3>2, <3>3 DEF Leg
    <2>2. ch \in Channel
      BY <2>1, SetLegType
    <2> HIDE DEF ch
    <2> QED BY <2>2
  <1> HIDE DEF chs
  <1>4. CASE g_chanels' = chs
    BY <1>2, <1>4 DEF OneChannelPerCall
  <1>5. CASE g_chanels' = Erase(chs, i)
    <2>1. \A j \in DOMAIN g_chanels' :
            /\ g_chanels'[j] = chs[IF j < i THEN j ELSE j + 1]
            /\ (IF j < i THEN j ELSE j + 1) \in DOMAIN chs
      BY <1>2, <1>3, <1>5, EraseSeq
    <2>2. DOMAIN g_chanels' \subseteq Int /\ i \in Int
      BY <1>2, <1>3, <1>5, EraseSeq
    <2>3. SUFFICES ASSUME NEW j \in DOMAIN g_chanels', NEW k \in DOMAIN g_chanels',
                          g_chanels'[j].callid = g_chanels'[k].callid
                   PROVE  j = k
      BY DEF OneChannelPerCall
    <2>4. (IF j < i THEN j ELSE j + 1) = (IF k < i THEN k ELSE k + 1)
      BY <1>2, <2>1, <2>3 DEF OneChannelPerCall
    <2> QED BY <2>2, <2>4
  <1>6. g_chanels' = chs \/ g_chanels' = Erase(chs, i)
    BY DEF Reset, chs
  <1> QED BY <1>4, <1>5, <1>6

\* What a step can do to the list.
LEMMA ListSteps ==
  ASSUME TypeOK, [Next]_vars
  PROVE  \/ UNCHANGED g_chanels
         \/ \E m \in net : update_invite_channel(m)
         \/ \E m \in net : update_bye_channel(m)
  BY DEF Next, Environment, epoll_thread, do_sip_message, main_thread, vars, StartCall,
         HangUp, SendRtp, EndFlight, ArriveRtp, Lose, ByeFaults, ByeUnknown, do_rtp,
         RecordRtp, RtpFaults, IgnoreRtp, ReadRtp, MainOpen, MainClose, MainTurn, server

\* The leg an INVITE stores is one.
LEMMA InviteLeg ==
  ASSUME TypeOK, NEW m \in net, update_invite_channel(m)
  PROVE  /\ m.call \in Calls /\ SubjectDir(m) \in Dir
         /\ \E leg \in Leg : g_chanels' = WithLeg(m.call, SubjectDir(m), leg)
  <1> DEFINE sfd == AllocFd(fdt)
             ffd == AllocFd(Install(fdt, sfd, UdpEntry(m.port)))
  <1>1. m \in Message /\ m.method = "INVITE"
    BY DEF TypeOK, NetworkTypeOK, update_invite_channel
  <1>2. m.call \in Calls /\ SubjectDir(m) \in Dir /\ m.port \in Ports
    BY <1>1 DEF Message, SubjectDir, Dir
  <1>3. PICK file \in IF ffd = -1 THEN {NULL} ELSE {a \in Heap : heap[a] = NULL} :
          g_chanels' = WithLeg(m.call, SubjectDir(m),
            [sock |-> buildsocket(sfd, m.port), port |-> m.port, file |-> file])
    BY DEF update_invite_channel
  <1>4. sfd \in Fd \cup {-1}
    BY AllocFree
  <1>5. [sock |-> buildsocket(sfd, m.port), port |-> m.port, file |-> file] \in Leg
    <2> HIDE DEF sfd, ffd
    <2> QED BY <1>2, <1>3, <1>4 DEF Leg, buildsocket
  <1> QED BY <1>2, <1>3, <1>5

\* OneChannelPerCall holds initially and every step preserves it.
LEMMA OneChannelInductive ==
  /\ Init => OneChannelPerCall
  /\ TypeOK /\ OneChannelPerCall /\ [Next]_vars => OneChannelPerCall'
  <1>1. Init => OneChannelPerCall
    BY DEF Init, OneChannelPerCall
  <1>2. ASSUME TypeOK, OneChannelPerCall, [Next]_vars
        PROVE  OneChannelPerCall'
    <2> USE <1>2
    <2>1. CASE UNCHANGED g_chanels
      BY <2>1 DEF OneChannelPerCall
    <2>2. ASSUME NEW m \in net, update_invite_channel(m)
          PROVE  OneChannelPerCall'
      BY <2>2, InviteLeg, WithLegUnique DEF TypeOK, ServerTypeOK
    <2>3. ASSUME NEW m \in net, update_bye_channel(m)
          PROVE  OneChannelPerCall'
      <3>1. m.call \in Calls /\ SubjectDir(m) \in Dir
        BY DEF TypeOK, NetworkTypeOK, Message, SubjectDir, Dir
      <3>2. find_channel_by_callid(m.call) \in DOMAIN g_chanels
        BY <2>3, FindByCallid DEF TypeOK, ServerTypeOK, update_bye_channel
      <3>3. g_chanels' = Reset(find_channel_by_callid(m.call), SubjectDir(m))
        BY <2>3 DEF update_bye_channel
      <3> QED BY <3>1, <3>2, <3>3, ResetUnique DEF TypeOK, ServerTypeOK
    <2> QED BY <2>1, <2>2, <2>3, ListSteps
  <1> QED BY <1>1, <1>2

\* At every moment the list holds at most one channel of a call, whatever the
\* network loses, reorders or duplicates.
THEOREM OneChannel == Spec => []OneChannelPerCall
  BY OneChannelInductive, TypeCorrect, PTL DEF Spec
==============================================================================
