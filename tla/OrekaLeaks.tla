------------------------------ MODULE OrekaLeaks ------------------------------
(***************************************************************************)
(* Which descriptors of OrekaServer are open, and for whom: none is leaked *)
(* but the sockets whose bind() failed.                                    *)
(***************************************************************************)
EXTENDS OrekaOwnership

\* Somebody will close f: a direction in the list holds it as its socket or
\* below its FILE ...
Held(f) ==
  \E ch \in Chans, d \in Dir :
    /\ ch.leg[d].sock # 0
    /\ f = ch.leg[d].sock \/ (IsOpen(ch.leg[d].file) /\ f = heap[ch.leg[d].file].fd)

\* ... or main() does; the rest is the standard input and the failed binds.
Accounted(f) ==
  \/ f = 0
  \/ fdt[f].kind = "udp" /\ fdt[f].port = NoPort
  \/ f \in MainFds
  \/ Held(f)

NoLeak == \A f \in Fd : fdt[f].kind # "free" => Accounted(f)

------------------------------------------------------------------------------
(* No direction is forgotten.                                               *)

\* After a step on direction d of call c: every other direction that has a
\* socket is still in the list, as it was.
LegsStay(c, d) ==
  \A old \in Chans, e \in Dir : ~ (old.callid = c /\ e = d) /\ old.leg[e].sock # 0 =>
    \E ch \in Chans' : ch.callid = old.callid /\ ch.leg[e] = old.leg[e]

LEMMA WithLegStays ==
  ASSUME g_chanels \in Seq(Channel),
         NEW c \in Calls, NEW d \in Dir, NEW leg \in Leg,
         g_chanels' = WithLeg(c, d, leg)
  PROVE  /\ LegsStay(c, d)
         /\ \E ch \in Chans' : ch.callid = c /\ ch.leg[d] = leg
  <1> DEFINE i == find_channel_by_callid(c)
             new == SetLeg(NewChannel(c), d, leg)
             upd == SetLeg(g_chanels[i], d, leg)
  <1>1. \A j \in DOMAIN g_chanels : g_chanels[j] \in Channel
    OBVIOUS
  <1>2. CASE i = 0
    <2>1. new \in Channel /\ new.callid = c /\ new.leg[d] = leg
      BY NewChannelType, SetLegType DEF NewChannel
    <2>2. g_chanels' = Append(g_chanels, new)
      BY <1>2 DEF WithLeg
    <2> HIDE DEF new
    <2>3. /\ \A j \in DOMAIN g_chanels : j \in DOMAIN g_chanels' /\ g_chanels'[j] = g_chanels[j]
          /\ Len(g_chanels) + 1 \in DOMAIN g_chanels'
          /\ g_chanels'[Len(g_chanels) + 1] = new
      BY <2>1, <2>2
    <2> QED BY <2>1, <2>3 DEF LegsStay, Chans
  <1>3. CASE i # 0
    <2>1. i \in DOMAIN g_chanels /\ g_chanels[i].callid = c
      BY <1>3, FindByCallid
    <2>2. g_chanels' = [g_chanels EXCEPT ![i] = upd]
      BY <1>3 DEF WithLeg
    <2>3. /\ upd.callid = c /\ upd.leg[d] = leg
          /\ \A e \in Dir : e # d => upd.leg[e] = g_chanels[i].leg[e]
      BY <1>1, <2>1, SetLegType
    <2> HIDE DEF i, upd
    <2>4. /\ DOMAIN g_chanels' = DOMAIN g_chanels
          /\ \A j \in DOMAIN g_chanels : g_chanels'[j] = IF j = i THEN upd ELSE g_chanels[j]
      BY <2>1, <2>2
    <2> QED BY <2>1, <2>3, <2>4 DEF LegsStay, Chans
  <1> QED BY <1>2, <1>3

\* Erase loses nothing but the element at i.
LEMMA EraseKeeps ==
  ASSUME NEW T, NEW s \in Seq(T), NEW i \in DOMAIN s, NEW j \in DOMAIN s, j # i
  PROVE  \E k \in DOMAIN Erase(s, i) : Erase(s, i)[k] = s[j]
  <1>1. Len(s) \in Nat /\ DOMAIN s = 1 .. Len(s) /\ i \in 1 .. Len(s) /\ j \in 1 .. Len(s)
    OBVIOUS
  <1> DEFINE k == IF j < i THEN j ELSE j - 1
  <1>2. k \in 1 .. (Len(s) - 1) /\ (IF k < i THEN k ELSE k + 1) = j
    BY <1>1
  <1> HIDE DEF k
  <1>3. k \in DOMAIN Erase(s, i) /\ Erase(s, i)[k] = s[IF k < i THEN k ELSE k + 1]
    BY <1>2, EraseSeq
  <1> QED BY <1>2, <1>3

LEMMA ResetStays ==
  ASSUME g_chanels \in Seq(Channel), NEW i \in DOMAIN g_chanels, NEW d \in Dir,
         g_chanels' = Reset(i, d)
  PROVE  LegsStay(g_chanels[i].callid, d)
  <1> DEFINE leg == ClosedLeg(g_chanels[i].leg[d])
             upd == SetLeg(g_chanels[i], d, leg)
             chs == [g_chanels EXCEPT ![i] = upd]
  <1>1. \A j \in DOMAIN g_chanels : g_chanels[j] \in Channel
    OBVIOUS
  <1>2. leg \in Leg
    <2>1. g_chanels[i].leg[d] \in Leg
      BY <1>1 DEF Channel
    <2>2. 0 \in Fd
      BY ConstantsAssumption DEF Fd
    <2> QED BY <2>1, <2>2 DEF Leg, ClosedLeg
  <1>3. /\ upd \in Channel /\ upd.callid = g_chanels[i].callid
        /\ \A e \in Dir : e # d => upd.leg[e] = g_chanels[i].leg[e]
    BY <1>1, <1>2, SetLegType
  <1>4. \/ g_chanels' = chs
        \/ g_chanels' = Erase(chs, i) /\ \A e \in Dir : chs[i].leg[e].sock = 0
    BY DEF Reset, ClosedLeg
  <1> HIDE DEF upd, leg
  <1>5. chs \in Seq(Channel) /\ DOMAIN chs = DOMAIN g_chanels
    BY <1>3
  <1>6. \A j \in DOMAIN chs : chs[j] = IF j = i THEN upd ELSE g_chanels[j]
    OBVIOUS
  <1> HIDE DEF chs
  <1>7. \A j \in DOMAIN chs \ {i} : \E k \in DOMAIN g_chanels' : g_chanels'[k] = chs[j]
    BY <1>4, <1>5, EraseKeeps
  <1>8. \A j \in DOMAIN g_chanels, e \in Dir :
          ~ (j = i /\ e = d) /\ g_chanels[j].leg[e].sock # 0 =>
            \E k \in DOMAIN g_chanels' :
              /\ g_chanels'[k].callid = g_chanels[j].callid
              /\ g_chanels'[k].leg[e] = g_chanels[j].leg[e]
    <2> SUFFICES ASSUME NEW j \in DOMAIN g_chanels, NEW e \in Dir,
                        ~ (j = i /\ e = d), g_chanels[j].leg[e].sock # 0
                 PROVE  \E k \in DOMAIN g_chanels' :
                          /\ g_chanels'[k].callid = g_chanels[j].callid
                          /\ g_chanels'[k].leg[e] = g_chanels[j].leg[e]
      OBVIOUS
    <2>1. CASE j # i
      BY <1>5, <1>6, <1>7, <2>1
    <2>2. CASE j = i
      <3>1. chs[i] = upd /\ e # d /\ upd.leg[e] = g_chanels[i].leg[e]
        BY <1>3, <1>5, <1>6, <2>2
      <3>2. g_chanels' = chs
        BY <1>4, <2>2, <3>1
      <3> QED BY <1>3, <1>5, <2>2, <3>1, <3>2
    <2> QED BY <2>1, <2>2
  <1> QED BY <1>8 DEF LegsStay, Chans
------------------------------------------------------------------------------
(* The steps.                                                               *)

\* A step that leaves list, descriptors, files and main()'s sockets alone.
LEMMA LeakFrame ==
  ASSUME NoLeak, UNCHANGED <<g_chanels, fdt, heap, socks, MainPorts>>
  PROVE  NoLeak'
  <1>1. Chans' = Chans /\ MainFds' = MainFds
    BY DEF Chans, MainFds
  <1>2. \A f : Held(f) => Held(f)'
    BY <1>1 DEF Held, IsOpen
  <1> QED BY <1>1, <1>2 DEF NoLeak, Accounted

LEMMA InviteNoLeak ==
  ASSUME dups' = 0, OwnedInv, NoLeak, NEW m \in net, update_invite_channel(m)
  PROVE  NoLeak'
  <1> USE DEF OwnedInv
  <1> DEFINE c == m.call
             d == SubjectDir(m)
             p == m.port
             sfd == AllocFd(fdt)
             fdt1 == Install(fdt, sfd, UdpEntry(p))
             ffd == AllocFd(fdt1)
  <1>1. Receive(m) /\ m.method = "INVITE"
    BY DEF update_invite_channel
  <1>2. /\ c \in Calls /\ d \in Dir /\ p \in Ports
        /\ UNCHANGED <<main, socks>>
        /\ PendingInvite(c, d)
    <2>1. /\ c \in Calls /\ d \in Dir /\ p \in Ports /\ UNCHANGED <<main, socks>>
      BY <1>1, ReceivedOnce
    <2>2. m = Invite(c, d, p)
      BY <1>1 DEF TypeOK, NetworkTypeOK, Message, Invite, SubjectDir
    <2> QED BY <2>1, <2>2 DEF PendingInvite
  <1>3. PICK file \in IF ffd = -1 THEN {NULL} ELSE {a \in Heap : heap[a] = NULL} :
          /\ g_chanels' = WithLeg(c, d,
               [sock |-> buildsocket(sfd, p), port |-> p, file |-> file])
          /\ heap' = IF ffd = -1 THEN heap
                     ELSE [heap EXCEPT ![file] = [fd |-> ffd, stream |-> <<c, d>>]]
    BY DEF update_invite_channel
  <1>4. fdt' = Install(fdt1, ffd, FileEntry)
    BY DEF update_invite_channel
  <1>5. /\ \A g \in Fd : fdt[g].kind # "free" => fdt'[g] = fdt[g]
        /\ sfd = -1 \/ (sfd \in Fd /\ fdt[sfd].kind = "free" /\ fdt'[sfd] = UdpEntry(p))
        /\ ffd = -1 \/ (ffd \in Fd /\ fdt[ffd].kind = "free" /\ fdt'[ffd] = FileEntry)
    <2>1. fdt \in Table /\ UdpEntry(p).kind # "free"
      BY DEF TypeOK, KernelTypeOK, Table, Kind, UdpEntry
    <2> QED BY <1>4, <2>1, TwoInstalled
  <1>6. \A g \in Fd : fdt'[g].kind # "free" => fdt[g].kind # "free" \/ g = sfd \/ g = ffd
    <2>1. \A t \in Table : \A g, e : \A h \in Fd : h # g => Install(t, g, e)[h] = t[h]
      BY DEF Install, Table
    <2>2. fdt \in Table /\ fdt1 \in Table
      <3>1. fdt \in Table
        BY DEF TypeOK, KernelTypeOK, Table, Kind
      <3> QED BY <1>2, <1>5, <3>1, InstallType, EntryTypes
    <2> HIDE DEF fdt1, ffd, sfd
    <2> QED BY <1>4, <2>1, <2>2 DEF fdt1
  <1> DEFINE sock == buildsocket(sfd, p)
             leg == [sock |-> sock, port |-> p, file |-> file]
  <1> HIDE DEF c, d, p, sfd, fdt1, ffd
  <1>7. /\ sock # 0 /\ sock \in Fd \cup {-1}
        /\ sock = sfd \/ p \in Unbindable
    BY <1>5 DEF buildsocket, StdinOpen
  <1>8. leg \in Leg
    BY <1>2, <1>3, <1>7 DEF Leg
  <1> HIDE DEF sock
  <1>9. PICK mine \in Chans' : mine.callid = c /\ mine.leg[d] = leg
    BY <1>2, <1>3, <1>8, WithLegStays DEF TypeOK, ServerTypeOK, sock
  <1>10. LegsStay(c, d)
    BY <1>2, <1>3, <1>8, WithLegStays DEF TypeOK, ServerTypeOK, sock
  <1>11. \A a \in Heap : heap[a] # NULL => heap'[a] = heap[a]
    BY <1>3 DEF TypeOK, FilesTypeOK
  <1>12. \A old \in Chans, e \in Dir : old.leg[e].sock # 0 => ~ (old.callid = c /\ e = d)
    BY <1>2 DEF LegsInStep, NoLeg
  <1>13. \A g : Held(g) => Held(g)'
    <2> SUFFICES ASSUME NEW g, Held(g) PROVE Held(g)'
      OBVIOUS
    <2>1. PICK old \in Chans, e \in Dir :
            /\ old.leg[e].sock # 0
            /\ \/ g = old.leg[e].sock
               \/ IsOpen(old.leg[e].file) /\ g = heap[old.leg[e].file].fd
      BY DEF Held
    <2>2. PICK ch \in Chans' : ch.callid = old.callid /\ ch.leg[e] = old.leg[e]
      BY <1>10, <1>12, <2>1 DEF LegsStay
    <2>3. IsOpen(old.leg[e].file) =>
            heap'[old.leg[e].file] # NULL /\ heap'[old.leg[e].file] = heap[old.leg[e].file]
      BY <1>11 DEF IsOpen
    <2> QED BY <2>1, <2>2, <2>3 DEF Held, IsOpen
  <1>14. MainFds' = MainFds
    BY <1>2 DEF MainFds, MainPorts
  <1>15. ASSUME NEW g \in Fd, g = sfd
         PROVE  Accounted(g)'
    <2>1. CASE p \in Unbindable
      BY <1>5, <1>15, <2>1 DEF Accounted, UdpEntry, Fd
    <2>2. CASE p \notin Unbindable
      <3>1. mine.leg[d].sock = g /\ mine.leg[d].sock # 0
        BY <1>7, <1>9, <1>15, <2>2
      <3> QED BY <1>2, <3>1 DEF Accounted, Held
    <2> QED BY <2>1, <2>2
  <1>16. ASSUME NEW g \in Fd, g = ffd
         PROVE  Accounted(g)'
    <2>1. ffd # -1
      BY <1>16 DEF Fd
    <2>2. /\ file \in Heap
          /\ heap'[file] = [fd |-> ffd, stream |-> <<c, d>>]
      BY <1>3, <2>1 DEF TypeOK, FilesTypeOK
    <2>3. heap'[file] # NULL
      <3>1. [fd |-> ffd, stream |-> <<c, d>>] \in File
        BY <1>2, <1>16 DEF File, Stream
      <3> QED BY <2>2, <3>1, ConstantsAssumption
    <2>4. mine.leg[d].file = file /\ mine.leg[d].sock # 0
      BY <1>7, <1>9
    <2> QED BY <1>2, <1>16, <2>2, <2>3, <2>4 DEF Accounted, Held, IsOpen
  <1> SUFFICES ASSUME NEW g \in Fd, fdt'[g].kind # "free"
               PROVE  Accounted(g)'
    BY DEF NoLeak
  <1>17. CASE fdt[g].kind # "free"
    BY <1>5, <1>13, <1>14, <1>17 DEF NoLeak, Accounted
  <1> QED BY <1>6, <1>15, <1>16, <1>17

LEMMA ByeNoLeak ==
  ASSUME dups' = 0, OwnedInv, NoLeak, NEW m \in net, update_bye_channel(m)
  PROVE  NoLeak'
  <1> USE DEF OwnedInv
  <1> DEFINE c == m.call
             d == SubjectDir(m)
             i == find_channel_by_callid(c)
             leg == g_chanels[i].leg[d]
             file == leg.file
             S == {leg.sock} \cup {heap[file].fd}
  <1>1. Receive(m) /\ m.method = "BYE"
    BY DEF update_bye_channel
  <1>2. /\ c \in Calls /\ d \in Dir /\ UNCHANGED <<main, socks>> /\ PendingBye(c, d)
    BY <1>1, ReceivedOnce
  <1>3. i \in DOMAIN g_chanels /\ g_chanels[i].callid = c /\ g_chanels[i] \in Chans
    BY FindByCallid DEF TypeOK, ServerTypeOK, update_bye_channel, Chans
  <1>4. file # NULL
    BY DEF update_bye_channel, MayReturn
  <1>5. IsOpen(file) /\ heap[file].stream = <<c, d>>
    BY <1>2, <1>3, <1>4, WaitingFileOpen
  <1>6. /\ CloseFds(S)
        /\ heap' = [heap EXCEPT ![file] = NULL]
        /\ g_chanels' = Reset(i, d)
    BY <1>5 DEF update_bye_channel
  <1>7. LegsStay(c, d)
    BY <1>2, <1>3, <1>6, ResetStays DEF TypeOK, ServerTypeOK
  <1>8. \A g \in Fd : fdt'[g].kind # "free" => g \notin S /\ fdt'[g] = fdt[g]
    BY <1>6 DEF CloseFds, FreeEntry
  <1>9. \A old \in Chans, e \in Dir : old.callid = c /\ e = d => old.leg[e] = leg
    <2> HIDE DEF i
    <2> QED BY <1>3 DEF OneChannelPerCall, Chans
  <1> HIDE DEF c, d, i, leg, file
  <1>10. \A a \in Heap : a # file => heap'[a] = heap[a]
    BY <1>6 DEF TypeOK, FilesTypeOK
  <1>11. MainFds' = MainFds
    BY <1>2 DEF MainFds, MainPorts
  <1>12. ASSUME NEW g, Held(g), g \notin S
         PROVE  Held(g)'
    <2>1. PICK old \in Chans, e \in Dir :
            /\ old.leg[e].sock # 0
            /\ \/ g = old.leg[e].sock
               \/ IsOpen(old.leg[e].file) /\ g = heap[old.leg[e].file].fd
      BY <1>12 DEF Held
    <2>2. ~ (old.callid = c /\ e = d)
      BY <1>9, <1>12, <2>1 DEF file
    <2>3. PICK ch \in Chans' : ch.callid = old.callid /\ ch.leg[e] = old.leg[e]
      BY <1>7, <2>1, <2>2 DEF LegsStay
    <2>4. IsOpen(old.leg[e].file) =>
            /\ heap'[old.leg[e].file] # NULL
            /\ heap'[old.leg[e].file] = heap[old.leg[e].file]
      <3> SUFFICES ASSUME IsOpen(old.leg[e].file)
                   PROVE  /\ heap'[old.leg[e].file] # NULL
                          /\ heap'[old.leg[e].file] = heap[old.leg[e].file]
        OBVIOUS
      <3>1. old.leg[e].file \in Heap /\ heap[old.leg[e].file] # NULL
        BY DEF IsOpen
      <3>2. old.leg[e].file # NULL
        BY <3>1, ConstantsAssumption
      <3>3. heap[old.leg[e].file].stream = <<old.callid, e>>
        BY <2>1, <3>2 DEF FilesOwned
      <3>4. old.leg[e].file # file
        BY <1>5, <2>2, <3>3
      <3> QED BY <1>10, <3>1, <3>4
    <2> QED BY <2>1, <2>3, <2>4 DEF Held, IsOpen
  <1> SUFFICES ASSUME NEW g \in Fd, fdt'[g].kind # "free"
               PROVE  Accounted(g)'
    BY DEF NoLeak
  <1> QED BY <1>8, <1>11, <1>12 DEF NoLeak, Accounted
LEMMA MainOpenNoLeak ==
  ASSUME OwnedInv, NoLeak, NEW p \in StartupPorts, MainOpen(p)
  PROVE  NoLeak'
  <1> USE DEF OwnedInv
  <1> DEFINE f == AllocFd(fdt)
             s == buildsocket(f, p)
  <1>1. /\ UNCHANGED <<g_chanels, heap>>
        /\ fdt' = Install(fdt, f, UdpEntry(p))
        /\ socks' = [socks EXCEPT ![p] = s]
        /\ main' = [main EXCEPT !.todo = @ \ {p}]
        /\ main.phase = "open" /\ p \in main.todo
    BY DEF MainOpen, server, files
  <1>2. /\ \A g \in Fd \ {f} : fdt'[g] = fdt[g]
        /\ f \in Fd => fdt'[f] = UdpEntry(p) /\ fdt[f].kind = "free"
    <2>1. f = -1 \/ (f \in Fd /\ fdt[f].kind = "free")
      BY AllocFree
    <2> HIDE DEF f, s
    <2> QED BY <1>1, <2>1 DEF Install, TypeOK, KernelTypeOK, Fd
  <1>3. p \in Unbindable \/ s = f
    BY DEF buildsocket
  <1> HIDE DEF f, s
  <1>4. MainPorts' = MainPorts \cup {p} /\ p \notin MainPorts
    BY <1>1 DEF MainPorts, TypeOK, StarterTypeOK
  <1>5. /\ \A q \in MainPorts : socks'[q] = socks[q]
        /\ socks'[p] = s
    BY <1>1, <1>4 DEF TypeOK, StarterTypeOK, MainPorts
  <1>6. MainFds \subseteq MainFds' /\ s \in MainFds'
    BY <1>4, <1>5 DEF MainFds
  <1>7. \A g : Held(g) => Held(g)'
    BY <1>1 DEF Held, IsOpen, Chans
  <1> SUFFICES ASSUME NEW g \in Fd, fdt'[g].kind # "free"
               PROVE  Accounted(g)'
    BY DEF NoLeak
  <1>8. CASE g = f
    BY <1>2, <1>3, <1>6, <1>8 DEF Accounted, UdpEntry
  <1>9. CASE g # f
    BY <1>2, <1>6, <1>7, <1>9 DEF NoLeak, Accounted
  <1> QED BY <1>8, <1>9

LEMMA MainCloseNoLeak ==
  ASSUME OwnedInv, NoLeak, NEW p \in StartupPorts, MainClose(p)
  PROVE  NoLeak'
  <1> USE DEF OwnedInv
  <1>1. /\ UNCHANGED <<g_chanels, heap, socks>>
        /\ CloseFds({socks[p]})
        /\ main' = [main EXCEPT !.todo = @ \ {p}]
        /\ main.phase = "close" /\ p \in main.todo
    BY DEF MainClose, server, files
  <1>2. \A g \in Fd : fdt'[g].kind # "free" => g # socks[p] /\ fdt'[g] = fdt[g]
    BY <1>1 DEF CloseFds, FreeEntry
  <1>3. MainPorts = main.todo /\ MainPorts' = main.todo \ {p}
    BY <1>1 DEF MainPorts, TypeOK, StarterTypeOK
  <1>4. MainFds \ {socks[p]} \subseteq MainFds'
    BY <1>1, <1>3 DEF MainFds
  <1>5. \A g : Held(g) => Held(g)'
    BY <1>1 DEF Held, IsOpen, Chans
  <1> QED BY <1>2, <1>4, <1>5 DEF NoLeak, Accounted

LEMMA NoLeakInductive ==
  ASSUME dups' = 0, OwnedInv, NoLeak, [Next]_vars
  PROVE  NoLeak'
  <1>1. ASSUME UNCHANGED <<g_chanels, fdt, heap, socks, main>>
        PROVE  NoLeak'
    BY <1>1, LeakFrame DEF MainPorts
  <1>2. CASE UNCHANGED vars
    BY <1>1, <1>2 DEF vars
  <1>3. CASE Environment
    BY <1>1, <1>3 DEF Environment, StartCall, HangUp, SendRtp, EndFlight, Lose, ArriveRtp,
                      server, kernel, files, starter
  <1>4. ASSUME NEW m \in net, do_sip_message(m)
        PROVE  NoLeak'
    <2>1. CASE ByeFaults(m) \/ ByeUnknown(m)
      BY <1>1, <2>1 DEF ByeFaults, ByeUnknown, Receive, server, kernel, files, starter
    <2> QED BY <1>4, <2>1, InviteNoLeak, ByeNoLeak DEF do_sip_message
  <1>5. ASSUME NEW f \in Fd, NEW s \in Stream, do_rtp(f, s)
        PROVE  NoLeak'
    BY <1>1, <1>5 DEF do_rtp, RecordRtp, RtpFaults, IgnoreRtp, ReadRtp, starter
  <1>6. CASE MainTurn
    <2>1. UNCHANGED <<g_chanels, fdt, heap, socks>>
      BY <1>6 DEF MainTurn, server, kernel, files
    <2>2. MainPorts' = MainPorts
      BY <1>6, TurnKeepsPorts DEF OwnedInv
    <2> QED BY <2>1, <2>2, LeakFrame
  <1>7. ASSUME NEW p \in StartupPorts, MainOpen(p) \/ MainClose(p)
        PROVE  NoLeak'
    BY <1>7, MainOpenNoLeak, MainCloseNoLeak
  <1> QED BY <1>2, <1>3, <1>4, <1>5, <1>6, <1>7 DEF Next, epoll_thread, main_thread

\* Ownership of descriptors, strengthened by the account of those that are open.
AccountInv == IInv /\ (dups = 0 /\ RxNamed = {} => NoLeak)

LEMMA AccountInductive ==
  /\ Init => AccountInv
  /\ AccountInv /\ [Next]_vars => AccountInv'
  <1>1. Init => AccountInv
    <2>1. Init => \A f \in Fd : fdt[f].kind # "free" => f = 0
      BY DEF Init, FreeEntry
    <2> QED BY <2>1, IInvInductive DEF AccountInv, NoLeak, Accounted
  <1>2. ASSUME AccountInv, [Next]_vars
        PROVE  AccountInv'
    <2>1. IInv'
      BY <1>2, IInvInductive DEF AccountInv
    <2>2. dups' = 0 => dups = 0
      BY <1>2, DupsGrow DEF AccountInv, IInv
    <2>3. dups' = 0 /\ RxNamed = {} => NoLeak'
      BY <1>2, <2>2, NoLeakInductive DEF AccountInv, IInv
    <2> QED BY <2>1, <2>3 DEF AccountInv
  <1> QED BY <1>1, <1>2

\* The types, one channel for each call, and until a text is duplicated who owns
\* what and for whom each descriptor is open.
THEOREM Account == Spec => []AccountInv
  BY AccountInductive, PTL DEF Spec

\* For any number of calls, ports, descriptors and rounds of main(), whatever is
\* lost, late or out of order: until a message is duplicated, the descriptors
\* that are open are the standard input, the sockets whose bind() failed, those
\* of main(), and the socket and the file of each direction in the list.
THEOREM NothingLeaked ==
  ASSUME RxNamed = {}
  PROVE  Spec => []NoDescriptorLeak
  <1>1. AccountInv => NoDescriptorLeak
    BY DEF AccountInv, NoLeak, Accounted, Held, NoDescriptorLeak
  <1> QED BY <1>1, Account, PTL
==============================================================================
