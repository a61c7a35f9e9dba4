---------------------------- MODULE OrekaPromises ----------------------------
(***************************************************************************)
(* What OrekaServer does for the calls when the network is better than UDP *)
(* has to be: nothing duplicated, and, as each theorem says, messages in   *)
(* order, none lost, no port taken again too soon, descriptors to spare.   *)
(***************************************************************************)
EXTENDS OrekaLeaks, FiniteSetTheorems

------------------------------------------------------------------------------
(* What an INVITE does.                                                     *)

\* the direction the INVITE opened, in the list
Placed(c, d, p, leg) ==
  /\ leg \in Leg /\ leg.port = p /\ leg.sock # 0
  /\ IF p \in Unbindable \/ AllocFd(fdt) = -1 THEN leg.sock = -1
     ELSE leg.sock > 0 /\ fdt[leg.sock].kind = "free" /\ fdt'[leg.sock] = UdpEntry(p)
  /\ LegsAfter(c, d, leg)
  /\ LegsStay(c, d)
  /\ \E ch \in Chans' : ch.callid = c /\ ch.leg[d] = leg
  /\ \A ch \in Chans : ch.callid = c => ch.leg[d].sock = 0
  /\ \A ch \in Chans' : ch.callid # c => ch \in Chans

\* the descriptors: nothing that was open has changed
Bound(p, leg) ==
  /\ \A g \in Fd : fdt[g].kind # "free" => fdt'[g] = fdt[g]
  /\ \A g \in Fd : fdt[g].kind = "free" /\ fdt'[g].kind = "udp" =>
       g = leg.sock \/ fdt'[g].port = NoPort
  /\ \A g \in Fd : fdt'[g].kind = "udp" => fdt[g].kind = "udp" \/ fdt'[g] = UdpEntry(p)
  /\ newer' = IF leg.sock = -1 THEN newer
              ELSE newer \cup {<<leg.sock, g>> : g \in BoundAt(p)}

\* the file: there was no descriptor for it, or it is new and empty
Opened(c, d, p, leg) ==
  \/ /\ leg.file = NULL
     /\ AllocFd(Install(fdt, AllocFd(fdt), UdpEntry(p))) = -1
     /\ UNCHANGED <<heap, made, audio>>
  \/ /\ leg.file \in Heap /\ heap[leg.file] = NULL /\ heap'[leg.file] # NULL
     /\ heap'[leg.file].stream = <<c, d>>
     /\ \A a \in Heap \ {leg.file} : heap'[a] = heap[a]
     /\ made' = made \cup {<<c, d>>}
     /\ audio' = [audio EXCEPT ![<<c, d>>] = {}]

Invited(c, d, p, leg) ==
  /\ Invite(c, d, p) \in net /\ net' = net \ {Invite(c, d, p)}
  /\ call[c] # "idle" /\ fsPort[<<c, d>>] = p
  /\ UNCHANGED <<call, fsPort, main, socks, up, rq, lost, flight>>
  /\ up
  /\ Placed(c, d, p, leg)
  /\ Bound(p, leg)
  /\ Opened(c, d, p, leg)

\* The channels of other calls are those that were there.
LEMMA WithLegOthers ==
  ASSUME g_chanels \in Seq(Channel),
         NEW c \in Calls, NEW d \in Dir, NEW leg \in Leg,
         g_chanels' = WithLeg(c, d, leg)
  PROVE  \A ch \in Chans' : ch.callid # c => ch \in Chans
  <1> DEFINE i == find_channel_by_callid(c)
             new == SetLeg(NewChannel(c), d, leg)
             upd == SetLeg(g_chanels[i], d, leg)
  <1>1. CASE i = 0
    <2>1. new \in Channel /\ new.callid = c
      BY NewChannelType, SetLegType DEF NewChannel
    <2>2. g_chanels' = Append(g_chanels, new)
      BY <1>1 DEF WithLeg
    <2> HIDE DEF new
    <2>3. \A j \in DOMAIN g_chanels' :
            g_chanels'[j] = new \/ (j \in DOMAIN g_chanels /\ g_chanels'[j] = g_chanels[j])
      BY <2>1, <2>2
    <2> QED BY <2>1, <2>3 DEF Chans
  <1>2. CASE i # 0
    <2>1. i \in DOMAIN g_chanels /\ g_chanels[i].callid = c
      BY <1>2, FindByCallid
    <2>2. g_chanels[i] \in Channel
      BY <2>1
    <2>3. upd.callid = c
      BY <2>1, <2>2, SetLegType
    <2>4. g_chanels' = [g_chanels EXCEPT ![i] = upd]
      BY <1>2 DEF WithLeg
    <2> HIDE DEF i, upd
    <2> QED BY <2>1, <2>3, <2>4 DEF Chans
  <1> QED BY <1>1, <1>2

LEMMA InviteEffect ==
  ASSUME dups' = 0, OwnedInv, NEW m \in net, update_invite_channel(m)
  PROVE  \E c \in Calls, d \in Dir, p \in Ports, leg \in Leg : Invited(c, d, p, leg)
  <1> USE DEF OwnedInv
  <1> DEFINE c == m.call
             d == SubjectDir(m)
             p == m.port
             sfd == AllocFd(fdt)
             fdt1 == Install(fdt, sfd, UdpEntry(p))
             ffd == AllocFd(fdt1)
             sock == buildsocket(sfd, p)
  <1>1. Receive(m) /\ m.method = "INVITE" /\ up
    BY DEF update_invite_channel, Receive
  <1>2. /\ c \in Calls /\ d \in Dir /\ p \in Ports
        /\ net' = net \ {m} /\ UNCHANGED <<call, fsPort, main, socks>>
        /\ m = Invite(c, d, p)
        /\ PendingInvite(c, d)
        /\ call[c] # "idle" /\ fsPort[<<c, d>>] = p
    <2>1. /\ c \in Calls /\ d \in Dir /\ p \in Ports
          /\ net' = net \ {m} /\ UNCHANGED <<call, fsPort, main, socks>>
      BY <1>1, ReceivedOnce
    <2>2. m = Invite(c, d, p)
      BY <1>1 DEF TypeOK, NetworkTypeOK, Message, Invite, SubjectDir
    <2>3. Invite(c, d, p) \in net
      BY <2>2
    <2> HIDE DEF c, d, p
    <2> QED BY <2>1, <2>2, <2>3 DEF PendingInvite, NetSent
  <1>3. PICK file \in IF ffd = -1 THEN {NULL} ELSE {a \in Heap : heap[a] = NULL} :
          /\ g_chanels' = WithLeg(c, d,
               [sock |-> buildsocket(sfd, p), port |-> p, file |-> file])
          /\ heap' = IF ffd = -1 THEN heap
                     ELSE [heap EXCEPT ![file] = [fd |-> ffd, stream |-> <<c, d>>]]
    BY DEF update_invite_channel
  <1>4. /\ fdt' = Install(fdt1, ffd, FileEntry)
        /\ newer' = NewerThanBound(sfd, p)
        /\ made' = IF ffd = -1 THEN made ELSE made \cup {<<c, d>>}
        /\ audio' = IF ffd = -1 THEN audio ELSE [audio EXCEPT ![<<c, d>>] = {}]
        /\ UNCHANGED <<up, rq, lost, flight>>
    BY <1>1 DEF update_invite_channel, Receive
  <1>5. /\ \A g \in Fd : fdt[g].kind # "free" => fdt'[g] = fdt[g]
        /\ sfd = -1 \/ (sfd \in Fd /\ fdt[sfd].kind = "free" /\ fdt'[sfd] = UdpEntry(p))
        /\ ffd = -1 \/ (ffd \in Fd /\ fdt[ffd].kind = "free" /\ fdt'[ffd] = FileEntry)
    <2>1. fdt \in Table /\ UdpEntry(p).kind # "free"
      BY DEF TypeOK, KernelTypeOK, Table, Kind, UdpEntry
    <2> QED BY <1>4, <2>1, TwoInstalled
  <1>6. \A g \in Fd : fdt'[g] = fdt[g] \/ g = sfd \/ g = ffd
    <2>1. \A t \in Table : \A g, e : \A h \in Fd : h # g => Install(t, g, e)[h] = t[h]
      BY DEF Install, Table
    <2>2. fdt \in Table /\ fdt1 \in Table
      <3>1. fdt \in Table
        BY DEF TypeOK, KernelTypeOK, Table, Kind
      <3> QED BY <1>2, <1>5, <3>1, InstallType, EntryTypes
    <2> HIDE DEF fdt1, ffd, sfd
    <2> QED BY <1>4, <2>1, <2>2 DEF fdt1
  <1> DEFINE leg == [sock |-> sock, port |-> p, file |-> file]
  <1> HIDE DEF c, d, p, sfd, fdt1, ffd
  <1>7. /\ sock = IF p \in Unbindable THEN -1 ELSE sfd
        /\ sock # 0 /\ sock \in Fd \cup {-1}
    BY <1>5 DEF buildsocket, StdinOpen
  <1>8. leg \in Leg
    BY <1>2, <1>3, <1>7 DEF Leg
  <1>9. newer' = IF sock = -1 THEN newer ELSE newer \cup {<<sfd, g>> : g \in BoundAt(p)}
    BY <1>4 DEF NewerThanBound
  <1> HIDE DEF sock
  <1>10. /\ LegsStay(c, d)
         /\ \E ch \in Chans' : ch.callid = c /\ ch.leg[d] = leg
    BY <1>2, <1>3, <1>8, WithLegStays DEF TypeOK, ServerTypeOK, sock
  <1>11. LegsAfter(c, d, leg)
    BY <1>2, <1>3, <1>8, WithLegLegs DEF TypeOK, ServerTypeOK, sock
  <1>12. \A ch \in Chans : ch.callid = c => ch.leg[d].sock = 0
    BY <1>2 DEF LegsInStep, NoLeg
  <1>13. \A ch \in Chans' : ch.callid # c => ch \in Chans
    BY <1>2, <1>3, <1>8, WithLegOthers DEF TypeOK, ServerTypeOK, sock
  <1>14. Placed(c, d, p, leg)
    <2>1. leg.sock = sock /\ leg.port = p
      OBVIOUS
    <2>2. CASE p \in Unbindable \/ sfd = -1
      BY <1>7, <1>8, <1>10, <1>11, <1>12, <1>13, <2>1, <2>2 DEF Placed, sfd
    <2>3. CASE p \notin Unbindable /\ sfd # -1
      <3>1. sock = sfd /\ sfd \in Fd /\ sfd > 0
        BY <1>5, <1>7, <2>3 DEF Fd
      <3> QED BY <1>5, <1>7, <1>8, <1>10, <1>11, <1>12, <1>13, <2>1, <2>3, <3>1 DEF Placed, sfd
    <2> QED BY <2>2, <2>3
  <1>15. Bound(p, leg)
    <2>1. leg.sock = sock
      OBVIOUS
    <2>2. newer' = IF leg.sock = -1 THEN newer
                   ELSE newer \cup {<<leg.sock, g>> : g \in BoundAt(p)}
      <3>1. sock # -1 => sock = sfd
        BY <1>7
      <3> QED BY <1>9, <2>1, <3>1
    <2>3. \A g \in Fd : fdt[g].kind = "free" /\ fdt'[g].kind = "udp" =>
            g = leg.sock \/ fdt'[g].port = NoPort
      BY <1>5, <1>6, <1>7, <2>1 DEF UdpEntry, FileEntry, Fd
    <2>4. \A g \in Fd : fdt'[g].kind = "udp" => fdt[g].kind = "udp" \/ fdt'[g] = UdpEntry(p)
      BY <1>5, <1>6 DEF FileEntry, Fd
    <2> HIDE DEF leg
    <2> QED BY <1>5, <2>2, <2>3, <2>4 DEF Bound
  <1>16. Opened(c, d, p, leg)
    <2>1. leg.file = file
      OBVIOUS
    <2> HIDE DEF leg
    <2>2. CASE ffd = -1
      BY <1>3, <1>4, <2>1, <2>2 DEF Opened, ffd, fdt1, sfd
    <2>3. CASE ffd # -1
      <3>1. file \in Heap /\ heap[file] = NULL
        BY <1>3, <2>3
      <3>2. heap' = [heap EXCEPT ![file] = [fd |-> ffd, stream |-> <<c, d>>]] /\ DOMAIN heap = Heap
        BY <1>3, <2>3 DEF TypeOK, FilesTypeOK
      <3>3. [fd |-> ffd, stream |-> <<c, d>>] \in File
        BY <1>2, <1>5, <2>3 DEF File, Stream
      <3>4. heap'[file] = [fd |-> ffd, stream |-> <<c, d>>] /\ heap'[file] # NULL
        BY <3>1, <3>2, <3>3, ConstantsAssumption
      <3>5. \A a \in Heap \ {file} : heap'[a] = heap[a]
        BY <3>2
      <3> QED BY <1>4, <2>1, <2>3, <3>1, <3>4, <3>5 DEF Opened
    <2> QED BY <2>2, <2>3
  <1> HIDE DEF leg
  <1> QED BY <1>1, <1>2, <1>4, <1>8, <1>14, <1>15, <1>16 DEF Invited
------------------------------------------------------------------------------
(* What a BYE does.                                                         *)

\* the channel list: the direction is closed, and no channel is left without one
Cleared(c, d, leg) ==
  /\ leg \in Leg /\ leg.sock # 0
  /\ \A ch \in Chans : ch.callid = c => ch.leg[d] = leg
  /\ \E ch \in Chans : ch.callid = c
  /\ LegsAfter(c, d, ClosedLeg(leg))
  /\ LegsStay(c, d)
  /\ \A ch \in Chans' : ch \in Chans \/ \E e \in Dir : ch.leg[e].sock # 0

\* the descriptors: those that were closed belonged to the direction
Released(c, d, leg) ==
  \E S \in SUBSET (Fd \cup {-1}) :
    /\ CloseFds(S)
    /\ \A ch \in Chans, e \in Dir :
         ch.leg[e].sock > 0 /\ ~ (ch.callid = c /\ e = d) => ch.leg[e].sock \notin S

\* the file
Finished(c, d, leg) ==
  /\ IsOpen(leg.file) /\ heap[leg.file].stream = <<c, d>>
  /\ heap' = [heap EXCEPT ![leg.file] = NULL]
  /\ UNCHANGED <<made, audio>>

Ended(c, d, leg) ==
  /\ Bye(c, d) \in net /\ net' = net \ {Bye(c, d)}
  /\ call[c] = "down"
  /\ UNCHANGED <<call, fsPort, main, socks, up, lost, flight>>
  /\ up
  /\ InOrder => \A e \in Dir, p \in Ports : Invite(c, e, p) \notin net
  /\ Cleared(c, d, leg)
  /\ Released(c, d, leg)
  /\ Finished(c, d, leg)

\* The channel that remains after a BYE has a direction that is not closed.
LEMMA ResetInUse ==
  ASSUME g_chanels \in Seq(Channel), NEW i \in DOMAIN g_chanels, NEW d \in Dir,
         g_chanels' = Reset(i, d)
  PROVE  \A ch \in Chans' : ch \in Chans \/ \E e \in Dir : ch.leg[e].sock # 0
  <1> DEFINE leg == ClosedLeg(g_chanels[i].leg[d])
             upd == SetLeg(g_chanels[i], d, leg)
             chs == [g_chanels EXCEPT ![i] = upd]
  <1>1. leg \in Leg
    <2>1. g_chanels[i] \in Channel
      OBVIOUS
    <2>2. g_chanels[i].leg[d] \in Leg
      BY <2>1 DEF Channel
    <2>3. 0 \in Fd
      BY ConstantsAssumption DEF Fd
    <2> QED BY <2>2, <2>3 DEF Leg, ClosedLeg
  <1>2. upd \in Channel
    <2> HIDE DEF leg
    <2>1. g_chanels[i] \in Channel
      OBVIOUS
    <2> QED BY <1>1, <2>1, SetLegType
  <1>3. g_chanels' = IF \A e \in Dir : chs[i].leg[e].sock = 0 THEN Erase(chs, i) ELSE chs
    BY DEF Reset, ClosedLeg
  <1> HIDE DEF upd, leg
  <1>4. chs \in Seq(Channel) /\ DOMAIN chs = DOMAIN g_chanels
    BY <1>2
  <1>5. \A j \in DOMAIN chs : j # i => chs[j] = g_chanels[j]
    OBVIOUS
  <1> HIDE DEF chs
  <1>6. CASE \A e \in Dir : chs[i].leg[e].sock = 0
    <2>1. \A j \in DOMAIN g_chanels' : \E k \in DOMAIN chs \ {i} : g_chanels'[j] = chs[k]
      BY <1>3, <1>4, <1>6, EraseSeq
    <2> QED BY <1>4, <1>5, <2>1 DEF Chans
  <1>7. CASE ~ \A e \in Dir : chs[i].leg[e].sock = 0
    BY <1>3, <1>4, <1>5, <1>7 DEF Chans
  <1> QED BY <1>6, <1>7

\* A BYE that is delivered in order finds no INVITE of its call behind it.
LEMMA ByeIsLast ==
  ASSUME InOrder, NEW c \in Calls, NEW d \in Dir, Receive(Bye(c, d))
  PROVE  \A e \in Dir, p \in Ports : Invite(c, e, p) \notin net
  <1> SUFFICES ASSUME NEW e \in Dir, NEW p \in Ports, Invite(c, e, p) \in net
               PROVE  FALSE
    OBVIOUS
  <1>1. SendRank(Bye(c, d)) <= SendRank(Invite(c, e, p))
    BY DEF Receive, Invite, Bye
  <1>2. SendRank(Bye(c, d)) \in {2, 3} /\ SendRank(Invite(c, e, p)) \in {0, 1}
    BY DEF SendRank, Invite, Bye
  <1> QED BY <1>1, <1>2

LEMMA ByeEffect ==
  ASSUME dups' = 0, OwnedInv, NEW m \in net, update_bye_channel(m)
  PROVE  \E c \in Calls, d \in Dir, leg \in Leg : Ended(c, d, leg)
  <1> USE DEF OwnedInv
  <1> DEFINE c == m.call
             d == SubjectDir(m)
             i == find_channel_by_callid(c)
             leg == g_chanels[i].leg[d]
             file == leg.file
             S == {leg.sock} \cup {heap[file].fd}
  <1>1. Receive(m) /\ m.method = "BYE" /\ up
    BY DEF update_bye_channel, Receive
  <1>2. /\ c \in Calls /\ d \in Dir /\ UNCHANGED <<main, socks, call, fsPort>>
        /\ net' = net \ {m} /\ PendingBye(c, d)
        /\ m = Bye(c, d) /\ call[c] = "down"
    <2>1. /\ c \in Calls /\ d \in Dir /\ UNCHANGED <<main, socks, call, fsPort>>
          /\ net' = net \ {m} /\ PendingBye(c, d)
      BY <1>1, ReceivedOnce
    <2>2. m = Bye(c, d)
      BY <1>1 DEF TypeOK, NetworkTypeOK, Message, Bye, SubjectDir
    <2>3. Bye(c, d) \in net
      BY <2>2
    <2> HIDE DEF c, d
    <2> QED BY <2>1, <2>2, <2>3 DEF NetSent
  <1>3. i \in DOMAIN g_chanels /\ g_chanels[i].callid = c /\ g_chanels[i] \in Chans
    BY FindByCallid DEF TypeOK, ServerTypeOK, update_bye_channel, Chans
  <1>4. file # NULL
    BY DEF update_bye_channel, MayReturn
  <1>5. leg.sock # 0 /\ IsOpen(file) /\ heap[file].stream = <<c, d>> /\ fdt[heap[file].fd].kind = "file"
    BY <1>2, <1>3, <1>4, WaitingFileOpen
  <1>6. /\ CloseFds(S)
        /\ heap' = [heap EXCEPT ![file] = NULL]
        /\ g_chanels' = Reset(i, d)
        /\ UNCHANGED <<up, lost, flight, made, audio>>
    BY <1>1, <1>5 DEF update_bye_channel, Receive
  <1>7. leg \in Leg
    BY <1>2, <1>3, ChansType DEF TypeOK, ServerTypeOK
  <1>8. \A ch \in Chans : ch.callid = c => ch.leg[d] = leg
    <2> HIDE DEF i
    <2> QED BY <1>3 DEF OneChannelPerCall, Chans
  <1>9. LegsAfter(c, d, ClosedLeg(leg)) /\ LegsStay(c, d)
    BY <1>2, <1>3, <1>6, ResetLegs, ResetStays DEF TypeOK, ServerTypeOK
  <1>10. \A ch \in Chans' : ch \in Chans \/ \E e \in Dir : ch.leg[e].sock # 0
    BY <1>2, <1>3, <1>6, ResetInUse DEF TypeOK, ServerTypeOK
  <1>11. InOrder => \A e \in Dir, p \in Ports : Invite(c, e, p) \notin net
    BY <1>1, <1>2, ByeIsLast
  <1>12. \A ch \in Chans, e \in Dir :
           ch.leg[e].sock > 0 /\ ~ (ch.callid = c /\ e = d) => ch.leg[e].sock \notin S
    <2> SUFFICES ASSUME NEW ch \in Chans, NEW e \in Dir,
                        ch.leg[e].sock > 0, ~ (ch.callid = c /\ e = d)
                 PROVE  ch.leg[e].sock \notin S
      OBVIOUS
    <2>1. fdt[ch.leg[e].sock].kind = "udp"
      BY UdpKind DEF SocketsOwned
    <2>2. ch.leg[e].sock # leg.sock
      <3> HIDE DEF i, c, d
      <3> QED BY <1>2, <1>3 DEF SocketsOwned
    <2> HIDE DEF leg, file
    <2> QED BY <1>5, <2>1, <2>2
  <1>13. S \in SUBSET (Fd \cup {-1})
    <2>1. leg.sock \in Fd \cup {-1}
      <3> HIDE DEF leg
      <3> QED BY <1>7 DEF Leg
    <2>2. heap[file].fd \in Fd
      <3> HIDE DEF file
      <3> QED BY <1>5 DEF IsOpen, TypeOK, FilesTypeOK, File
    <2> HIDE DEF leg, file
    <2> QED BY <2>1, <2>2
  <1> HIDE DEF S
  <1>14. Released(c, d, leg)
    BY <1>6, <1>12, <1>13 DEF Released
  <1>15. Finished(c, d, leg) /\ leg.sock # 0
    BY <1>5, <1>6 DEF Finished
  <1> HIDE DEF c, d, leg, i
  <1>16. Cleared(c, d, leg)
    BY <1>3, <1>7, <1>8, <1>9, <1>10, <1>15 DEF Cleared
  <1> QED BY <1>1, <1>2, <1>6, <1>7, <1>11, <1>14, <1>15, <1>16 DEF Ended
------------------------------------------------------------------------------
(* Where the calls and their texts are, and what the list knows of them.    *)

\* the INVITE of a direction was sent, and has come; its BYE was, and has
Arrived(c, d) == call[c] # "idle" /\ Invite(c, d, fsPort[<<c, d>>]) \notin net \cup lost
Retired(c, d) == call[c] = "down" /\ Bye(c, d) \notin net \cup lost

CallsHavePorts ==
  \A c \in Calls, d \in Dir : fsPort[<<c, d>>] = NoPort <=> call[c] = "idle"

ChannelsInUse == \A ch \in Chans : \E d \in Dir : ch.leg[d].sock # 0

LegsPlaced ==
  \A ch \in Chans, d \in Dir : ch.leg[d].sock # 0 =>
    /\ ch.leg[d].port = fsPort[<<ch.callid, d>>]
    /\ ch.leg[d].port \in Unbindable => ch.leg[d].sock = -1

\* a direction whose INVITE has come is open until its BYE
InviteSeen ==
  \A c \in Calls, d \in Dir : Arrived(c, d) /\ PendingBye(c, d) =>
    \E ch \in Chans : ch.callid = c /\ ch.leg[d].sock # 0

\* in order: the first BYE of a call comes after its INVITEs, and closes for good
InSequence ==
  \A c \in Calls, d \in Dir : Retired(c, d) =>
    /\ \A e \in Dir, p \in Ports : Invite(c, e, p) \notin net
    /\ up => \A ch \in Chans : ch.callid = c => ch.leg[d].sock = 0

StepInv ==
  /\ CallsHavePorts
  /\ ChannelsInUse
  /\ LegsPlaced
  /\ InviteSeen
  /\ InOrder => InSequence

LEMMA StepInit == Init => StepInv
  <1> SUFFICES ASSUME Init PROVE StepInv
    OBVIOUS
  <1>1. Chans = {} /\ \A c \in Calls : call[c] = "idle"
    BY DEF Init, Chans
  <1>2. CallsHavePorts
    BY DEF Init, CallsHavePorts, Stream
  <1> QED BY <1>1, <1>2 DEF StepInv, ChannelsInUse, LegsPlaced, InviteSeen, InSequence,
                            Arrived, Retired

\* A step that leaves the list and the texts alone.
LEMMA StepFrame ==
  ASSUME StepInv, UNCHANGED <<g_chanels, call, fsPort, net, lost>>, up' => up
  PROVE  StepInv'
  <1>1. Chans' = Chans
    BY DEF Chans
  <1>2. \A c \in Calls, d \in Dir :
          Arrived(c, d)' = Arrived(c, d) /\ Retired(c, d)' = Retired(c, d)
            /\ PendingBye(c, d)' = PendingBye(c, d)
    BY DEF Arrived, Retired, PendingBye
  <1>3. CallsHavePorts' /\ ChannelsInUse' /\ LegsPlaced'
    BY <1>1 DEF StepInv, CallsHavePorts, ChannelsInUse, LegsPlaced
  <1>4. InviteSeen'
    BY <1>1, <1>2 DEF StepInv, InviteSeen
  <1>5. InOrder => InSequence'
    BY <1>1, <1>2 DEF StepInv, InSequence
  <1> QED BY <1>3, <1>4, <1>5 DEF StepInv

\* What an environment step does to the texts.
LEMMA StartEffect ==
  ASSUME OwnedInv, NEW c \in Calls, StartCall(c)
  PROVE  \E p \in [Dir -> Ports \ PortsInUse] :
           /\ p["rx"] # p["tx"]
           /\ QuickReuse \/ \A d \in Dir : Quiet(p[d])
           /\ call[c] = "idle" /\ call' = [call EXCEPT ![c] = "up"]
           /\ \A x \in Calls, d \in Dir :
                fsPort'[<<x, d>>] = IF x = c THEN p[d] ELSE fsPort[<<x, d>>]
           /\ net' = net \cup {Invite(c, d, p[d]) : d \in Dir}
           /\ fsPort' = [s \in Stream |-> IF s[1] = c THEN p[s[2]] ELSE fsPort[s]]
           /\ UNCHANGED <<g_chanels, up, lost, flight, rq, fdt, newer, socks, main, heap, made, audio>>
  <1>1. PICK p \in [Dir -> Ports \ PortsInUse] :
          /\ p["rx"] # p["tx"]
          /\ QuickReuse \/ \A d \in Dir : Quiet(p[d])
          /\ fsPort' = [s \in Stream |-> IF s[1] = c THEN p[s[2]] ELSE fsPort[s]]
          /\ net' = net \cup {Invite(c, d, p[d]) : d \in Dir}
    BY DEF StartCall
  <1>2. /\ call[c] = "idle" /\ call' = [call EXCEPT ![c] = "up"]
        /\ UNCHANGED <<g_chanels, up, lost, flight, rq, fdt, newer, socks, main, heap, made, audio>>
    BY DEF StartCall, server, starter, kernel, files
  <1>3. \A x \in Calls, d \in Dir :
          fsPort'[<<x, d>>] = IF x = c THEN p[d] ELSE fsPort[<<x, d>>]
    BY <1>1 DEF Stream
  <1> QED BY <1>1, <1>2, <1>3

LEMMA StartStep ==
  ASSUME OwnedInv, StepInv, NEW c \in Calls, StartCall(c)
  PROVE  StepInv'
  <1> USE DEF OwnedInv, StepInv
  <1>1. PICK p \in [Dir -> Ports \ PortsInUse] :
           /\ call[c] = "idle" /\ call' = [call EXCEPT ![c] = "up"]
           /\ \A x \in Calls, d \in Dir :
                fsPort'[<<x, d>>] = IF x = c THEN p[d] ELSE fsPort[<<x, d>>]
           /\ net' = net \cup {Invite(c, d, p[d]) : d \in Dir}
           /\ UNCHANGED <<g_chanels, up, lost>>
    BY StartEffect
  <1>2. /\ call \in [Calls -> {"idle", "up", "down"}]
        /\ \A x \in Calls, d \in Dir : fsPort[<<x, d>>] \in Ports \cup {NoPort}
        /\ \A d \in Dir : p[d] \in Ports
    BY DEF TypeOK, NetworkTypeOK, Stream
  <1>3. Chans' = Chans /\ \A ch \in Chans : ch.callid \in Calls
    BY <1>1, ChansType DEF Chans, TypeOK, ServerTypeOK
  <1>4. \A x \in Calls : call'[x] = IF x = c THEN "up" ELSE call[x]
    BY <1>1, <1>2
  <1>5. /\ \A d \in Dir : Invite(c, d, p[d]) \in net'
        /\ net \subseteq net'
        /\ \A x \in Calls, d \in Dir, q \in Ports :
             x # c /\ Invite(x, d, q) \in net' => Invite(x, d, q) \in net
        /\ \A x \in Calls, d \in Dir : Bye(x, d) \in net' => Bye(x, d) \in net
    BY <1>1 DEF Invite, Bye
  <1>6. \A ch \in Chans, d \in Dir : ch.callid = c => ch.leg[d].sock = 0
    BY <1>1 DEF LegsInStep, PendingInvite, NoLeg
  <1>7. CallsHavePorts'
    <2> SUFFICES ASSUME NEW x \in Calls, NEW d \in Dir
                 PROVE  fsPort'[<<x, d>>] = NoPort <=> call'[x] = "idle"
      BY DEF CallsHavePorts
    <2>1. fsPort[<<x, d>>] = NoPort <=> call[x] = "idle"
      BY DEF CallsHavePorts
    <2> QED BY <1>1, <1>2, <1>4, <2>1, ConstantsAssumption
  <1>8. ChannelsInUse'
    BY <1>3 DEF ChannelsInUse
  <1>9. LegsPlaced'
    BY <1>1, <1>3, <1>6 DEF LegsPlaced
  <1>10. InviteSeen'
    <2>1. \A d \in Dir : ~ Arrived(c, d)'
      BY <1>1, <1>5 DEF Arrived
    <2>2. \A x \in Calls, d \in Dir : x # c /\ Arrived(x, d)' => Arrived(x, d)
      BY <1>1, <1>4, <1>5 DEF Arrived
    <2>3. \A x \in Calls, d \in Dir : PendingBye(x, d)' => PendingBye(x, d)
      BY <1>1, <1>4, <1>5 DEF PendingBye
    <2> QED BY <1>3, <2>1, <2>2, <2>3 DEF InviteSeen
  <1>11. InOrder => InSequence'
    <2>1. \A x \in Calls, d \in Dir : Retired(x, d)' => x # c /\ Retired(x, d)
      BY <1>1, <1>4, <1>5 DEF Retired
    <2> QED BY <1>1, <1>3, <1>5, <2>1 DEF InSequence
  <1> QED BY <1>7, <1>8, <1>9, <1>10, <1>11

LEMMA HangUpStep ==
  ASSUME OwnedInv, StepInv, NEW c \in Calls, HangUp(c)
  PROVE  StepInv'
  <1> USE DEF OwnedInv, StepInv
  <1>1. /\ call[c] = "up" /\ call' = [call EXCEPT ![c] = "down"]
        /\ net' = net \cup {Bye(c, d) : d \in Dir}
        /\ UNCHANGED <<fsPort, g_chanels, up, lost>>
    BY DEF HangUp, server
  <1>2. \A x \in Calls : call'[x] = IF x = c THEN "down" ELSE call[x]
    BY <1>1 DEF TypeOK, NetworkTypeOK
  <1>3. Chans' = Chans
    BY <1>1 DEF Chans
  <1>4. /\ \A x \in Calls, d \in Dir : \A q : Invite(x, d, q) \in net' <=> Invite(x, d, q) \in net
        /\ \A x \in Calls, d \in Dir : x # c /\ Bye(x, d) \in net' => Bye(x, d) \in net
        /\ \A d \in Dir : Bye(c, d) \in net'
        /\ net \subseteq net'
    BY <1>1 DEF Invite, Bye
  <1>5. CallsHavePorts' /\ ChannelsInUse' /\ LegsPlaced'
    <2>1. CallsHavePorts'
      <3> SUFFICES ASSUME NEW x \in Calls, NEW d \in Dir
                   PROVE  fsPort[<<x, d>>] = NoPort <=> call'[x] = "idle"
        BY <1>1 DEF CallsHavePorts
      <3>1. fsPort[<<x, d>>] = NoPort <=> call[x] = "idle"
        BY DEF CallsHavePorts
      <3> QED BY <1>1, <1>2, <3>1
    <2> QED BY <1>1, <1>3, <2>1 DEF ChannelsInUse, LegsPlaced
  <1>6. InviteSeen'
    <2>1. \A x \in Calls, d \in Dir : Arrived(x, d)' => Arrived(x, d)
      BY <1>1, <1>2, <1>4 DEF Arrived
    <2>2. \A x \in Calls, d \in Dir : PendingBye(x, d)' => PendingBye(x, d)
      BY <1>1, <1>2, <1>4 DEF PendingBye
    <2> QED BY <1>3, <2>1, <2>2 DEF InviteSeen
  <1>7. InOrder => InSequence'
    <2>1. \A x \in Calls, d \in Dir : Retired(x, d)' => Retired(x, d)
      BY <1>1, <1>2, <1>4 DEF Retired
    <2> QED BY <1>1, <1>3, <1>4, <2>1 DEF InSequence
  <1> QED BY <1>5, <1>6, <1>7

LEMMA LoseStep ==
  ASSUME OwnedInv, StepInv, NEW m \in net, Lose(m)
  PROVE  StepInv'
  <1> USE DEF OwnedInv, StepInv
  <1>1. /\ net' = net \ {m} /\ lost' = lost \cup {m}
        /\ UNCHANGED <<call, fsPort, g_chanels, up>>
    BY DEF Lose, server, caller
  <1>2. Chans' = Chans /\ net' \cup lost' = net \cup lost
    BY <1>1 DEF Chans
  <1>3. CallsHavePorts' /\ ChannelsInUse' /\ LegsPlaced'
    BY <1>1, <1>2 DEF CallsHavePorts, ChannelsInUse, LegsPlaced
  <1>4. \A c \in Calls, d \in Dir :
          /\ Arrived(c, d)' => Arrived(c, d)
          /\ Retired(c, d)' => Retired(c, d)
          /\ PendingBye(c, d)' => PendingBye(c, d)
    BY <1>1, <1>2 DEF Arrived, Retired, PendingBye
  <1>5. InviteSeen'
    BY <1>2, <1>4 DEF InviteSeen
  <1>6. InOrder => InSequence'
    BY <1>1, <1>2, <1>4 DEF InSequence
  <1> QED BY <1>3, <1>5, <1>6
LEMMA InviteStep ==
  ASSUME OwnedInv, StepInv,
         NEW c \in Calls, NEW d \in Dir, NEW p \in Ports, NEW leg \in Leg, Invited(c, d, p, leg)
  PROVE  StepInv'
  <1> USE DEF OwnedInv, StepInv
  <1>1. /\ Invite(c, d, p) \in net /\ net' = net \ {Invite(c, d, p)}
        /\ call[c] # "idle" /\ fsPort[<<c, d>>] = p
        /\ UNCHANGED <<call, fsPort, up, lost>>
        /\ leg.port = p /\ leg.sock # 0
        /\ p \in Unbindable => leg.sock = -1
        /\ LegsAfter(c, d, leg)
        /\ LegsStay(c, d)
    BY DEF Invited, Placed
  <1>2. PICK mine \in Chans' : mine.callid = c /\ mine.leg[d] = leg
    BY DEF Invited, Placed
  <1>3. \A ch \in Chans' : ch \in Channel /\ ch.callid \in Calls
    BY <1>1 DEF LegsAfter, Channel
  <1>4. \A ch \in Chans', e \in Dir : ch.leg[e].sock # 0 =>
          \/ ch.callid = c /\ e = d /\ ch.leg[e] = leg
          \/ \E old \in Chans : old.callid = ch.callid /\ old.leg[e] = ch.leg[e]
    BY <1>1 DEF LegsAfter, NoLeg
  <1>5. CallsHavePorts'
    BY <1>1 DEF CallsHavePorts
  <1>6. ChannelsInUse'
    <2> SUFFICES ASSUME NEW ch \in Chans' PROVE \E e \in Dir : ch.leg[e].sock # 0
      BY DEF ChannelsInUse
    <2>1. CASE ch.callid = c
      <3>1. ch.leg[d] = leg
        BY <1>1, <2>1 DEF LegsAfter
      <3> QED BY <1>1, <3>1
    <2>2. CASE ch.callid # c
      <3>1. ch \in Chans
        BY <2>2 DEF Invited, Placed
      <3> QED BY <3>1 DEF ChannelsInUse
    <2> QED BY <2>1, <2>2
  <1>7. LegsPlaced'
    BY <1>1, <1>4 DEF LegsPlaced
  <1>8. InviteSeen'
    <2>1. \A x \in Calls, e \in Dir : Arrived(x, e)' => Arrived(x, e) \/ (x = c /\ e = d)
      BY <1>1 DEF Arrived, Invite
    <2>2. \A x \in Calls, e \in Dir : PendingBye(x, e)' => PendingBye(x, e)
      BY <1>1 DEF PendingBye
    <2> SUFFICES ASSUME NEW x \in Calls, NEW e \in Dir, Arrived(x, e)', PendingBye(x, e)'
                 PROVE  \E ch \in Chans' : ch.callid = x /\ ch.leg[e].sock # 0
      BY DEF InviteSeen
    <2>3. CASE x = c /\ e = d
      BY <1>1, <1>2, <2>3
    <2>4. CASE ~ (x = c /\ e = d)
      <3>1. PICK old \in Chans : old.callid = x /\ old.leg[e].sock # 0
        BY <2>1, <2>2, <2>4 DEF InviteSeen
      <3> QED BY <1>1, <2>4, <3>1 DEF LegsStay
    <2> QED BY <2>3, <2>4
  <1>9. InOrder => InSequence'
    <2>1. \A x \in Calls, e \in Dir : Retired(x, e)' => Retired(x, e)
      BY <1>1 DEF Retired, Invite, Bye
    <2> SUFFICES ASSUME InOrder, NEW x \in Calls, NEW e \in Dir, Retired(x, e)'
                 PROVE  /\ \A y \in Dir, q \in Ports : Invite(x, y, q) \notin net'
                        /\ up' => \A ch \in Chans' : ch.callid = x => ch.leg[e].sock = 0
      BY DEF InSequence
    <2>2. /\ \A y \in Dir, q \in Ports : Invite(x, y, q) \notin net
          /\ up => \A ch \in Chans : ch.callid = x => ch.leg[e].sock = 0
      BY <2>1 DEF InSequence
    <2>3. x # c
      BY <1>1, <2>2
    <2> QED BY <1>1, <1>4, <2>2, <2>3
  <1> QED BY <1>5, <1>6, <1>7, <1>8, <1>9
LEMMA ByeStep ==
  ASSUME OwnedInv, StepInv,
         NEW c \in Calls, NEW d \in Dir, NEW leg \in Leg, Ended(c, d, leg)
  PROVE  StepInv'
  <1> USE DEF OwnedInv, StepInv
  <1>1. /\ Bye(c, d) \in net /\ net' = net \ {Bye(c, d)}
        /\ call[c] = "down"
        /\ UNCHANGED <<call, fsPort, up, lost>>
        /\ InOrder => \A e \in Dir, p \in Ports : Invite(c, e, p) \notin net
        /\ LegsAfter(c, d, ClosedLeg(leg))
        /\ LegsStay(c, d)
        /\ \A ch \in Chans' : ch \in Chans \/ \E e \in Dir : ch.leg[e].sock # 0
    BY DEF Ended, Cleared
  <1>2. \A ch \in Chans', e \in Dir :
          /\ ch.callid = c /\ e = d => ch.leg[e].sock = 0
          /\ ch.leg[e].sock # 0 =>
               \E old \in Chans : old.callid = ch.callid /\ old.leg[e] = ch.leg[e]
    BY <1>1 DEF LegsAfter, NoLeg, ClosedLeg
  <1>3. CallsHavePorts' /\ ChannelsInUse'
    BY <1>1 DEF CallsHavePorts, ChannelsInUse
  <1>4. LegsPlaced'
    BY <1>1, <1>2 DEF LegsPlaced
  <1>5. \A x \in Calls, e \in Dir :
          /\ Arrived(x, e)' => Arrived(x, e)
          /\ PendingBye(x, e)' => PendingBye(x, e) /\ ~ (x = c /\ e = d)
          /\ Retired(x, e)' => Retired(x, e) \/ (x = c /\ e = d)
    BY <1>1 DEF Arrived, PendingBye, Retired, Invite, Bye
  <1>6. InviteSeen'
    <2> SUFFICES ASSUME NEW x \in Calls, NEW e \in Dir, Arrived(x, e)', PendingBye(x, e)'
                 PROVE  \E ch \in Chans' : ch.callid = x /\ ch.leg[e].sock # 0
      BY DEF InviteSeen
    <2>1. PICK old \in Chans : old.callid = x /\ old.leg[e].sock # 0
      BY <1>5 DEF InviteSeen
    <2> QED BY <1>1, <1>5, <2>1 DEF LegsStay
  <1>7. InOrder => InSequence'
    <2> SUFFICES ASSUME InOrder, NEW x \in Calls, NEW e \in Dir, Retired(x, e)'
                 PROVE  /\ \A y \in Dir, q \in Ports : Invite(x, y, q) \notin net'
                        /\ up' => \A ch \in Chans' : ch.callid = x => ch.leg[e].sock = 0
      BY DEF InSequence
    <2>1. CASE x = c /\ e = d
      BY <1>1, <1>2, <2>1
    <2>2. CASE ~ (x = c /\ e = d)
      <3>1. /\ \A y \in Dir, q \in Ports : Invite(x, y, q) \notin net
            /\ up => \A ch \in Chans : ch.callid = x => ch.leg[e].sock = 0
        BY <1>5, <2>2 DEF InSequence
      <3> QED BY <1>1, <1>2, <3>1
    <2> QED BY <2>1, <2>2
  <1> QED BY <1>3, <1>4, <1>6, <1>7

\* A BYE that closes nothing: its call has no channel, or the process falls.
LEMMA IdleByeStep ==
  ASSUME dups' = 0, OwnedInv, StepInv, NEW m \in net, ByeFaults(m) \/ ByeUnknown(m)
  PROVE  StepInv'
  <1> USE DEF OwnedInv, StepInv
  <1> DEFINE c == m.call
             d == SubjectDir(m)
  <1>1. /\ Receive(m) /\ m.method = "BYE"
        /\ UNCHANGED <<g_chanels, lost>>
        /\ up' => up /\ find_channel_by_callid(c) = 0
    BY DEF ByeFaults, ByeUnknown, Receive, server
  <1>2. /\ c \in Calls /\ d \in Dir /\ UNCHANGED <<call, fsPort>>
        /\ net' = net \ {m} /\ m = Bye(c, d)
    <2>1. c \in Calls /\ d \in Dir /\ UNCHANGED <<call, fsPort>> /\ net' = net \ {m}
      BY <1>1, ReceivedOnce
    <2>2. m = Bye(c, d)
      BY <1>1 DEF TypeOK, NetworkTypeOK, Message, Bye, SubjectDir
    <2> QED BY <2>1, <2>2
  <1> HIDE DEF c, d
  <1>3. Chans' = Chans
    BY <1>1 DEF Chans
  <1>4. CallsHavePorts' /\ ChannelsInUse' /\ LegsPlaced'
    BY <1>2, <1>3 DEF CallsHavePorts, ChannelsInUse, LegsPlaced
  <1>5. \A x \in Calls, e \in Dir :
          /\ Arrived(x, e)' => Arrived(x, e)
          /\ PendingBye(x, e)' => PendingBye(x, e)
          /\ Retired(x, e)' => Retired(x, e) \/ (x = c /\ e = d)
    BY <1>1, <1>2 DEF Arrived, PendingBye, Retired, Invite, Bye
  <1>6. InviteSeen'
    BY <1>3, <1>5 DEF InviteSeen
  <1>7. InOrder => InSequence'
    <2> SUFFICES ASSUME InOrder, NEW x \in Calls, NEW e \in Dir, Retired(x, e)'
                 PROVE  /\ \A y \in Dir, q \in Ports : Invite(x, y, q) \notin net'
                        /\ up' => \A ch \in Chans : ch.callid = x => ch.leg[e].sock = 0
      BY <1>3 DEF InSequence
    <2>1. CASE x = c /\ e = d
      <3>1. \A y \in Dir, q \in Ports : Invite(c, y, q) \notin net
        BY <1>1, <1>2, ByeIsLast
      <3>2. up' => \A ch \in Chans : ch.callid # c
        <4>1. ASSUME up' PROVE \A j \in DOMAIN g_chanels : g_chanels[j].callid # c
          BY <1>1, <4>1, FindByCallid DEF TypeOK, ServerTypeOK
        <4> QED BY <4>1 DEF Chans
      <3> QED BY <1>2, <2>1, <3>1, <3>2
    <2>2. CASE ~ (x = c /\ e = d)
      <3>1. /\ \A y \in Dir, q \in Ports : Invite(x, y, q) \notin net
            /\ up => \A ch \in Chans : ch.callid = x => ch.leg[e].sock = 0
        BY <1>5, <2>2 DEF InSequence
      <3> QED BY <1>1, <1>2, <3>1
    <2> QED BY <2>1, <2>2
  <1> QED BY <1>4, <1>6, <1>7

\* Neither RTP nor main() touches the channel list or the texts.
LEMMA OtherFrame ==
  ASSUME \/ \E s \in Stream : SendRtp(s) \/ EndFlight(s) \/ ArriveRtp(s)
         \/ \E f \in Fd, s \in Stream : do_rtp(f, s)
         \/ main_thread
         \/ UNCHANGED vars
  PROVE  /\ UNCHANGED <<g_chanels, call, fsPort, net, lost, heap, made>>
         /\ up' => up
  <1>1. CASE \E s \in Stream : SendRtp(s) \/ EndFlight(s) \/ ArriveRtp(s)
    BY <1>1 DEF SendRtp, EndFlight, ArriveRtp, server, files, caller, network
  <1>2. CASE \E f \in Fd, s \in Stream : do_rtp(f, s)
    BY <1>2 DEF do_rtp, RecordRtp, RtpFaults, IgnoreRtp, ReadRtp, caller, network
  <1>3. CASE main_thread
    BY <1>3 DEF main_thread, MainOpen, MainClose, MainTurn, server, files, caller, network
  <1> QED BY <1>1, <1>2, <1>3 DEF vars

LEMMA StepInductive ==
  ASSUME dups' = 0, OwnedInv, StepInv, [Next]_vars
  PROVE  StepInv'
  <1>1. ASSUME NEW m \in net, update_invite_channel(m)
        PROVE  StepInv'
    <2>1. PICK c \in Calls, d \in Dir, p \in Ports, leg \in Leg : Invited(c, d, p, leg)
      BY <1>1, InviteEffect
    <2> QED BY <2>1, InviteStep
  <1>2. ASSUME NEW m \in net, update_bye_channel(m)
        PROVE  StepInv'
    <2>1. PICK c \in Calls, d \in Dir, leg \in Leg : Ended(c, d, leg)
      BY <1>2, ByeEffect
    <2> QED BY <2>1, ByeStep
  <1>3. ASSUME NEW m \in net, ByeFaults(m) \/ ByeUnknown(m)
        PROVE  StepInv'
    BY <1>3, IdleByeStep
  <1>4. ASSUME NEW c \in Calls, StartCall(c) \/ HangUp(c)
        PROVE  StepInv'
    BY <1>4, StartStep, HangUpStep
  <1>5. ASSUME NEW m \in net, Lose(m)
        PROVE  StepInv'
    BY <1>5, LoseStep
  <1> QED BY <1>1, <1>2, <1>3, <1>4, <1>5, OtherFrame, StepFrame
       DEF Next, Environment, epoll_thread, do_sip_message
------------------------------------------------------------------------------
(* Ports.  Two streams share one only when nothing of one of them is left:  *)
(* its call is over, and neither its packets nor its texts are on the way.  *)

Silent(s) == call[s[1]] = "down" /\ s \notin flight /\ \A m \in net : m.call # s[1]

SharedPorts ==
  \A s, t \in Stream : s # t /\ fsPort[s] = fsPort[t] /\ fsPort[s] # NoPort =>
    Silent(s) \/ Silent(t)

FlightSent == \A s \in flight : call[s[1]] # "idle"

PortInv == FlightSent /\ (~ QuickReuse => SharedPorts)

LEMMA PortInit == Init => PortInv
  BY DEF Init, PortInv, FlightSent, SharedPorts

\* A step that starts no call, and sends nothing for a call that is over.
LEMMA PortFrame ==
  ASSUME PortInv, UNCHANGED fsPort,
         \A c \in Calls : call[c] # "idle" => call'[c] # "idle",
         \A s \in flight' : s \in flight \/ call[s[1]] = "up",
         \A s \in flight' : s \in flight \/ call'[s[1]] # "idle",
         \A c \in Calls : call[c] = "down" => call'[c] = "down",
         \A m \in net' : m \in net \/ call[m.call] = "up",
         flight \in SUBSET Stream
  PROVE  PortInv'
  <1>1. FlightSent'
    BY DEF PortInv, FlightSent, Stream
  <1>2. \A s \in Stream : Silent(s) => Silent(s)'
    <2> SUFFICES ASSUME NEW s \in Stream, Silent(s) PROVE Silent(s)'
      OBVIOUS
    <2>1. s[1] \in Calls
      BY DEF Stream
    <2> QED BY <2>1 DEF Silent
  <1> QED BY <1>1, <1>2 DEF PortInv, SharedPorts

\* Ports are taken that no call uses, and, when they are not reused too soon,
\* that nothing is on its way to.
LEMMA StartPorts ==
  ASSUME OwnedInv, CallsHavePorts, PortInv, NEW c \in Calls, StartCall(c)
  PROVE  PortInv'
  <1> USE DEF OwnedInv, PortInv
  <1>1. PICK p \in [Dir -> Ports \ PortsInUse] :
           /\ p["rx"] # p["tx"]
           /\ QuickReuse \/ \A d \in Dir : Quiet(p[d])
           /\ call[c] = "idle" /\ call' = [call EXCEPT ![c] = "up"]
           /\ fsPort' = [s \in Stream |-> IF s[1] = c THEN p[s[2]] ELSE fsPort[s]]
           /\ net' = net \cup {Invite(c, d, p[d]) : d \in Dir}
           /\ UNCHANGED flight
    BY StartEffect
  <1>2. \A x \in Calls : call'[x] = IF x = c THEN "up" ELSE call[x]
    BY <1>1 DEF TypeOK, NetworkTypeOK
  <1>3. \A m \in net' : m \in net \/ m.call = c
    BY <1>1 DEF Invite
  <1>4. FlightSent'
    BY <1>1, <1>2 DEF FlightSent, TypeOK, NetworkTypeOK, Stream
  <1>5. \A s \in Stream : Silent(s) => Silent(s)'
    <2> SUFFICES ASSUME NEW s \in Stream, Silent(s) PROVE Silent(s)'
      OBVIOUS
    <2>1. s[1] \in Calls /\ s[1] # c
      BY <1>1 DEF Stream, Silent
    <2> QED BY <1>1, <1>2, <1>3, <2>1 DEF Silent
  <1>6. ASSUME ~ QuickReuse, NEW s \in Stream, NEW t \in Stream, s[1] = c, s # t,
               fsPort'[s] = fsPort'[t]
        PROVE  Silent(t)'
    <2>1. s[2] \in Dir /\ t[2] \in Dir /\ t[1] \in Calls
      BY DEF Stream
    <2>2. fsPort'[s] = p[s[2]]
      BY <1>1, <1>6
    <2>3. t[1] # c
      <3> SUFFICES ASSUME t[1] = c PROVE FALSE
        OBVIOUS
      <3>1. fsPort'[t] = p[t[2]] /\ s[2] # t[2]
        BY <1>1, <1>6 DEF Stream
      <3> QED BY <1>1, <1>6, <2>1, <2>2, <3>1 DEF Dir
    <2>4. fsPort[t] = p[s[2]] /\ p[s[2]] \in Ports \ PortsInUse
      BY <1>1, <1>6, <2>1, <2>2, <2>3
    <2>5. call[t[1]] # "up"
      BY <2>4 DEF PortsInUse
    <2>6. call[t[1]] # "idle"
      <3>1. t = <<t[1], t[2]>>
        BY DEF Stream
      <3>2. fsPort[<<t[1], t[2]>>] = NoPort <=> call[t[1]] = "idle"
        BY <2>1 DEF CallsHavePorts
      <3> QED BY <2>4, <3>1, <3>2, ConstantsAssumption
    <2>7. call[t[1]] = "down"
      BY <2>1, <2>5, <2>6 DEF TypeOK, NetworkTypeOK
    <2>8. t \notin flight /\ \A m \in net : m.call # t[1]
      BY <1>1, <1>6, <2>1, <2>4 DEF Quiet
    <2> QED BY <1>1, <1>2, <1>3, <2>1, <2>3, <2>7, <2>8 DEF Silent
  <1>7. ASSUME ~ QuickReuse PROVE SharedPorts'
    <2> SUFFICES ASSUME NEW s \in Stream, NEW t \in Stream, s # t,
                        fsPort'[s] = fsPort'[t], fsPort'[s] # NoPort
                 PROVE  Silent(s)' \/ Silent(t)'
      BY DEF SharedPorts
    <2>1. CASE s[1] = c
      BY <1>6, <1>7, <2>1
    <2>2. CASE t[1] = c
      BY <1>6, <1>7, <2>2
    <2>3. CASE s[1] # c /\ t[1] # c
      <3>1. fsPort'[s] = fsPort[s] /\ fsPort'[t] = fsPort[t]
        BY <1>1, <2>3
      <3> QED BY <1>5, <1>7, <3>1 DEF SharedPorts
    <2> QED BY <2>1, <2>2, <2>3
  <1> QED BY <1>4, <1>7

LEMMA PortInductive ==
  ASSUME OwnedInv, CallsHavePorts, PortInv, [Next]_vars
  PROVE  PortInv'
  <1> USE DEF OwnedInv
  <1>1. /\ flight \in SUBSET Stream
        /\ call \in [Calls -> {"idle", "up", "down"}]
    BY DEF TypeOK, NetworkTypeOK
  <1>2. ASSUME UNCHANGED <<fsPort, call>>, flight' \subseteq flight, net' \subseteq net
        PROVE  PortInv'
    BY <1>1, <1>2, PortFrame
  <1>3. ASSUME NEW c \in Calls, StartCall(c)
        PROVE  PortInv'
    BY <1>3, StartPorts
  <1>4. ASSUME NEW c \in Calls, HangUp(c)
        PROVE  PortInv'
    <2>1. /\ call[c] = "up" /\ call' = [call EXCEPT ![c] = "down"]
          /\ net' = net \cup {Bye(c, d) : d \in Dir}
          /\ UNCHANGED <<fsPort, flight>>
      BY <1>4 DEF HangUp
    <2>2. \A m \in net' : m \in net \/ m.call = c
      BY <2>1 DEF Bye
    <2>3. \A x \in Calls : call'[x] = IF x = c THEN "down" ELSE call[x]
      BY <1>1, <2>1
    <2> QED BY <1>1, <2>1, <2>2, <2>3, PortFrame
  <1>5. ASSUME NEW s \in Stream, SendRtp(s)
        PROVE  PortInv'
    <2>1. /\ call[s[1]] = "up" /\ flight' = flight \cup {s}
          /\ UNCHANGED <<fsPort, call, net>>
      BY <1>5 DEF SendRtp, caller, network
    <2> QED BY <1>1, <2>1, PortFrame
  <1>6. ASSUME NEW s \in Stream, EndFlight(s) \/ ArriveRtp(s)
        PROVE  PortInv'
    BY <1>2, <1>6 DEF EndFlight, ArriveRtp, caller, network
  <1>7. ASSUME NEW m \in net, Lose(m)
        PROVE  PortInv'
    BY <1>2, <1>7 DEF Lose, caller
  <1>8. ASSUME NEW m \in net, do_sip_message(m)
        PROVE  PortInv'
    <2>1. Receive(m)
      BY <1>8 DEF do_sip_message, update_invite_channel, update_bye_channel, ByeFaults, ByeUnknown
    <2> QED BY <1>2, <2>1 DEF Receive, caller
  <1>9. ASSUME NEW f \in Fd, NEW s \in Stream, do_rtp(f, s)
        PROVE  PortInv'
    BY <1>2, <1>9 DEF do_rtp, RecordRtp, RtpFaults, IgnoreRtp, ReadRtp, caller, network
  <1>10. CASE main_thread
    BY <1>2, <1>10 DEF main_thread, MainOpen, MainClose, MainTurn, caller, network
  <1>11. CASE UNCHANGED vars
    BY <1>2, <1>11 DEF vars
  <1> QED BY <1>3, <1>4, <1>5, <1>6, <1>7, <1>8, <1>9, <1>10, <1>11
       DEF Next, Environment, epoll_thread

------------------------------------------------------------------------------
(* What the invariant gives, together with those of the earlier modules.    *)

PromiseInv == AccountInv /\ (dups = 0 /\ RxNamed = {} => StepInv /\ PortInv)

LEMMA PromiseInductive ==
  /\ Init => PromiseInv
  /\ PromiseInv /\ [Next]_vars => PromiseInv'
  <1>1. Init => PromiseInv
    BY StepInit, PortInit, AccountInductive DEF PromiseInv
  <1>2. ASSUME PromiseInv, [Next]_vars
        PROVE  PromiseInv'
    <2>1. AccountInv'
      BY <1>2, AccountInductive DEF PromiseInv
    <2>2. dups' = 0 => dups = 0
      BY <1>2, DupsGrow DEF PromiseInv, AccountInv, IInv
    <2>3. dups' = 0 /\ RxNamed = {} => StepInv' /\ PortInv'
      BY <1>2, <2>2, StepInductive, PortInductive DEF PromiseInv, AccountInv, IInv, StepInv
    <2> QED BY <2>1, <2>3 DEF PromiseInv
  <1> QED BY <1>1, <1>2

\* The account of the descriptors, and until a text is duplicated how far each
\* direction has come and which ports are in use.
THEOREM Promises == Spec => []PromiseInv
  BY PromiseInductive, PTL DEF Spec

\* Without duplicates, every open FILE belongs to a direction of the list.
LEMMA FilesHeld ==
  ASSUME OwnedInv, NoLeak, NEW a \in Heap, heap[a] # NULL
  PROVE  \E ch \in Chans, d \in Dir : ch.leg[d].sock # 0 /\ ch.leg[d].file = a
  <1> USE DEF OwnedInv
  <1> DEFINE f == heap[a].fd
  <1>1. f \in Fd /\ fdt[f].kind = "file"
    BY DEF FilesDistinct, TypeOK, FilesTypeOK, File
  <1>2. f # 0 /\ f \notin MainFds
    <2>1. \A q \in MainPorts : socks[q] # -1 => fdt[socks[q]].kind = "udp"
      BY UdpKind DEF MainOwned
    <2>2. f # -1
      BY <1>1 DEF Fd
    <2> HIDE DEF f
    <2> QED BY <1>1, <2>1, <2>2 DEF MainFds, StdinOpen
  <1>3. PICK ch \in Chans, d \in Dir :
          /\ ch.leg[d].sock # 0
          /\ f = ch.leg[d].sock \/ (IsOpen(ch.leg[d].file) /\ f = heap[ch.leg[d].file].fd)
    BY <1>1, <1>2 DEF NoLeak, Accounted, Held
  <1>4. f # ch.leg[d].sock
    <2> SUFFICES ASSUME f = ch.leg[d].sock PROVE FALSE
      OBVIOUS
    <2>1. ch.leg[d].sock > 0
      BY <1>1, <1>2 DEF Fd
    <2> QED BY <1>1, <2>1, UdpKind DEF SocketsOwned
  <1>5. ch.leg[d].file = a
    BY <1>3, <1>4 DEF FilesDistinct, IsOpen
  <1> QED BY <1>3, <1>5

\* In order and without duplicates, once the messages of a call that has ended
\* are all handled nothing of it is left, but for a BYE that was lost.
THEOREM NothingIsLeft ==
  ASSUME InOrder, MaxDup = 0, RxNamed = {}
  PROVE  Spec => []NothingLeftBehind
  <1>1. ASSUME PromiseInv
        PROVE  NothingLeftBehind
    <2>1. dups = 0 /\ OwnedInv /\ NoLeak /\ StepInv
      BY <1>1 DEF PromiseInv, AccountInv, IInv, TypeOK, NetworkTypeOK
    <2> SUFFICES ASSUME up, NEW c \in Calls, call[c] = "down", \A m \in net : m.call # c,
                        \A d \in Dir : Bye(c, d) \notin lost
                 PROVE  ~ InList(c) /\ \A a \in Heap : heap[a] # NULL => heap[a].stream[1] # c
      BY DEF NothingLeftBehind
    <2>2. \A d \in Dir : Retired(c, d)
      BY DEF Retired, Bye
    <2>3. ~ InList(c)
      BY <2>1, <2>2 DEF StepInv, InSequence, ChannelsInUse, InList
    <2>4. ASSUME NEW a \in Heap, heap[a] # NULL
          PROVE  heap[a].stream[1] # c
      <3>1. PICK ch \in Chans, d \in Dir : ch.leg[d].sock # 0 /\ ch.leg[d].file = a
        BY <2>1, <2>4, FilesHeld
      <3>2. heap[a].stream = <<ch.callid, d>>
        BY <2>1, <3>1, ConstantsAssumption DEF OwnedInv, FilesOwned
      <3> QED BY <2>3, <3>1, <3>2 DEF InList
    <2> QED BY <2>3, <2>4
  <1> QED BY <1>1, Promises, PTL

\* Nothing is lost when nothing may be.
NoneLost == lost = {}

LEMMA NothingLost ==
  ASSUME MaxLoss = 0
  PROVE  Spec => []NoneLost
  <1>1. Init => NoneLost
    BY DEF Init, NoneLost
  <1>2. NoneLost /\ [Next]_vars => NoneLost'
    <2> SUFFICES ASSUME lost = {}, [Next]_vars PROVE lost' = {}
      BY DEF NoneLost
    <2>1. ASSUME NEW m \in net, Lose(m) PROVE FALSE
      BY <2>1, FS_EmptySet DEF Lose
    <2>2. ASSUME NEW m \in net, do_sip_message(m) PROVE lost' = lost
      BY <2>2 DEF do_sip_message, update_invite_channel, update_bye_channel, ByeFaults,
                  ByeUnknown, Receive
    <2>3. ASSUME NEW c \in Calls, StartCall(c) \/ HangUp(c) PROVE lost' = lost
      BY <2>3 DEF StartCall, HangUp
    <2> QED BY <2>1, <2>2, <2>3, OtherFrame DEF Next, Environment, epoll_thread
  <1> QED BY <1>1, <1>2, PTL DEF Spec

\* In order, with nothing lost or duplicated, a channel leaves the list only when
\* both its BYE messages have been received.
THEOREM LeavesAfterBothByes ==
  ASSUME InOrder, MaxDup = 0, RxNamed = {}, MaxLoss = 0
  PROVE  Spec => RemovedAfterBothByes
  <1>1. ASSUME PromiseInv, PromiseInv', lost = {}, [Next]_vars,
               NEW c \in Calls, InList(c), ~ InList(c)'
        PROVE  call[c] = "down" /\ \A d \in Dir : Bye(c, d) \notin net'
    <2>1. dups = 0 /\ dups' = 0 /\ OwnedInv /\ StepInv
      BY <1>1 DEF PromiseInv, AccountInv, IInv, TypeOK, NetworkTypeOK
    <2>2. PICK ch \in Chans, e \in Dir : ch.callid = c /\ ch.leg[e].sock # 0
      BY <1>1, <2>1 DEF InList, StepInv, ChannelsInUse
    <2>3. ASSUME g_chanels' = g_chanels PROVE FALSE
      BY <1>1, <2>3 DEF InList, Chans
    <2>4. ASSUME NEW m \in net, update_invite_channel(m)
          PROVE  FALSE
      <3>1. PICK x \in Calls, d \in Dir, p \in Ports, leg \in Leg : Invited(x, d, p, leg)
        BY <2>1, <2>4, InviteEffect
      <3> QED BY <1>1, <2>2, <3>1 DEF Invited, Placed, LegsStay, InList
    <2>5. ASSUME NEW m \in net, update_bye_channel(m)
          PROVE  call[c] = "down" /\ \A d \in Dir : Bye(c, d) \notin net'
      <3>1. PICK x \in Calls, d \in Dir, leg \in Leg : Ended(x, d, leg)
        BY <2>1, <2>5, ByeEffect
      <3>2. x = c /\ \A old \in Chans, y \in Dir :
                       old.callid = c /\ y # d => old.leg[y].sock = 0
        BY <1>1, <2>2, <3>1 DEF Ended, Cleared, LegsStay, InList
      <3>3. call[c] = "down" /\ Bye(c, d) \notin net' /\ net' \subseteq net
        BY <3>1, <3>2 DEF Ended
      <3>4. \A y \in Dir : Arrived(c, y)
        <4>1. \A y \in Dir : fsPort[<<c, y>>] \in Ports \cup {NoPort}
          BY <2>1 DEF OwnedInv, TypeOK, NetworkTypeOK, Stream
        <4>2. \A y \in Dir : fsPort[<<c, y>>] # NoPort
          BY <2>1, <3>3 DEF StepInv, CallsHavePorts
        <4> QED BY <1>1, <3>1, <3>2, <3>3, <4>1, <4>2 DEF Ended, Arrived
      <3>5. \A y \in Dir : y # d => ~ PendingBye(c, y)
        BY <2>1, <3>2, <3>4 DEF StepInv, InviteSeen
      <3> QED BY <3>3, <3>5 DEF PendingBye
    <2>6. ASSUME NEW m \in net, ByeFaults(m) \/ ByeUnknown(m)
          PROVE  FALSE
      BY <2>3, <2>6 DEF ByeFaults, ByeUnknown, server
    <2>7. ASSUME Environment PROVE FALSE
      BY <2>3, <2>7 DEF Environment, StartCall, HangUp, SendRtp, EndFlight, ArriveRtp, Lose, server
    <2> QED BY <1>1, <2>3, <2>4, <2>5, <2>6, <2>7, OtherFrame
         DEF Next, epoll_thread, do_sip_message
  <1>2. PromiseInv /\ PromiseInv' /\ NoneLost /\ [Next]_vars =>
          [\A c \in Calls : InList(c) /\ ~ InList(c)' =>
             call[c] = "down" /\ \A d \in Dir : Bye(c, d) \notin net']_vars
    BY <1>1 DEF NoneLost
  <1> QED BY <1>2, Promises, NothingLost, PTL DEF Spec, RemovedAfterBothByes
------------------------------------------------------------------------------
(* Descriptors to spare.                                                    *)

\* One for the standard input, one for each port of main()'s block, and a socket
\* and a file for each port a stream can be sent to; every bind() succeeds, or
\* its socket would be leaked.
Room ==
  /\ IsFiniteSet(Ports)
  /\ Unbindable = {}
  /\ NFd >= 1 + Cardinality(StartupPorts) + 2 * Cardinality(Ports)

UdpPorts == \A f \in Fd : fdt[f].kind = "udp" => fdt[f].port # NoPort

\* What a function takes on a finite set is no larger than the set.
LEMMA ImageBound ==
  ASSUME NEW S, IsFiniteSet(S), NEW f, f = [x \in S |-> f[x]],
         NEW T, \A t \in T : \E x \in S : f[x] = t
  PROVE  IsFiniteSet(T) /\ Cardinality(T) <= Cardinality(S)
  <1> DEFINE U == {f[x] : x \in S}
  <1>1. f \in [S -> U]
    OBVIOUS
  <1>2. f \in Surjection(S, U)
    BY <1>1 DEF Surjection
  <1>3. IsFiniteSet(U) /\ Cardinality(U) <= Cardinality(S)
    BY <1>2, FS_Surjection
  <1>4. T \in SUBSET U
    OBVIOUS
  <1> HIDE DEF U
  <1>5. IsFiniteSet(T) /\ Cardinality(T) <= Cardinality(U)
    BY <1>3, <1>4, FS_Subset
  <1> QED BY <1>3, <1>5, FS_CardinalityType

LEMMA UnionBound ==
  ASSUME NEW S, NEW T, IsFiniteSet(S), IsFiniteSet(T)
  PROVE  IsFiniteSet(S \cup T) /\ Cardinality(S \cup T) <= Cardinality(S) + Cardinality(T)
  <1>1. IsFiniteSet(S \cup T)
        /\ Cardinality(S \cup T) = Cardinality(S) + Cardinality(T) - Cardinality(S \cap T)
    BY FS_Union
  <1>2. IsFiniteSet(S \cap T)
    BY FS_Intersection
  <1>3. Cardinality(S) \in Nat /\ Cardinality(T) \in Nat /\ Cardinality(S \cap T) \in Nat
    BY <1>2, FS_CardinalityType
  <1> QED BY <1>1, <1>3

\* the network may lose an INVITE, but brings every BYE
ByesArrive == \A m \in lost : m.method # "BYE"

\* Nothing silent is still open.
LEMMA SilentClosed ==
  ASSUME InOrder, ByesArrive, up, OwnedInv, StepInv, NEW ch \in Chans, NEW d \in Dir,
         Silent(<<ch.callid, d>>)
  PROVE  ch.leg[d].sock = 0
  <1>1. ch.callid \in Calls
    BY ChansType DEF OwnedInv, TypeOK, ServerTypeOK
  <1>2. Retired(ch.callid, d)
    BY <1>1 DEF Silent, Retired, Bye, ByesArrive
  <1> QED BY <1>1, <1>2 DEF StepInv, InSequence

\* So a port has one open direction at most ...
LegsApart ==
  \A ch, oc \in Chans, d, e \in Dir :
    /\ ch.leg[d].sock # 0 /\ oc.leg[e].sock # 0 /\ ch.leg[d].port = oc.leg[e].port
    => ch = oc /\ d = e

LEMMA OpenLeg ==
  ASSUME OwnedInv, StepInv, NEW ch \in Chans, NEW d \in Dir, ch.leg[d].sock # 0
  PROVE  /\ <<ch.callid, d>> \in Stream
         /\ ch.leg[d].port = fsPort[<<ch.callid, d>>]
         /\ ch.leg[d].port \in Ports
  <1>1. ch.callid \in Calls
    BY ChansType DEF OwnedInv, TypeOK, ServerTypeOK
  <1>2. ch.leg[d].port = fsPort[<<ch.callid, d>>]
    BY DEF StepInv, LegsPlaced
  <1>3. call[ch.callid] # "idle"
    <2>1. call[ch.callid] = "idle" => ch.leg[d] = NoLeg
      BY DEF OwnedInv, LegsInStep, PendingInvite
    <2> QED BY <2>1 DEF NoLeg
  <1>4. fsPort[<<ch.callid, d>>] \in Ports \cup {NoPort}
    BY <1>1 DEF OwnedInv, TypeOK, NetworkTypeOK, Stream
  <1> QED BY <1>1, <1>2, <1>3, <1>4 DEF StepInv, CallsHavePorts, Stream

LEMMA Apart ==
  ASSUME InOrder, ~ QuickReuse, lost = {}, up, OwnedInv, StepInv, PortInv
  PROVE  LegsApart
  <1> SUFFICES ASSUME NEW ch \in Chans, NEW oc \in Chans, NEW d \in Dir, NEW e \in Dir,
                      ch.leg[d].sock # 0, oc.leg[e].sock # 0,
                      ch.leg[d].port = oc.leg[e].port
               PROVE  ch = oc /\ d = e
    BY DEF LegsApart
  <1> DEFINE s == <<ch.callid, d>>
             t == <<oc.callid, e>>
  <1>1. s \in Stream /\ t \in Stream /\ fsPort[s] = fsPort[t] /\ fsPort[s] \in Ports
    BY OpenLeg
  <1>2. ~ Silent(s) /\ ~ Silent(t)
    BY SilentClosed DEF ByesArrive
  <1>3. s = t
    <2> HIDE DEF s, t
    <2> QED BY <1>1, <1>2, ConstantsAssumption DEF PortInv, SharedPorts
  <1>4. ch.callid = oc.callid /\ d = e
    BY <1>3
  <1> QED BY <1>4 DEF OwnedInv, OneChannelPerCall, Chans

\* ... and none while the INVITE for it is on its way.
LEMMA PortFree ==
  ASSUME InOrder, ~ QuickReuse, lost = {}, up, OwnedInv, StepInv, PortInv,
         NEW c \in Calls, NEW d \in Dir, NEW p \in Ports, Invite(c, d, p) \in net,
         NEW ch \in Chans, NEW e \in Dir, ch.leg[e].sock # 0
  PROVE  ch.leg[e].port # p
  <1> SUFFICES ASSUME ch.leg[e].port = p PROVE FALSE
    OBVIOUS
  <1> DEFINE s == <<ch.callid, e>>
             t == <<c, d>>
  <1>1. s \in Stream /\ fsPort[s] = p
    BY OpenLeg
  <1>2. t \in Stream /\ fsPort[t] = p
    BY DEF OwnedInv, NetSent, Stream
  <1>3. ~ Silent(s)
    BY SilentClosed DEF ByesArrive
  <1>4. ~ Silent(t)
    BY DEF Silent, Invite
  <1>5. s # t
    <2> SUFFICES ASSUME ch.callid = c, e = d PROVE FALSE
      OBVIOUS
    <2>1. ch.leg[d] = NoLeg
      BY DEF OwnedInv, LegsInStep, PendingInvite
    <2> QED BY <2>1 DEF NoLeg
  <1> HIDE DEF s, t
  <1> QED BY <1>1, <1>2, <1>3, <1>4, <1>5, ConstantsAssumption DEF PortInv, SharedPorts

\* The socket of the direction open at port q, and the descriptor below its FILE.
SockAt(q) ==
  CHOOSE g : \E ch \in Chans, d \in Dir :
    ch.leg[d].sock # 0 /\ ch.leg[d].port = q /\ g = ch.leg[d].sock
FdAt(q) ==
  CHOOSE g : \E ch \in Chans, d \in Dir :
    ch.leg[d].sock # 0 /\ ch.leg[d].port = q /\ g = heap[ch.leg[d].file].fd

LEMMA OnlyLeg ==
  ASSUME LegsApart, NEW ch \in Chans, NEW d \in Dir, ch.leg[d].sock # 0
  PROVE  /\ SockAt(ch.leg[d].port) = ch.leg[d].sock
         /\ FdAt(ch.leg[d].port) = heap[ch.leg[d].file].fd
  <1>1. \A oc \in Chans, e \in Dir :
          oc.leg[e].sock # 0 /\ oc.leg[e].port = ch.leg[d].port => oc = ch /\ e = d
    BY DEF LegsApart
  <1>2. SockAt(ch.leg[d].port) = ch.leg[d].sock
    BY <1>1 DEF SockAt
  <1>3. FdAt(ch.leg[d].port) = heap[ch.leg[d].file].fd
    BY <1>1 DEF FdAt
  <1> QED BY <1>2, <1>3

\* While a port has no open direction there are two descriptors to take.
LEMMA TwoFree ==
  ASSUME OwnedInv, StepInv, NoLeak, UdpPorts, LegsApart, Room, NEW p \in Ports, NEW e,
         \A ch \in Chans, d \in Dir : ch.leg[d].sock # 0 => ch.leg[d].port # p
  PROVE  AllocFd(fdt) # -1 /\ AllocFd(Install(fdt, AllocFd(fdt), e)) # -1
  <1> DEFINE T == Ports \ {p}
             Mine == {f \in Fd : f \in MainFds}
             Socks == {f \in Fd : \E q \in T : SockAt(q) = f}
             Files == {f \in Fd : \E q \in T : FdAt(q) = f}
             Busy == {f \in Fd : fdt[f].kind # "free"}
  <1>1. Busy \subseteq (({0} \cup Mine) \cup Socks) \cup Files
    <2> SUFFICES ASSUME NEW f \in Fd, fdt[f].kind # "free", f # 0, f \notin MainFds
                 PROVE  \E q \in T : SockAt(q) = f \/ FdAt(q) = f
      OBVIOUS
    <2>1. PICK ch \in Chans, x \in Dir :
            /\ ch.leg[x].sock # 0
            /\ f = ch.leg[x].sock \/ (IsOpen(ch.leg[x].file) /\ f = heap[ch.leg[x].file].fd)
      BY DEF NoLeak, Accounted, Held, UdpPorts
    <2>2. ch.leg[x].port \in T
      BY <2>1, OpenLeg
    <2>3. SockAt(ch.leg[x].port) = f \/ FdAt(ch.leg[x].port) = f
      BY <2>1, OnlyLeg
    <2> QED BY <2>2, <2>3
  <1>2. IsFiniteSet(Mine) /\ Cardinality(Mine) <= Cardinality(StartupPorts)
    <2>1. socks = [q \in StartupPorts |-> socks[q]]
      BY DEF OwnedInv, TypeOK, StarterTypeOK
    <2>2. \A f \in Mine : \E q \in StartupPorts : socks[q] = f
      BY DEF MainFds, MainPorts, OwnedInv, TypeOK, StarterTypeOK
    <2> HIDE DEF Mine
    <2>3. IsFiniteSet(StartupPorts)
      BY FS_Subset, ConstantsAssumption DEF Room
    <2> QED BY <2>1, <2>2, <2>3, ImageBound
  <1>3. IsFiniteSet(T) /\ Cardinality(T) = Cardinality(Ports) - 1
    BY FS_RemoveElement DEF Room
  <1> HIDE DEF T, Mine
  <1>4. IsFiniteSet(Socks) /\ Cardinality(Socks) <= Cardinality(T)
    <2> DEFINE sf == [q \in T |-> SockAt(q)]
    <2>1. sf = [q \in T |-> sf[q]] /\ \A f \in Socks : \E q \in T : sf[q] = f
      OBVIOUS
    <2> HIDE DEF sf, Socks
    <2> QED BY <1>3, <2>1, ImageBound
  <1>5. IsFiniteSet(Files) /\ Cardinality(Files) <= Cardinality(T)
    <2> DEFINE ff == [q \in T |-> FdAt(q)]
    <2>1. ff = [q \in T |-> ff[q]] /\ \A f \in Files : \E q \in T : ff[q] = f
      OBVIOUS
    <2> HIDE DEF ff, Files
    <2> QED BY <1>3, <2>1, ImageBound
  <1>6. IsFiniteSet(Fd) /\ Cardinality(Fd) = NFd /\ NFd \in Nat
    BY FS_Interval, ConstantsAssumption DEF Fd
  <1>7. Busy \in SUBSET Fd /\ FreeFds(fdt) = Fd \ Busy
    BY DEF FreeFds
  <1> HIDE DEF Socks, Files, Busy
  <1>8. Cardinality(Busy) <= NFd - 2
    <2> DEFINE U1 == {0} \cup Mine
               U2 == U1 \cup Socks
               U3 == U2 \cup Files
    <2>1. IsFiniteSet({0}) /\ Cardinality({0}) = 1
      BY FS_Singleton
    <2>2. IsFiniteSet(U1) /\ Cardinality(U1) <= 1 + Cardinality(Mine)
      BY <1>2, <2>1, UnionBound
    <2> HIDE DEF U1
    <2>3. IsFiniteSet(U2) /\ Cardinality(U2) <= Cardinality(U1) + Cardinality(Socks)
      BY <1>4, <2>2, UnionBound
    <2> HIDE DEF U2
    <2>4. IsFiniteSet(U3) /\ Cardinality(U3) <= Cardinality(U2) + Cardinality(Files)
      BY <1>5, <2>3, UnionBound
    <2>5. Busy \in SUBSET U3
      BY <1>1 DEF U1, U2
    <2> HIDE DEF U3
    <2>6. IsFiniteSet(Busy) /\ Cardinality(Busy) <= Cardinality(U3)
      BY <2>4, <2>5, FS_Subset
    <2>7. /\ Cardinality(StartupPorts) \in Nat /\ Cardinality(Ports) \in Nat
          /\ Cardinality(T) \in Nat /\ Cardinality(Mine) \in Nat
      <3>1. IsFiniteSet(StartupPorts)
        BY FS_Subset, ConstantsAssumption DEF Room
      <3> QED BY <1>2, <1>3, <3>1, FS_CardinalityType DEF Room
    <2>8. /\ Cardinality(Socks) \in Nat /\ Cardinality(Files) \in Nat
          /\ Cardinality(U1) \in Nat /\ Cardinality(U2) \in Nat
          /\ Cardinality(U3) \in Nat /\ Cardinality(Busy) \in Nat
      BY <1>4, <1>5, <2>2, <2>3, <2>4, <2>6, FS_CardinalityType
    <2> QED BY <1>2, <1>3, <1>4, <1>5, <1>6, <2>2, <2>3, <2>4, <2>6, <2>7, <2>8 DEF Room
  <1>9. IsFiniteSet(FreeFds(fdt)) /\ Cardinality(FreeFds(fdt)) >= 2
    <2>1. IsFiniteSet(Busy) /\ Fd \cap Busy = Busy
      BY <1>6, <1>7, FS_Subset
    <2>2. Cardinality(Busy) \in Nat
      BY <2>1, FS_CardinalityType
    <2>3. IsFiniteSet(Fd \ Busy) /\ Cardinality(Fd \ Busy) = Cardinality(Fd) - Cardinality(Busy)
      BY <1>6, <2>1, FS_Difference
    <2> QED BY <1>6, <1>7, <1>8, <2>2, <2>3
  <1>10. \A t : FreeFds(t) \in SUBSET Nat /\ (FreeFds(t) # {} => AllocFd(t) \in FreeFds(t))
    <2>1. \A t : FreeFds(t) \in SUBSET Nat
      BY ConstantsAssumption DEF FreeFds, Fd
    <2> QED BY <2>1, FirstOfLeast DEF AllocFd
  <1>11. FreeFds(fdt) # {} /\ AllocFd(fdt) # -1 /\ AllocFd(fdt) \in Fd
    <2>1. FreeFds(fdt) # {}
      BY <1>9, FS_EmptySet
    <2>2. AllocFd(fdt) \in FreeFds(fdt)
      BY <1>10, <2>1
    <2> QED BY <2>1, <2>2 DEF FreeFds, Fd
  <1>12. FreeFds(Install(fdt, AllocFd(fdt), e)) # {}
    <2> DEFINE f == AllocFd(fdt)
    <2>1. Cardinality(FreeFds(fdt) \ {f}) >= 1
      <3>1. Cardinality(FreeFds(fdt)) \in Nat
        BY <1>9, FS_CardinalityType
      <3>2. Cardinality(FreeFds(fdt) \ {f}) = IF f \in FreeFds(fdt)
                                               THEN Cardinality(FreeFds(fdt)) - 1
                                               ELSE Cardinality(FreeFds(fdt))
        BY <1>9, FS_RemoveElement
      <3> QED BY <1>9, <3>1, <3>2
    <2>2. FreeFds(fdt) \ {f} # {}
      BY <2>1, FS_EmptySet
    <2>3. Install(fdt, f, e) = [fdt EXCEPT ![f] = e]
      BY <1>11 DEF Install
    <2> HIDE DEF f
    <2>4. FreeFds(fdt) \ {f} \subseteq FreeFds(Install(fdt, f, e))
      BY <2>3 DEF FreeFds, OwnedInv, TypeOK, KernelTypeOK
    <2> QED BY <2>2, <2>4 DEF f
  <1> QED BY <1>10, <1>11, <1>12
\* A packet goes to the FILE of a direction that holds the socket it came from.
LEMMA FileForLeg ==
  ASSUME OwnedInv, NEW f \in Fd, rq[f] # {}, find_channel_by_sock(f) # 0
  PROVE  f > 0 /\ \E ch \in Chans, d \in Dir :
                    ch.leg[d].sock = f /\ FileFor(f) = ch.leg[d].file
  <1> USE DEF OwnedInv
  <1> DEFINE i == find_channel_by_sock(f)
  <1>1. g_chanels[i] \in Chans
    BY FindBySock DEF TypeOK, ServerTypeOK, Chans
  <1>2. \E d \in Dir : g_chanels[i].leg[d].sock = f
    BY FoundSock DEF TypeOK, ServerTypeOK
  <1>3. FileFor(f) = IF g_chanels[i].leg["tx"].sock = f
                     THEN g_chanels[i].leg["tx"].file ELSE g_chanels[i].leg["rx"].file
    BY DEF FileFor
  <1>4. f # 0
    BY DEF QueuesOnSockets, StdinOpen
  <1> HIDE DEF i
  <1> QED BY <1>1, <1>2, <1>3, <1>4 DEF Dir, Fd

\* What a BYE that waits finds when messages come in order and none is lost.
LEMMA ByeFindsLeg ==
  ASSUME InOrder, lost = {}, dups' = 0, OwnedInv, StepInv,
         NEW c \in Calls, NEW d \in Dir, Bye(c, d) \in net, Receive(Bye(c, d))
  PROVE  \E ch \in Chans : ch.callid = c /\ ch.leg[d].sock # 0
  <1> USE DEF OwnedInv, StepInv
  <1>1. call[c] = "down" /\ PendingBye(c, d)
    BY DEF NetSent, PendingBye
  <1>2. fsPort[<<c, d>>] \in Ports \cup {NoPort} /\ fsPort[<<c, d>>] # NoPort
    BY <1>1 DEF CallsHavePorts, TypeOK, NetworkTypeOK, Stream
  <1>3. Arrived(c, d)
    BY <1>1, <1>2, ByeIsLast DEF Arrived
  <1> QED BY <1>1, <1>3 DEF InviteSeen

FullLegs == \A ch \in Chans, d \in Dir : ch.leg[d].sock # 0 => ch.leg[d].file # NULL

UpInv == up /\ UdpPorts /\ FullLegs

LEMMA InviteUp ==
  ASSUME InOrder, ~ QuickReuse, lost = {}, Room,
         OwnedInv, NoLeak, StepInv, PortInv, UpInv,
         NEW c \in Calls, NEW d \in Dir, NEW p \in Ports, NEW leg \in Leg, Invited(c, d, p, leg)
  PROVE  UpInv'
  <1>1. /\ up' = up /\ LegsAfter(c, d, leg) /\ Bound(p, leg) /\ Opened(c, d, p, leg)
        /\ \A ch \in Chans : ch.callid = c => ch.leg[d].sock = 0
    BY DEF Invited, Placed
  <1>2. leg.file # NULL
    <2>1. \A ch \in Chans, e \in Dir : ch.leg[e].sock # 0 => ch.leg[e].port # p
      BY PortFree DEF Invited, UpInv
    <2>2. LegsApart
      BY Apart DEF UpInv
    <2>3. AllocFd(Install(fdt, AllocFd(fdt), UdpEntry(p))) # -1
      BY <2>1, <2>2, TwoFree DEF UpInv
    <2> QED BY <1>1, <2>3, ConstantsAssumption DEF Opened
  <1>3. FullLegs'
    <2> SUFFICES ASSUME NEW ch \in Chans', NEW e \in Dir, ch.leg[e].sock # 0
                 PROVE  ch.leg[e].file # NULL
      BY DEF FullLegs
    <2>1. CASE ch.callid = c /\ e = d
      BY <1>1, <1>2, <2>1 DEF LegsAfter
    <2>2. CASE ~ (ch.callid = c /\ e = d)
      BY <1>1, <2>2 DEF LegsAfter, NoLeg, UpInv, FullLegs
    <2> QED BY <2>1, <2>2
  <1>4. UdpPorts'
    <2> SUFFICES ASSUME NEW g \in Fd, fdt'[g].kind = "udp"
                 PROVE  fdt'[g].port # NoPort
      BY DEF UdpPorts
    <2>1. CASE fdt[g].kind = "udp"
      BY <1>1, <2>1 DEF Bound, UpInv, UdpPorts
    <2>2. CASE fdt'[g] = UdpEntry(p)
      BY <2>2, ConstantsAssumption DEF UdpEntry, Room
    <2> QED BY <1>1, <2>1, <2>2 DEF Bound
  <1> QED BY <1>1, <1>3, <1>4 DEF UpInv

LEMMA ByeUp ==
  ASSUME UpInv, NEW c \in Calls, NEW d \in Dir, NEW leg \in Leg, Ended(c, d, leg)
  PROVE  UpInv'
  <1>1. up' = up /\ LegsAfter(c, d, ClosedLeg(leg)) /\ Released(c, d, leg)
    BY DEF Ended, Cleared
  <1>2. FullLegs'
    BY <1>1 DEF LegsAfter, ClosedLeg, NoLeg, UpInv, FullLegs
  <1>3. UdpPorts'
    BY <1>1 DEF Released, CloseFds, FreeEntry, UpInv, UdpPorts
  <1> QED BY <1>1, <1>2, <1>3 DEF UpInv

LEMMA MainUp ==
  ASSUME OwnedInv, UpInv, Room, main_thread
  PROVE  UpInv'
  <1>1. UNCHANGED <<g_chanels, up>>
    BY DEF main_thread, MainOpen, MainClose, MainTurn, server
  <1>2. UdpPorts'
    <2>1. CASE MainTurn
      BY <2>1 DEF MainTurn, kernel, UpInv, UdpPorts
    <2>2. ASSUME NEW p \in StartupPorts, MainOpen(p) PROVE UdpPorts'
      <3> DEFINE f == AllocFd(fdt)
      <3>1. fdt' = Install(fdt, f, UdpEntry(p))
        BY <2>2 DEF MainOpen
      <3>2. UdpEntry(p).port # NoPort
        BY ConstantsAssumption DEF UdpEntry, Room
      <3> HIDE DEF f
      <3> QED BY <3>1, <3>2 DEF Install, UpInv, UdpPorts, OwnedInv, TypeOK, KernelTypeOK
    <2>3. ASSUME NEW p \in StartupPorts, MainClose(p) PROVE UdpPorts'
      BY <2>3 DEF MainClose, CloseFds, FreeEntry, UpInv, UdpPorts
    <2> QED BY <2>1, <2>2, <2>3 DEF main_thread
  <1> QED BY <1>1, <1>2 DEF UpInv, FullLegs, Chans

LEMMA UpInductive ==
  ASSUME InOrder, ~ QuickReuse, Room, lost = {}, dups' = 0,
         OwnedInv, NoLeak, StepInv, PortInv, UpInv, [Next]_vars
  PROVE  UpInv'
  <1> USE DEF OwnedInv
  <1>1. ASSUME UNCHANGED <<g_chanels, up, fdt>>
        PROVE  UpInv'
    BY <1>1 DEF UpInv, UdpPorts, FullLegs, Chans
  <1>2. ASSUME NEW m \in net, update_invite_channel(m)
        PROVE  UpInv'
    <2>1. PICK c \in Calls, d \in Dir, p \in Ports, leg \in Leg : Invited(c, d, p, leg)
      BY <1>2, InviteEffect
    <2> QED BY <2>1, InviteUp
  <1>3. ASSUME NEW m \in net, update_bye_channel(m)
        PROVE  UpInv'
    <2>1. PICK c \in Calls, d \in Dir, leg \in Leg : Ended(c, d, leg)
      BY <1>3, ByeEffect
    <2> QED BY <2>1, ByeUp
  <1>4. ASSUME NEW m \in net, ByeUnknown(m)
        PROVE  UpInv'
    BY <1>1, <1>4 DEF ByeUnknown, server, kernel
  <1>5. ASSUME NEW m \in net, ByeFaults(m)
        PROVE  FALSE
    <2> DEFINE c == m.call
               d == SubjectDir(m)
               i == find_channel_by_callid(c)
    <2>1. Receive(m) /\ m.method = "BYE" /\ ~ IsOpen(g_chanels[i].leg[d].file)
      BY <1>5 DEF ByeFaults, MayFault
    <2>2. c \in Calls /\ d \in Dir /\ m = Bye(c, d)
      BY <2>1 DEF TypeOK, NetworkTypeOK, Message, Bye, SubjectDir
    <2>3. i \in DOMAIN g_chanels /\ g_chanels[i].callid = c /\ g_chanels[i] \in Chans
      BY <1>5, FindByCallid DEF TypeOK, ServerTypeOK, ByeFaults, Chans
    <2>4. PICK ch \in Chans : ch.callid = c /\ ch.leg[d].sock # 0
      BY <2>1, <2>2, ByeFindsLeg
    <2> HIDE DEF c, d, i
    <2>5. ch = g_chanels[i]
      BY <2>3, <2>4 DEF OneChannelPerCall, Chans
    <2> QED BY <2>1, <2>2, <2>4, <2>5 DEF UpInv, FullLegs, FilesOwned
  <1>6. ASSUME NEW f \in Fd, NEW s \in Stream, do_rtp(f, s)
        PROVE  UpInv'
    <2>1. CASE RtpFaults(f, s)
      <3>1. rq[f] # {} /\ find_channel_by_sock(f) # 0 /\ ~ IsOpen(FileFor(f))
        BY <2>1 DEF RtpFaults, ReadRtp, MayFault
      <3>2. PICK ch \in Chans, d \in Dir : ch.leg[d].sock = f /\ FileFor(f) = ch.leg[d].file
        BY <3>1, FileForLeg
      <3>3. f # 0
        BY <3>1, FileForLeg
      <3> QED BY <3>1, <3>2, <3>3 DEF UpInv, FullLegs, FilesOwned
    <2>2. CASE RecordRtp(f, s) \/ IgnoreRtp(f, s)
      BY <1>1, <2>2 DEF RecordRtp, IgnoreRtp, ReadRtp
    <2> QED BY <1>6, <2>1, <2>2 DEF do_rtp
  <1>7. CASE Environment
    BY <1>1, <1>7 DEF Environment, StartCall, HangUp, SendRtp, EndFlight, Lose, ArriveRtp,
                      server, kernel
  <1>8. CASE UNCHANGED vars
    BY <1>1, <1>8 DEF vars
  <1> QED BY <1>2, <1>3, <1>4, <1>5, <1>6, <1>7, <1>8, MainUp DEF Next, epoll_thread, do_sip_message

\* For any number of calls, one after the other or at once: with messages
\* delivered once and in order, no port reused while something is on its way to
\* it, every bind() successful and descriptors for a socket and a file per port,
\* the process is never handed a FILE that is not open.
THEOREM StaysUp ==
  ASSUME InOrder, ~ QuickReuse, MaxDup = 0, RxNamed = {}, MaxLoss = 0, Room
  PROVE  Spec => []NeverFaults
  <1>1. Init => UpInv
    <2> SUFFICES ASSUME Init PROVE UpInv
      OBVIOUS
    <2>1. Chans = {}
      BY DEF Init, Chans
    <2> QED BY <2>1 DEF Init, UpInv, UdpPorts, FullLegs, FreeEntry
  <1>2. UpInv /\ PromiseInv /\ PromiseInv' /\ NoneLost /\ [Next]_vars => UpInv'
    <2> SUFFICES ASSUME UpInv, PromiseInv, PromiseInv', NoneLost, [Next]_vars PROVE UpInv'
      OBVIOUS
    <2>1. dups = 0 /\ dups' = 0 /\ OwnedInv /\ NoLeak /\ StepInv /\ PortInv
      BY DEF PromiseInv, AccountInv, IInv, TypeOK, NetworkTypeOK
    <2> QED BY <2>1, UpInductive DEF NoneLost
  <1>3. UpInv => NeverFaults
    BY DEF UpInv, NeverFaults
  <1> QED BY <1>1, <1>2, <1>3, Promises, NothingLost, PTL DEF Spec
------------------------------------------------------------------------------
(* Where a datagram goes.                                                   *)

\* The socket of a call in progress is the one bound last to its port, when
\* main() does not bind it too.
Receives ==
  \A ch \in Chans, d \in Dir :
    ch.leg[d].sock > 0 /\ call[ch.callid] = "up" /\ ch.leg[d].port \notin StartupPorts =>
      IsReceiver(ch.leg[d].sock, ch.leg[d].port)

LEMMA ReceivesFrame ==
  ASSUME Receives, UNCHANGED <<g_chanels, fdt, newer>>,
         \A ch \in Chans, d \in Dir :
           ch.leg[d].sock > 0 /\ call'[ch.callid] = "up" => call[ch.callid] = "up"
  PROVE  Receives'
  BY DEF Receives, IsReceiver, BoundAt, Chans

\* Closing other descriptors changes nothing for the receiver at q ...
LEMMA ClosingKeeps ==
  ASSUME NEW S, CloseFds(S), NEW f \in Fd, f \notin S, NEW q, q # NoPort, IsReceiver(f, q)
  PROVE  IsReceiver(f, q)'
  <1>1. \A g \in Fd : g \in BoundAt(q)' => g \in BoundAt(q) /\ g \notin S
    BY DEF CloseFds, BoundAt, FreeEntry
  <1>2. f \in BoundAt(q)'
    BY DEF CloseFds, BoundAt, IsReceiver
  <1>3. \A g \in BoundAt(q)' \ {f} : <<f, g>> \in newer'
    BY <1>1 DEF CloseFds, IsReceiver, BoundAt
  <1> QED BY <1>2, <1>3 DEF IsReceiver

\* ... nor does opening one for another port.
LEMMA OpeningKeeps ==
  ASSUME NEW q, NEW f \in Fd, IsReceiver(f, q), newer \subseteq newer',
         \A g \in Fd : fdt[g].kind # "free" => fdt'[g] = fdt[g],
         \A g \in Fd : fdt[g].kind = "free" /\ fdt'[g].kind = "udp" => fdt'[g].port # q
  PROVE  IsReceiver(f, q)'
  <1>1. \A g \in Fd : g \in BoundAt(q)' <=> g \in BoundAt(q)
    BY DEF BoundAt
  <1> QED BY <1>1 DEF IsReceiver, BoundAt

LEMMA InviteReceives ==
  ASSUME ~ QuickReuse, OwnedInv, StepInv, PortInv, Receives,
         NEW c \in Calls, NEW d \in Dir, NEW p \in Ports, NEW leg \in Leg, Invited(c, d, p, leg)
  PROVE  Receives'
  <1>1. /\ Invite(c, d, p) \in net /\ call' = call
        /\ Placed(c, d, p, leg) /\ Bound(p, leg)
    BY DEF Invited
  <1>2. newer \subseteq newer'
    BY <1>1 DEF Bound
  <1> SUFFICES ASSUME NEW ch \in Chans', NEW e \in Dir, ch.leg[e].sock > 0,
                      call[ch.callid] = "up", ch.leg[e].port \notin StartupPorts
               PROVE  IsReceiver(ch.leg[e].sock, ch.leg[e].port)'
    BY <1>1 DEF Receives
  <1>3. CASE ch.callid = c /\ e = d
    <2> DEFINE f == leg.sock
    <2>1. ch.leg[e] = leg /\ leg.port = p
      BY <1>1, <1>3 DEF Placed, LegsAfter
    <2>2. f \in Fd /\ f # -1 /\ p \notin Unbindable /\ fdt'[f] = UdpEntry(p)
      <3>1. leg.sock > 0
        BY <2>1
      <3> QED BY <1>1, <3>1 DEF Placed, Leg
    <2>3. f \in BoundAt(p)'
      BY <2>2 DEF BoundAt, UdpEntry
    <2>4. \A g \in BoundAt(p)' \ {f} : g \in BoundAt(p)
      <3> SUFFICES ASSUME NEW g \in Fd, fdt'[g].kind = "udp", fdt'[g].port = p, g # f
                   PROVE  fdt[g].kind = "udp" /\ fdt[g].port = p
        BY DEF BoundAt
      <3>1. fdt[g].kind # "free"
        <4>1. fdt[g].kind = "free" => g = f \/ fdt'[g].port = NoPort
          BY <1>1 DEF Bound
        <4> QED BY <4>1, ConstantsAssumption
      <3> QED BY <1>1, <3>1 DEF Bound
    <2>5. \A g \in BoundAt(p) : <<f, g>> \in newer'
      BY <1>1, <2>2 DEF Bound
    <2> HIDE DEF f
    <2>6. IsReceiver(f, p)'
      BY <2>3, <2>4, <2>5 DEF IsReceiver
    <2> QED BY <2>1, <2>6 DEF f
  <1>4. CASE ~ (ch.callid = c /\ e = d)
    <2>1. PICK old \in Chans : old.callid = ch.callid /\ old.leg[e] = ch.leg[e]
      BY <1>1, <1>4 DEF Placed, LegsAfter, NoLeg
    <2> DEFINE f == ch.leg[e].sock
               q == ch.leg[e].port
               s == <<ch.callid, e>>
               t == <<c, d>>
    <2>2. s \in Stream /\ fsPort[s] = q /\ q \in Ports
      BY <2>1, OpenLeg
    <2>3. t \in Stream /\ fsPort[t] = p
      BY <1>1 DEF OwnedInv, NetSent, Stream
    <2>4. ~ Silent(s) /\ ~ Silent(t)
      BY <1>1 DEF Silent, Invite
    <2>5. s # t
      BY <1>4
    <2>6. IsReceiver(f, q) /\ f \in Fd
      <3>1. IsReceiver(f, q)
        BY <2>1 DEF Receives
      <3> QED BY <3>1 DEF IsReceiver, BoundAt
    <2> HIDE DEF s, t, f, q
    <2>7. q # p
      BY <2>2, <2>3, <2>4, <2>5, ConstantsAssumption DEF PortInv, SharedPorts
    <2>8. \A g \in Fd : fdt[g].kind = "free" /\ fdt'[g].kind = "udp" => fdt'[g].port # q
      <3> SUFFICES ASSUME NEW g \in Fd, fdt[g].kind = "free", fdt'[g].kind = "udp"
                   PROVE  fdt'[g].port # q
        OBVIOUS
      <3>1. fdt'[g] = UdpEntry(p)
        BY <1>1 DEF Bound
      <3> QED BY <2>2, <2>7, <3>1, ConstantsAssumption DEF UdpEntry
    <2>9. IsReceiver(f, q)'
      BY <1>1, <1>2, <2>6, <2>8, OpeningKeeps DEF Bound
    <2> QED BY <2>9 DEF f, q
  <1> QED BY <1>3, <1>4

LEMMA ByeReceives ==
  ASSUME OwnedInv, StepInv, Receives,
         NEW c \in Calls, NEW d \in Dir, NEW leg \in Leg, Ended(c, d, leg)
  PROVE  Receives'
  <1>1. call' = call /\ LegsAfter(c, d, ClosedLeg(leg))
    BY DEF Ended, Cleared
  <1>2. PICK S : /\ CloseFds(S)
                 /\ \A ch \in Chans, e \in Dir :
                      ch.leg[e].sock > 0 /\ ~ (ch.callid = c /\ e = d) => ch.leg[e].sock \notin S
    BY DEF Ended, Released
  <1> SUFFICES ASSUME NEW ch \in Chans', NEW e \in Dir, ch.leg[e].sock > 0,
                      call[ch.callid] = "up", ch.leg[e].port \notin StartupPorts
               PROVE  IsReceiver(ch.leg[e].sock, ch.leg[e].port)'
    BY <1>1 DEF Receives
  <1>3. /\ ~ (ch.callid = c /\ e = d)
        /\ \E old \in Chans : old.callid = ch.callid /\ old.leg[e] = ch.leg[e]
    BY <1>1 DEF LegsAfter, ClosedLeg, NoLeg
  <1>4. PICK old \in Chans : old.callid = ch.callid /\ old.leg[e] = ch.leg[e]
    BY <1>3
  <1> DEFINE f == ch.leg[e].sock
             q == ch.leg[e].port
  <1>5. q \in Ports
    <2>1. old.leg[e].sock # 0
      BY <1>4
    <2>2. old.leg[e].port \in Ports
      BY <2>1, OpenLeg
    <2> QED BY <1>4, <2>2
  <1>6. f \notin S
    BY <1>2, <1>3, <1>4
  <1>7. IsReceiver(f, q) /\ f \in Fd
    <2>1. IsReceiver(f, q)
      BY <1>4 DEF Receives
    <2> QED BY <2>1 DEF IsReceiver, BoundAt
  <1> HIDE DEF f, q
  <1>8. IsReceiver(f, q)'
    BY <1>2, <1>5, <1>6, <1>7, ClosingKeeps, ConstantsAssumption
  <1> QED BY <1>8 DEF f, q

LEMMA MainReceives ==
  ASSUME OwnedInv, StepInv, Receives, main_thread
  PROVE  Receives'
  <1>1. UNCHANGED <<g_chanels, call>>
    BY DEF main_thread, MainOpen, MainClose, MainTurn, server, caller
  <1>2. CASE MainTurn
    BY <1>1, <1>2, ReceivesFrame DEF MainTurn, kernel
  <1>3. ASSUME NEW p \in StartupPorts, MainOpen(p) \/ MainClose(p),
               NEW ch \in Chans, NEW e \in Dir, ch.leg[e].sock > 0,
               call[ch.callid] = "up", ch.leg[e].port \notin StartupPorts
        PROVE  IsReceiver(ch.leg[e].sock, ch.leg[e].port)'
    <2> DEFINE f == ch.leg[e].sock
               q == ch.leg[e].port
    <2>1. q \in Ports /\ q # p
      <3>1. ch \in Chans /\ e \in Dir /\ ch.leg[e].sock # 0
        BY <1>3
      <3>2. q \in Ports
        BY <3>1, OpenLeg
      <3> QED BY <1>3, <3>2
    <2>2. f \notin MainFds
      BY <1>3 DEF OwnedInv, SocketsOwned
    <2>3. IsReceiver(f, q) /\ f \in Fd
      <3>1. IsReceiver(f, q)
        BY <1>3 DEF Receives
      <3> QED BY <3>1 DEF IsReceiver, BoundAt
    <2> HIDE DEF f, q
    <2>4. ASSUME MainOpen(p) PROVE IsReceiver(f, q)'
      <3> DEFINE g == AllocFd(fdt)
      <3>1. fdt' = Install(fdt, g, UdpEntry(p)) /\ newer' = NewerThanBound(g, p)
        BY <2>4 DEF MainOpen
      <3>2. newer \subseteq newer'
        BY <3>1 DEF NewerThanBound
      <3>3. g = -1 \/ (g \in Fd /\ fdt[g].kind = "free")
        BY AllocFree
      <3>4. UdpEntry(p).port # q
        BY <2>1, ConstantsAssumption DEF UdpEntry
      <3> HIDE DEF g
      <3>5. \A h \in Fd : fdt[h].kind # "free" => fdt'[h] = fdt[h]
        BY <3>1, <3>3 DEF Install, OwnedInv, TypeOK, KernelTypeOK
      <3>6. \A h \in Fd : fdt'[h] = fdt[h] \/ fdt'[h] = UdpEntry(p)
        BY <3>1 DEF Install, OwnedInv, TypeOK, KernelTypeOK
      <3>7. \A h \in Fd : fdt[h].kind = "free" /\ fdt'[h].kind = "udp" => fdt'[h].port # q
        BY <3>4, <3>6
      <3> QED BY <2>3, <3>2, <3>5, <3>7, OpeningKeeps
    <2>5. ASSUME MainClose(p) PROVE IsReceiver(f, q)'
      <3>1. CloseFds({socks[p]}) /\ main.phase = "close" /\ p \in main.todo
        BY <2>5 DEF MainClose
      <3>2. socks[p] \in MainFds
        BY <3>1 DEF MainFds, MainPorts
      <3>3. f \notin {socks[p]}
        BY <2>2, <3>2
      <3> QED BY <2>1, <2>3, <3>1, <3>3, ClosingKeeps, ConstantsAssumption
    <2>6. IsReceiver(f, q)'
      BY <1>3, <2>4, <2>5
    <2> QED BY <2>6 DEF f, q
  <1>4. (\E p \in StartupPorts : MainOpen(p) \/ MainClose(p)) => Receives'
    <2> SUFFICES ASSUME NEW p \in StartupPorts, MainOpen(p) \/ MainClose(p),
                        NEW ch \in Chans', NEW e \in Dir, ch.leg[e].sock > 0,
                        call'[ch.callid] = "up", ch.leg[e].port \notin StartupPorts
                 PROVE  IsReceiver(ch.leg[e].sock, ch.leg[e].port)'
      BY DEF Receives
    <2>1. ch \in Chans /\ call[ch.callid] = "up"
      BY <1>1 DEF Chans
    <2> QED BY <1>3, <2>1
  <1> QED BY <1>2, <1>4 DEF main_thread

LEMMA ReceivesInductive ==
  ASSUME ~ QuickReuse, dups' = 0, OwnedInv, StepInv, PortInv, Receives, [Next]_vars
  PROVE  Receives'
  <1> USE DEF OwnedInv
  <1>1. ASSUME NEW m \in net, update_invite_channel(m)
        PROVE  Receives'
    <2>1. PICK c \in Calls, d \in Dir, p \in Ports, leg \in Leg : Invited(c, d, p, leg)
      BY <1>1, InviteEffect
    <2> QED BY <2>1, InviteReceives
  <1>2. ASSUME NEW m \in net, update_bye_channel(m)
        PROVE  Receives'
    <2>1. PICK c \in Calls, d \in Dir, leg \in Leg : Ended(c, d, leg)
      BY <1>2, ByeEffect
    <2> QED BY <2>1, ByeReceives
  <1>3. ASSUME NEW c \in Calls, StartCall(c)
        PROVE  Receives'
    <2>1. /\ call[c] = "idle" /\ call' = [call EXCEPT ![c] = "up"]
          /\ UNCHANGED <<g_chanels, fdt, newer>>
      BY <1>3 DEF StartCall, server, kernel
    <2>2. \A ch \in Chans, d \in Dir : ch.callid = c => ch.leg[d].sock = 0
      BY <2>1 DEF LegsInStep, PendingInvite, NoLeg
    <2>3. \A x \in Calls : call'[x] = IF x = c THEN "up" ELSE call[x]
      BY <2>1 DEF TypeOK, NetworkTypeOK
    <2>4. \A ch \in Chans : ch.callid \in Calls
      BY ChansType DEF TypeOK, ServerTypeOK
    <2> QED BY <2>1, <2>2, <2>3, <2>4, ReceivesFrame
  <1>4. ASSUME NEW c \in Calls, HangUp(c)
        PROVE  Receives'
    <2>1. /\ call' = [call EXCEPT ![c] = "down"]
          /\ UNCHANGED <<g_chanels, fdt, newer>>
      BY <1>4 DEF HangUp, server, kernel
    <2>2. \A x : call'[x] = "up" => call[x] = "up"
      BY <2>1 DEF TypeOK, NetworkTypeOK
    <2> QED BY <2>1, <2>2, ReceivesFrame
  <1>5. ASSUME NEW m \in net, Lose(m) \/ ByeFaults(m) \/ ByeUnknown(m)
        PROVE  Receives'
    <2>1. UNCHANGED <<g_chanels, fdt, newer, call>>
      BY <1>5 DEF Lose, ByeFaults, ByeUnknown, Receive, server, kernel, caller
    <2> QED BY <2>1, ReceivesFrame
  <1>6. ASSUME NEW s \in Stream, SendRtp(s) \/ EndFlight(s) \/ ArriveRtp(s)
        PROVE  Receives'
    <2>1. UNCHANGED <<g_chanels, fdt, newer, call>>
      BY <1>6 DEF SendRtp, EndFlight, ArriveRtp, server, kernel, caller
    <2> QED BY <2>1, ReceivesFrame
  <1>7. ASSUME NEW f \in Fd, NEW s \in Stream, do_rtp(f, s)
        PROVE  Receives'
    <2>1. UNCHANGED <<g_chanels, fdt, newer, call>>
      BY <1>7 DEF do_rtp, RecordRtp, RtpFaults, IgnoreRtp, ReadRtp, caller
    <2> QED BY <2>1, ReceivesFrame
  <1>8. CASE UNCHANGED vars
    BY <1>8, ReceivesFrame DEF vars
  <1> QED BY <1>1, <1>2, <1>3, <1>4, <1>5, <1>6, <1>7, <1>8, MainReceives
       DEF Next, Environment, epoll_thread, do_sip_message

\* Whatever is lost or late: without duplicates, and when a port is not reused
\* while something of its old call is on its way, each datagram sent to the port
\* of a call in progress is queued on the socket of that direction, but for the
\* ports of main()'s own block, which it binds again.
RtpReachesOutsideBlock ==
  \A ch \in Chans, d \in Dir :
    ch.leg[d].sock > 0 /\ call[ch.callid] = "up"
      /\ fsPort[<<ch.callid, d>>] \notin StartupPorts =>
        IsReceiver(ch.leg[d].sock, fsPort[<<ch.callid, d>>])

THEOREM ReachesItsLegOutsideBlock ==
  ASSUME ~ QuickReuse, MaxDup = 0, RxNamed = {}
  PROVE  Spec => []RtpReachesOutsideBlock
  <1>1. Init => Receives
    BY DEF Init, Receives, Chans
  <1>2. Receives /\ PromiseInv /\ PromiseInv' /\ [Next]_vars => Receives'
    <2> SUFFICES ASSUME Receives, PromiseInv, PromiseInv', [Next]_vars PROVE Receives'
      OBVIOUS
    <2>1. dups = 0 /\ dups' = 0 /\ OwnedInv /\ StepInv /\ PortInv
      BY DEF PromiseInv, AccountInv, IInv, TypeOK, NetworkTypeOK
    <2> QED BY <2>1, ReceivesInductive
  <1>3. Receives /\ PromiseInv => RtpReachesOutsideBlock
    <2> SUFFICES ASSUME Receives, PromiseInv, NEW ch \in Chans, NEW d \in Dir,
                        ch.leg[d].sock > 0, call[ch.callid] = "up",
                        fsPort[<<ch.callid, d>>] \notin StartupPorts
                 PROVE  IsReceiver(ch.leg[d].sock, fsPort[<<ch.callid, d>>])
      BY DEF RtpReachesOutsideBlock
    <2>1. OwnedInv /\ StepInv
      BY DEF PromiseInv, AccountInv, IInv, TypeOK, NetworkTypeOK
    <2>2. ch.leg[d].port = fsPort[<<ch.callid, d>>]
      BY <2>1, OpenLeg
    <2> QED BY <2>2 DEF Receives
  <1> QED BY <1>1, <1>2, <1>3, Promises, PTL DEF Spec

\* The case the runs check: main()'s block lies outside the ports FreeSWITCH takes.
THEOREM ReachesItsLeg ==
  ASSUME ~ QuickReuse, MaxDup = 0, RxNamed = {}, StartupPorts = {}
  PROVE  Spec => []RtpReachesItsLeg
  <1>1. RtpReachesOutsideBlock => RtpReachesItsLeg
    BY DEF RtpReachesOutsideBlock, RtpReachesItsLeg
  <1> QED BY <1>1, ReachesItsLegOutsideBlock, PTL
------------------------------------------------------------------------------
(* What is recorded.                                                        *)

\* What waits on the socket of a direction was sent to that direction,
QueuesTrue ==
  \A ch \in Chans, d \in Dir : ch.leg[d].sock > 0 =>
    rq[ch.leg[d].sock] \subseteq {<<ch.callid, d>>}

\* a recording holds nothing else, and nothing before it is opened,
AudioTrue ==
  \A s \in Stream : audio[s] \subseteq {s} /\ (s \notin made => audio[s] = {})

\* which is not before its INVITE comes,
Unopened == \A c \in Calls, d \in Dir : PendingInvite(c, d) => <<c, d>> \notin made

\* and a FILE is opened for one.
MadeOpen == \A a \in Heap : heap[a] # NULL => heap[a].stream \in made

RecordInv == QueuesTrue /\ AudioTrue /\ Unopened /\ MadeOpen

\* The INVITE of a direction is sent once.
LEMMA PendingOnce ==
  ASSUME TypeOK, [Next]_vars, NEW c \in Calls, NEW d \in Dir, PendingInvite(c, d)'
  PROVE  PendingInvite(c, d)
  <1>1. ASSUME net' \subseteq net, call' = call PROVE PendingInvite(c, d)
    BY <1>1 DEF PendingInvite
  <1>2. ASSUME NEW x \in Calls, StartCall(x) PROVE PendingInvite(c, d)
    <2>1. PICK p \in [Dir -> Ports] : net' = net \cup {Invite(x, e, p[e]) : e \in Dir}
      BY <1>2 DEF StartCall
    <2>2. call[x] = "idle" /\ call' = [call EXCEPT ![x] = "up"]
      BY <1>2 DEF StartCall
    <2>3. x = c \/ \A q \in Ports : Invite(c, d, q) \in net' => Invite(c, d, q) \in net
      BY <2>1 DEF Invite
    <2> QED BY <2>2, <2>3 DEF PendingInvite, TypeOK, NetworkTypeOK
  <1>3. ASSUME NEW x \in Calls, HangUp(x) PROVE PendingInvite(c, d)
    <2>1. net' = net \cup {Bye(x, e) : e \in Dir} /\ call' = [call EXCEPT ![x] = "down"]
      BY <1>3 DEF HangUp
    <2>2. \A q \in Ports : Invite(c, d, q) \in net' => Invite(c, d, q) \in net
      BY <2>1 DEF Invite, Bye
    <2> QED BY <2>1, <2>2 DEF PendingInvite, TypeOK, NetworkTypeOK
  <1>4. ASSUME NEW m \in net, Lose(m) \/ do_sip_message(m) PROVE PendingInvite(c, d)
    <2>1. net' \subseteq net /\ call' = call
      BY <1>4 DEF Lose, do_sip_message, update_invite_channel, update_bye_channel, ByeFaults,
                  ByeUnknown, Receive, caller
    <2> QED BY <1>1, <2>1
  <1> QED BY <1>1, <1>2, <1>3, <1>4, OtherFrame DEF Next, Environment, epoll_thread

LEMMA LegSocket ==
  ASSUME OwnedInv, NEW ch \in Chans, NEW d \in Dir, ch.leg[d].sock > 0
  PROVE  ch.leg[d].sock \in Fd /\ ch.callid \in Calls
  <1>1. ch.callid \in Calls /\ ch.leg[d] \in Leg
    BY ChansType DEF OwnedInv, TypeOK, ServerTypeOK
  <1> QED BY <1>1 DEF Leg

LEMMA QueuesShrink ==
  ASSUME OwnedInv, QueuesTrue, UNCHANGED g_chanels, \A f \in Fd : rq'[f] \subseteq rq[f]
  PROVE  QueuesTrue'
  <1> SUFFICES ASSUME NEW ch \in Chans, NEW d \in Dir, ch.leg[d].sock > 0
               PROVE  rq'[ch.leg[d].sock] \subseteq {<<ch.callid, d>>}
    BY DEF QueuesTrue, Chans
  <1>1. ch.leg[d].sock \in Fd
    BY LegSocket
  <1> QED BY <1>1 DEF QueuesTrue

\* Descriptors are closed: their queues go, the others stay.
LEMMA ClosedQueues ==
  ASSUME NEW S, CloseFds(S)
  PROVE  \A f \in Fd : rq'[f] \subseteq rq[f]
  BY DEF CloseFds

LEMMA InviteQueues ==
  ASSUME OwnedInv, QueuesTrue,
         NEW c \in Calls, NEW d \in Dir, NEW p \in Ports, NEW leg \in Leg, Invited(c, d, p, leg)
  PROVE  QueuesTrue'
  <1>1. rq' = rq /\ Placed(c, d, p, leg)
    BY DEF Invited
  <1> SUFFICES ASSUME NEW ch \in Chans', NEW e \in Dir, ch.leg[e].sock > 0
               PROVE  rq[ch.leg[e].sock] \subseteq {<<ch.callid, e>>}
    BY <1>1 DEF QueuesTrue
  <1>2. CASE ch.callid = c /\ e = d
    <2>1. ch.leg[e] = leg
      BY <1>1, <1>2 DEF Placed, LegsAfter
    <2>2. leg.sock \in Fd /\ fdt[leg.sock].kind = "free"
      BY <1>1, <2>1 DEF Placed, Leg
    <2> QED BY <2>1, <2>2 DEF OwnedInv, QueuesOnSockets
  <1>3. CASE ~ (ch.callid = c /\ e = d)
    <2>1. PICK old \in Chans : old.callid = ch.callid /\ old.leg[e] = ch.leg[e]
      BY <1>1, <1>3 DEF Placed, LegsAfter, NoLeg
    <2> QED BY <2>1 DEF QueuesTrue
  <1> QED BY <1>2, <1>3

LEMMA ByeQueues ==
  ASSUME OwnedInv, QueuesTrue,
         NEW c \in Calls, NEW d \in Dir, NEW leg \in Leg, Ended(c, d, leg)
  PROVE  QueuesTrue'
  <1>1. LegsAfter(c, d, ClosedLeg(leg)) /\ \A f \in Fd : rq'[f] \subseteq rq[f]
    BY ClosedQueues DEF Ended, Cleared, Released
  <1> SUFFICES ASSUME NEW ch \in Chans', NEW e \in Dir, ch.leg[e].sock > 0
               PROVE  rq'[ch.leg[e].sock] \subseteq {<<ch.callid, e>>}
    BY DEF QueuesTrue
  <1>2. \E old \in Chans : old.callid = ch.callid /\ old.leg[e] = ch.leg[e]
    BY <1>1 DEF LegsAfter, ClosedLeg, NoLeg
  <1>3. PICK old \in Chans : old.callid = ch.callid /\ old.leg[e] = ch.leg[e]
    BY <1>2
  <1>4. old.leg[e].sock > 0
    BY <1>3
  <1>5. old.leg[e].sock \in Fd
    BY <1>4, LegSocket
  <1>6. rq[old.leg[e].sock] \subseteq {<<old.callid, e>>}
    BY <1>4 DEF QueuesTrue
  <1> QED BY <1>1, <1>3, <1>5, <1>6

\* No packet is on its way to a port that another stream's direction holds.
PortsUnmixed ==
  up => \A ch \in Chans, d \in Dir, s \in flight :
    ch.leg[d].sock > 0 /\ ch.leg[d].port = fsPort[s] => s = <<ch.callid, d>>

\* So a packet that arrives was sent to the direction whose socket takes it.
LEMMA ArriveQueues ==
  ASSUME PortsUnmixed, OwnedInv, StepInv, PortInv, QueuesTrue,
         NEW s \in Stream, ArriveRtp(s)
  PROVE  QueuesTrue'
  <1>1. up /\ s \in flight /\ g_chanels' = g_chanels
    BY DEF ArriveRtp, server
  <1>2. PICK f \in Fd : IsReceiver(f, fsPort[s]) /\ rq' = [rq EXCEPT ![f] = @ \cup {s}]
    BY DEF ArriveRtp
  <1>3. \A g \in Fd : rq'[g] = IF g = f THEN rq[f] \cup {s} ELSE rq[g]
    BY <1>2 DEF OwnedInv, TypeOK, KernelTypeOK
  <1> SUFFICES ASSUME NEW ch \in Chans, NEW d \in Dir, ch.leg[d].sock > 0
               PROVE  rq'[ch.leg[d].sock] \subseteq {<<ch.callid, d>>}
    BY <1>1 DEF QueuesTrue, Chans
  <1>4. ch.leg[d].sock \in Fd /\ rq[ch.leg[d].sock] \subseteq {<<ch.callid, d>>}
    BY LegSocket DEF QueuesTrue
  <1>5. ASSUME ch.leg[d].sock = f
        PROVE  s = <<ch.callid, d>>
    <2>1. fdt[f] = UdpEntry(ch.leg[d].port)
      BY <1>5 DEF OwnedInv, SocketsOwned
    <2>2. fdt[f].port = fsPort[s]
      BY <1>2 DEF IsReceiver, BoundAt
    <2>3. fsPort[s] # NoPort
      <3>1. call[s[1]] # "idle"
        BY <1>1 DEF PortInv, FlightSent
      <3> QED BY <3>1 DEF StepInv, CallsHavePorts, Stream
    <2>4. ch.leg[d].port = fsPort[s]
      BY <2>1, <2>2, <2>3 DEF UdpEntry
    <2> QED BY <1>1, <2>4 DEF PortsUnmixed
  <1> QED BY <1>3, <1>4, <1>5

LEMMA QueuesInductive ==
  ASSUME PortsUnmixed, dups' = 0,
         OwnedInv, StepInv, PortInv, QueuesTrue, [Next]_vars
  PROVE  QueuesTrue'
  <1>1. ASSUME UNCHANGED <<g_chanels, rq>> PROVE QueuesTrue'
    BY <1>1, QueuesShrink
  <1>2. ASSUME NEW m \in net, update_invite_channel(m) PROVE QueuesTrue'
    <2>1. PICK c \in Calls, d \in Dir, p \in Ports, leg \in Leg : Invited(c, d, p, leg)
      BY <1>2, InviteEffect
    <2> QED BY <2>1, InviteQueues
  <1>3. ASSUME NEW m \in net, update_bye_channel(m) PROVE QueuesTrue'
    <2>1. PICK c \in Calls, d \in Dir, leg \in Leg : Ended(c, d, leg)
      BY <1>3, ByeEffect
    <2> QED BY <2>1, ByeQueues
  <1>4. ASSUME NEW m \in net, Lose(m) \/ ByeFaults(m) \/ ByeUnknown(m) PROVE QueuesTrue'
    BY <1>1, <1>4 DEF Lose, ByeFaults, ByeUnknown, server, kernel
  <1>5. ASSUME NEW c \in Calls, StartCall(c) \/ HangUp(c) PROVE QueuesTrue'
    BY <1>1, <1>5 DEF StartCall, HangUp, server, kernel
  <1>6. ASSUME NEW s \in Stream, SendRtp(s) \/ EndFlight(s) PROVE QueuesTrue'
    BY <1>1, <1>6 DEF SendRtp, EndFlight, server, kernel
  <1>7. ASSUME NEW f \in Fd, NEW s \in Stream, do_rtp(f, s) PROVE QueuesTrue'
    <2>1. UNCHANGED g_chanels /\ \E rest \in {rq[f], rq[f] \ {s}} : rq' = [rq EXCEPT ![f] = rest]
      BY <1>7 DEF do_rtp, RecordRtp, RtpFaults, IgnoreRtp, ReadRtp
    <2>2. \A g \in Fd : rq'[g] \subseteq rq[g]
      BY <2>1 DEF OwnedInv, TypeOK, KernelTypeOK
    <2> QED BY <2>1, <2>2, QueuesShrink
  <1>8. CASE main_thread
    <2>1. UNCHANGED g_chanels
      BY <1>8, OtherFrame
    <2>2. CASE MainTurn \/ \E p \in StartupPorts : MainOpen(p)
      BY <1>1, <2>1, <2>2 DEF MainTurn, MainOpen, kernel
    <2>3. ASSUME NEW p \in StartupPorts, MainClose(p) PROVE QueuesTrue'
      <3>1. \A f \in Fd : rq'[f] \subseteq rq[f]
        BY <2>3, ClosedQueues DEF MainClose
      <3> QED BY <2>1, <3>1, QueuesShrink
    <2> QED BY <1>8, <2>2, <2>3 DEF main_thread
  <1>9. CASE UNCHANGED vars
    BY <1>1, <1>9 DEF vars
  <1> QED BY <1>2, <1>3, <1>4, <1>5, <1>6, <1>7, <1>8, <1>9, ArriveQueues
       DEF Next, Environment, epoll_thread, do_sip_message

------------------------------------------------------------------------------
(* Recorder, step by step.                                                  *)

Phase(s) ==
  IF s \notin made THEN "none"
  ELSE IF \E a \in Heap : heap[a] # NULL /\ heap[a].stream = s THEN "open"
  ELSE "final"

\* An INVITE opens the recording of its direction, or nothing ...
LEMMA InviteOpens ==
  ASSUME OwnedInv, RecordInv,
         NEW c \in Calls, NEW d \in Dir, NEW p \in Ports, NEW leg \in Leg, Invited(c, d, p, leg)
  PROVE  /\ AudioTrue' /\ MadeOpen' /\ ~ PendingInvite(c, d)'
         /\ \A s \in Stream : s # <<c, d>> => (s \in made' <=> s \in made)
         /\ [Promise!Next]_(Promise!vars)
  <1> USE DEF OwnedInv
  <1> DEFINE s == <<c, d>>
  <1>1. /\ Opened(c, d, p, leg) /\ s \in Stream
        /\ Invite(c, d, p) \in net /\ net' = net \ {Invite(c, d, p)}
        /\ call' = call /\ call[c] # "idle"
    BY DEF Invited, Stream
  <1>2. s \notin made
    BY <1>1 DEF RecordInv, Unopened, PendingInvite
  <1>3. ~ PendingInvite(c, d)'
    <2>1. \A q \in Ports : Invite(c, d, q) \in net => q = p
      BY <1>1 DEF NetSent
    <2> QED BY <1>1, <2>1 DEF PendingInvite
  <1>4. CASE UNCHANGED <<heap, made, audio>>
    <2>1. AudioTrue' /\ MadeOpen'
      BY <1>4 DEF RecordInv, AudioTrue, MadeOpen
    <2>2. UNCHANGED Promise!vars
      BY <1>4 DEF Promise!vars
    <2> QED BY <1>3, <1>4, <2>1, <2>2
  <1>5. CASE leg.file \in Heap /\ heap[leg.file] = NULL /\ heap'[leg.file] # NULL
             /\ heap'[leg.file].stream = s
             /\ (\A a \in Heap \ {leg.file} : heap'[a] = heap[a])
             /\ made' = made \cup {s}
             /\ audio' = [audio EXCEPT ![s] = {}]
    <2> HIDE DEF s
    <2>1. audio' = audio
      BY <1>1, <1>2, <1>5 DEF RecordInv, AudioTrue, TypeOK, FilesTypeOK
    <2>2. AudioTrue'
      BY <1>5, <2>1 DEF RecordInv, AudioTrue
    <2>3. MadeOpen'
      BY <1>5 DEF RecordInv, MadeOpen
    <2>4. Phase(s) = "none" /\ Phase(s)' = "open"
      BY <1>2, <1>5 DEF Phase
    <2>5. \A t \in Stream : t # s => Phase(t)' = Phase(t)
      <3> SUFFICES ASSUME NEW t \in Stream, t # s PROVE Phase(t)' = Phase(t)
        OBVIOUS
      <3>1. t \in made' <=> t \in made
        BY <1>5
      <3>2. \A a \in Heap : heap'[a] # NULL /\ heap'[a].stream = t
                            <=> heap[a] # NULL /\ heap[a].stream = t
        BY <1>5
      <3> QED BY <3>1, <3>2 DEF Phase
    <2>6. Promise!Open({s})
      BY <1>1, <2>1, <2>4, <2>5 DEF Promise!Open, Promise!Move, Phase
    <2>7. Promise!Next
      BY <1>1, <2>6 DEF Promise!Next
    <2> QED BY <1>3, <1>5, <2>2, <2>3, <2>7 DEF s
  <1> QED BY <1>1, <1>4, <1>5 DEF Opened

\* ... a BYE makes it final ...
LEMMA ByeCloses ==
  ASSUME OwnedInv, NoLeak, RecordInv,
         NEW c \in Calls, NEW d \in Dir, NEW leg \in Leg, Ended(c, d, leg)
  PROVE  AudioTrue' /\ MadeOpen' /\ made' = made /\ Promise!Next
  <1> USE DEF OwnedInv
  <1> DEFINE s == <<c, d>>
             file == leg.file
  <1>1. /\ file \in Heap /\ heap[file] # NULL /\ heap[file].stream = s
        /\ heap' = [heap EXCEPT ![file] = NULL] /\ UNCHANGED <<made, audio>>
        /\ s \in Stream
    BY DEF Ended, Finished, IsOpen, Stream
  <1>2. \A a \in Heap : heap'[a] = IF a = file THEN NULL ELSE heap[a]
    BY <1>1 DEF TypeOK, FilesTypeOK
  <1>3. AudioTrue' /\ MadeOpen'
    BY <1>1, <1>2 DEF RecordInv, AudioTrue, MadeOpen
  <1>4. ASSUME NEW a \in Heap, heap[a] # NULL, heap[a].stream = s
        PROVE  a = file
    <2>1. PICK ch \in Chans, e \in Dir : ch.leg[e].sock # 0 /\ ch.leg[e].file = a
      BY <1>4, FilesHeld
    <2>2. heap[a].stream = <<ch.callid, e>>
      BY <2>1, ConstantsAssumption DEF FilesOwned
    <2>3. ch.callid = c /\ e = d
      BY <1>4, <2>2
    <2>4. ch.leg[d] = leg
      BY <2>3 DEF Ended, Cleared
    <2> QED BY <2>1, <2>3, <2>4
  <1> HIDE DEF s, file
  <1>5. Phase(s) = "open"
    BY <1>1 DEF RecordInv, MadeOpen, Phase
  <1>6. Phase(s)' = "final"
    <2>1. s \in made'
      BY <1>1 DEF RecordInv, MadeOpen
    <2>2. ~ \E a \in Heap : heap'[a] # NULL /\ heap'[a].stream = s
      BY <1>2, <1>4
    <2> QED BY <2>1, <2>2 DEF Phase
  <1>7. \A t \in Stream : t # s => Phase(t)' = Phase(t)
    BY <1>1, <1>2 DEF Phase
  <1>8. Promise!Close({s})
    BY <1>1, <1>5, <1>6, <1>7 DEF Promise!Close, Promise!Move, Phase
  <1>9. Promise!Next
    BY <1>1, <1>8 DEF Promise!Next
  <1> QED BY <1>1, <1>3, <1>9

\* ... and a packet goes into the recording it was sent to, which is open.
LEMMA PacketRecorded ==
  ASSUME OwnedInv, RecordInv, NEW f \in Fd, NEW s \in Stream, RecordRtp(f, s)
  PROVE  AudioTrue' /\ Promise!Record(s)
  <1> USE DEF OwnedInv
  <1>1. /\ s \in rq[f] /\ find_channel_by_sock(f) # 0 /\ UNCHANGED <<heap, made>>
        /\ IsOpen(FileFor(f))
        /\ audio' = [audio EXCEPT ![heap[FileFor(f)].stream] = @ \cup {s}]
    BY DEF RecordRtp, ReadRtp
  <1>2. PICK ch \in Chans, d \in Dir : ch.leg[d].sock = f /\ FileFor(f) = ch.leg[d].file
    BY <1>1, FileForLeg
  <1>3. f > 0
    BY <1>1, FileForLeg
  <1>4. s = <<ch.callid, d>>
    BY <1>1, <1>2, <1>3 DEF RecordInv, QueuesTrue
  <1>5. heap[FileFor(f)].stream = s /\ FileFor(f) \in Heap /\ heap[FileFor(f)] # NULL
    <2>1. FileFor(f) \in Heap /\ heap[FileFor(f)] # NULL
      BY <1>1 DEF IsOpen
    <2>2. ch.leg[d].sock # 0 /\ ch.leg[d].file # NULL
      BY <1>2, <1>3, <2>1, ConstantsAssumption
    <2> QED BY <1>2, <1>4, <2>1, <2>2 DEF FilesOwned
  <1>6. s \in made /\ audio[s] \subseteq {s}
    BY <1>5 DEF RecordInv, MadeOpen, AudioTrue
  <1>7. audio' = [audio EXCEPT ![s] = {s}]
    <2>1. audio[s] \cup {s} = {s}
      BY <1>6
    <2> QED BY <1>1, <1>5, <2>1
  <1>8. AudioTrue'
    BY <1>1, <1>6, <1>7 DEF RecordInv, AudioTrue, TypeOK, FilesTypeOK
  <1>9. \E a \in Heap : heap[a] # NULL /\ heap[a].stream = s
    BY <1>5
  <1> QED BY <1>1, <1>6, <1>7, <1>8, <1>9 DEF Promise!Record
\* Nothing else touches a recording.
LEMMA RecordingsRest ==
  ASSUME \/ \E c \in Calls : StartCall(c) \/ HangUp(c)
         \/ \E s \in Stream : SendRtp(s) \/ EndFlight(s) \/ ArriveRtp(s)
         \/ \E m \in net : Lose(m) \/ ByeFaults(m) \/ ByeUnknown(m)
         \/ \E f \in Fd, s \in Stream : RtpFaults(f, s) \/ IgnoreRtp(f, s)
         \/ main_thread
         \/ UNCHANGED vars
  PROVE  UNCHANGED <<heap, made, audio>>
  <1>1. CASE \/ \E c \in Calls : StartCall(c) \/ HangUp(c)
             \/ \E s \in Stream : SendRtp(s) \/ EndFlight(s) \/ ArriveRtp(s)
    BY <1>1 DEF StartCall, HangUp, SendRtp, EndFlight, ArriveRtp, files
  <1>2. CASE \/ \E m \in net : Lose(m) \/ ByeFaults(m) \/ ByeUnknown(m)
             \/ \E f \in Fd, s \in Stream : RtpFaults(f, s) \/ IgnoreRtp(f, s)
    BY <1>2 DEF Lose, ByeFaults, ByeUnknown, RtpFaults, IgnoreRtp, ReadRtp, files
  <1>3. CASE main_thread
    BY <1>3 DEF main_thread, MainOpen, MainClose, MainTurn, files
  <1> QED BY <1>1, <1>2, <1>3 DEF vars

LEMMA RecordStep ==
  ASSUME PortsUnmixed, dups' = 0,
         OwnedInv, NoLeak, StepInv, PortInv, RecordInv, [Next]_vars
  PROVE  RecordInv' /\ [Promise!Next]_(Promise!vars)
  <1>1. QueuesTrue'
    BY QueuesInductive DEF RecordInv
  <1>2. \A c \in Calls, d \in Dir : PendingInvite(c, d)' => PendingInvite(c, d)
    BY PendingOnce DEF OwnedInv
  <1>3. ASSUME UNCHANGED <<heap, made, audio>>
        PROVE  RecordInv' /\ [Promise!Next]_(Promise!vars)
    <2>1. AudioTrue' /\ Unopened' /\ MadeOpen'
      BY <1>2, <1>3 DEF RecordInv, AudioTrue, Unopened, MadeOpen
    <2>2. UNCHANGED Promise!vars
      BY <1>3 DEF Promise!vars
    <2> QED BY <1>1, <2>1, <2>2 DEF RecordInv
  <1>4. ASSUME NEW m \in net, update_invite_channel(m)
        PROVE  RecordInv' /\ [Promise!Next]_(Promise!vars)
    <2>1. PICK c \in Calls, d \in Dir, p \in Ports, leg \in Leg : Invited(c, d, p, leg)
      BY <1>4, InviteEffect
    <2>2. /\ AudioTrue' /\ MadeOpen' /\ ~ PendingInvite(c, d)'
          /\ \A s \in Stream : s # <<c, d>> => (s \in made' <=> s \in made)
          /\ [Promise!Next]_(Promise!vars)
      BY <2>1, InviteOpens
    <2>3. Unopened'
      <3> SUFFICES ASSUME NEW x \in Calls, NEW e \in Dir, PendingInvite(x, e)'
                   PROVE  <<x, e>> \notin made'
        BY DEF Unopened
      <3>1. <<x, e>> \in Stream /\ <<x, e>> \notin made
        BY <1>2 DEF RecordInv, Unopened, Stream
      <3>2. CASE x = c /\ e = d
        BY <2>2, <3>2
      <3>3. CASE ~ (x = c /\ e = d)
        BY <2>2, <3>1, <3>3
      <3> QED BY <3>2, <3>3
    <2> QED BY <1>1, <2>2, <2>3 DEF RecordInv
  <1>5. ASSUME NEW m \in net, update_bye_channel(m)
        PROVE  RecordInv' /\ [Promise!Next]_(Promise!vars)
    <2>1. PICK c \in Calls, d \in Dir, leg \in Leg : Ended(c, d, leg)
      BY <1>5, ByeEffect
    <2>2. AudioTrue' /\ MadeOpen' /\ made' = made /\ Promise!Next
      BY <2>1, ByeCloses
    <2>3. Unopened'
      BY <1>2, <2>2 DEF RecordInv, Unopened
    <2> QED BY <1>1, <2>2, <2>3 DEF RecordInv
  <1>6. ASSUME NEW f \in Fd, NEW s \in Stream, RecordRtp(f, s)
        PROVE  RecordInv' /\ [Promise!Next]_(Promise!vars)
    <2>1. AudioTrue' /\ Promise!Record(s)
      BY <1>6, PacketRecorded
    <2>2. UNCHANGED <<heap, made>>
      BY <1>6 DEF RecordRtp, ReadRtp
    <2>3. Unopened' /\ MadeOpen'
      BY <1>2, <2>2 DEF RecordInv, Unopened, MadeOpen
    <2>4. Promise!Next
      BY <2>1 DEF Promise!Next
    <2> QED BY <1>1, <2>1, <2>3, <2>4 DEF RecordInv
  <1> QED BY <1>3, <1>4, <1>5, <1>6, RecordingsRest
       DEF Next, Environment, epoll_thread, do_sip_message, do_rtp

\* The refinement.  Each step of the server is a step of the recorder or leaves
\* the recordings alone, whatever is lost, late or out of order, however many
\* descriptors there are, and whatever main() binds: as long as no text comes
\* twice and no packet is on its way to a port another direction still holds.
THEOREM RecordsUnlessMixed ==
  ASSUME RxNamed = {}
  PROVE  Spec /\ [](dups = 0 /\ PortsUnmixed) => ImplementsRecorder
  <1>1. Init => RecordInv /\ Promise!Init
    <2> SUFFICES ASSUME Init PROVE RecordInv /\ Promise!Init
      OBVIOUS
    <2>1. Chans = {}
      BY DEF Init, Chans
    <2>2. RecordInv
      BY <2>1 DEF Init, RecordInv, QueuesTrue, AudioTrue, Unopened, MadeOpen
    <2>3. Promise!Init
      BY DEF Init, Promise!Init
    <2> QED BY <2>2, <2>3
  <1>2. /\ RecordInv /\ PromiseInv
        /\ dups = 0 /\ PortsUnmixed /\ (dups = 0 /\ PortsUnmixed)' /\ [Next]_vars
        => RecordInv' /\ [Promise!Next]_(Promise!vars)
    <2> SUFFICES ASSUME RecordInv, PromiseInv, dups = 0, PortsUnmixed, dups' = 0, [Next]_vars
                 PROVE  RecordInv' /\ [Promise!Next]_(Promise!vars)
      OBVIOUS
    <2>1. OwnedInv /\ NoLeak /\ StepInv /\ PortInv
      BY DEF PromiseInv, AccountInv, IInv
    <2> QED BY <2>1, RecordStep
  <1> QED BY <1>1, <1>2, Promises, PTL DEF Spec, ImplementsRecorder, Promise!Spec

\* That is so when every stream has a port of its own, for whatever the network
\* then loses or delays, ...
PortsDiffer ==
  \A s, t \in Stream : s # t /\ fsPort[s] = fsPort[t] => fsPort[s] = NoPort

LEMMA OwnPortsUnmixed ==
  ASSUME OwnedInv, StepInv, PortInv, PortsDiffer
  PROVE  PortsUnmixed
  <1> SUFFICES ASSUME NEW ch \in Chans, NEW d \in Dir, NEW s \in flight,
                      ch.leg[d].sock > 0, ch.leg[d].port = fsPort[s]
               PROVE  s = <<ch.callid, d>>
    BY DEF PortsUnmixed
  <1> DEFINE t == <<ch.callid, d>>
  <1>1. ch.leg[d].sock # 0
    OBVIOUS
  <1>2. t \in Stream /\ fsPort[t] = fsPort[s] /\ fsPort[t] \in Ports
    BY <1>1, OpenLeg
  <1>3. s \in Stream
    BY DEF OwnedInv, TypeOK, NetworkTypeOK
  <1> HIDE DEF t
  <1>4. s = t
    BY <1>2, <1>3, ConstantsAssumption DEF PortsDiffer
  <1> QED BY <1>4 DEF t

\* The server keeps the recorder's promise towards calls that all have ports of
\* their own, over a network that loses, delays and reorders their texts.
THEOREM RecordsOnOwnPorts ==
  ASSUME MaxDup = 0, RxNamed = {}
  PROVE  Spec /\ []PortsDiffer => ImplementsRecorder
  <1>1. PromiseInv /\ PortsDiffer => dups = 0 /\ PortsUnmixed
    <2> SUFFICES ASSUME PromiseInv, PortsDiffer PROVE dups = 0 /\ PortsUnmixed
      OBVIOUS
    <2>1. dups = 0 /\ OwnedInv /\ StepInv /\ PortInv
      BY DEF PromiseInv, AccountInv, IInv, TypeOK, NetworkTypeOK
    <2> QED BY <2>1, OwnPortsUnmixed
  <1> QED BY <1>1, Promises, RecordsUnlessMixed, PTL

\* ... and when a port is taken again, but each BYE has come by then.
LEMMA QuietPortsUnmixed ==
  ASSUME InOrder, ~ QuickReuse, ByesArrive, OwnedInv, StepInv, PortInv
  PROVE  PortsUnmixed
  <1> SUFFICES ASSUME up, NEW ch \in Chans, NEW d \in Dir, NEW s \in flight,
                      ch.leg[d].sock > 0, ch.leg[d].port = fsPort[s]
               PROVE  s = <<ch.callid, d>>
    BY DEF PortsUnmixed
  <1> DEFINE t == <<ch.callid, d>>
  <1>1. ch.leg[d].sock # 0
    OBVIOUS
  <1>2. t \in Stream /\ fsPort[t] = fsPort[s] /\ fsPort[t] \in Ports
    BY <1>1, OpenLeg
  <1>3. s \in Stream /\ ~ Silent(s)
    BY DEF OwnedInv, TypeOK, NetworkTypeOK, Silent
  <1>4. ~ Silent(t)
    BY <1>1, SilentClosed
  <1> HIDE DEF t
  <1>5. s = t
    BY <1>2, <1>3, <1>4, ConstantsAssumption DEF PortInv, SharedPorts
  <1> QED BY <1>5 DEF t

\* With texts in order and each BYE delivered, ports may also be reused, once
\* nothing of their old call is on its way; an INVITE may still be lost.
THEOREM RecordsWhileByesArrive ==
  ASSUME InOrder, ~ QuickReuse, MaxDup = 0, RxNamed = {}
  PROVE  Spec /\ []ByesArrive => ImplementsRecorder
  <1>1. PromiseInv /\ ByesArrive => dups = 0 /\ PortsUnmixed
    <2> SUFFICES ASSUME PromiseInv, ByesArrive PROVE dups = 0 /\ PortsUnmixed
      OBVIOUS
    <2>1. dups = 0 /\ OwnedInv /\ StepInv /\ PortInv
      BY DEF PromiseInv, AccountInv, IInv, TypeOK, NetworkTypeOK
    <2> QED BY <2>1, QuietPortsUnmixed
  <1> QED BY <1>1, Promises, RecordsUnlessMixed, PTL

\* The case the runs check: a network that loses nothing at all.
THEOREM ServerRecords ==
  ASSUME InOrder, ~ QuickReuse, MaxDup = 0, RxNamed = {}, MaxLoss = 0
  PROVE  Spec => ImplementsRecorder
  <1>1. NoneLost => ByesArrive
    BY DEF NoneLost, ByesArrive
  <1> QED BY <1>1, NothingLost, RecordsWhileByesArrive, PTL
==============================================================================
