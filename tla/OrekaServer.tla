----------------------------- MODULE OrekaServer -----------------------------
(***************************************************************************)
(* The record server behind mod_oreka.  FreeSWITCH announces a call with   *)
(* two INVITE texts and ends it with two BYE texts, one of each per        *)
(* direction, sent over UDP and never answered; between them it sends one  *)
(* RTP stream per direction to the port named in the INVITE.  The server   *)
(* keeps a list of channels and, for each direction of a channel, a UDP    *)
(* socket and a FILE.  One thread runs the epoll loop and both handlers;   *)
(* main() opens and closes a block of sockets beside it.                   *)
(*                                                                         *)
(* One step of the epoll thread is one event of its loop: nothing else     *)
(* runs in that thread between two events, and a descriptor whose event    *)
(* was dropped is reported again (level-triggered polling).                *)
(***************************************************************************)
EXTENDS Integers, Sequences, FiniteSets

CONSTANTS
  Calls,         \* Call-IDs (session uuids), one call each
  Ports,         \* UDP ports FreeSWITCH takes for the streams
  StartupPorts,  \* the ports of Ports that lie in main()'s block 18000..18999
  Unbindable,    \* ports another program holds, so that bind() fails
  NFd,           \* size of the descriptor table (RLIMIT_NOFILE)
  Heap,          \* addresses malloc can give a FILE
  Rounds,        \* open/close rounds of main() (1000 in the code)
  MaxLoss,       \* messages the network may lose (or the parser reject)
  MaxDup,        \* messages the network may deliver once more
  InOrder,       \* messages of one call are delivered in the order sent
  Voiced,        \* directions in which RTP packets are sent
  QuickReuse,    \* a port may be reused while traffic of its old call is pending
  RxNamed,       \* calls whose recorded party has the letters RX in its name
  NULL, NoPort

Dir == {"rx", "tx"}
Stream == Calls \X Dir
Fd == 0 .. (NFd - 1)
File == [fd : Fd, stream : Stream]

ASSUME ConstantsAssumption ==
  /\ StartupPorts \subseteq Ports
  /\ Unbindable \subseteq Ports
  /\ Voiced \subseteq Dir
  /\ RxNamed \subseteq Calls
  /\ NFd \in Nat \ {0}
  /\ Rounds \in Nat /\ MaxLoss \in Nat /\ MaxDup \in Nat
  /\ InOrder \in BOOLEAN /\ QuickReuse \in BOOLEAN
  /\ NoPort \notin Ports
  /\ NULL \notin Heap \cup File

VARIABLES
  \* the server
  g_chanels,  \* the channel list, in order of creation
  up,         \* the process has not been killed by a fault
  fault,      \* the FILE pointer that killed it: "null" or "closed"; "none" before
  main,       \* where main() is: [phase, todo, round]
  socks,      \* main()'s array of descriptors
  \* the kernel and the C library below it
  fdt,        \* descriptor table: [kind, port] of each descriptor
  newer,      \* <<f, g>>: f was bound after g, to the same port
  rq,         \* streams with datagrams in the receive queue of a socket
  heap,       \* open FILEs: [fd, stream], or NULL when the address is free
  made,       \* streams whose .pcm file exists
  audio,      \* streams whose packets the .pcm file of a stream holds
  \* mod_oreka and the network
  call,       \* "idle", "up" or "down"
  fsPort,     \* the port FreeSWITCH took for a stream
  net,        \* SIP texts in flight
  lost, dups, \* what the network has done so far
  flight      \* streams with RTP packets in flight

server == <<g_chanels, up, fault>>
starter == <<main, socks>>
kernel == <<fdt, newer, rq>>
files == <<heap, made, audio>>
caller == <<call, fsPort>>
network == <<net, lost, dups>>
vars == <<g_chanels, up, fault, main, socks, fdt, newer, rq, heap, made, audio,
          call, fsPort, net, lost, dups, flight>>

------------------------------------------------------------------------------
(* Messages.  The texts of a call in the order mod_oreka sends them.        *)

Invite(c, d, p) == [method |-> "INVITE", call |-> c, dir |-> d, port |-> p]
Bye(c, d) == [method |-> "BYE", call |-> c, dir |-> d, port |-> NoPort]

Message == [method : {"INVITE"}, call : Calls, dir : Dir, port : Ports]
             \cup [method : {"BYE"}, call : Calls, dir : Dir, port : {NoPort}]

SendRank(m) == (IF m.method = "INVITE" THEN 0 ELSE 2)
                 + (IF m.dir = "rx" THEN 0 ELSE 1)

------------------------------------------------------------------------------
(* Channels.                                                                *)

NoLeg == [sock |-> 0, port |-> NoPort, file |-> NULL]
NewChannel(c) == [callid |-> c, leg |-> [d \in Dir |-> NoLeg]]

Leg == [sock : Fd \cup {-1}, port : Ports \cup {NoPort}, file : Heap \cup {NULL}]
Channel == [callid : Calls, leg : [Dir -> Leg]]

SetLeg(ch, d, leg) == [callid |-> ch.callid, leg |-> [ch.leg EXCEPT ![d] = leg]]

FirstOf(S) == IF S = {} THEN 0 ELSE CHOOSE i \in S : \A j \in S : i <= j

\* mutant: the list is not searched
find_channel_by_callid_Never(c) == 0

find_channel_by_callid(c) ==
  FirstOf({i \in DOMAIN g_chanels : g_chanels[i].callid = c})

find_channel_by_sock(f) ==
  FirstOf({i \in DOMAIN g_chanels : \E d \in Dir : g_chanels[i].leg[d].sock = f})

\* mutant: index runs one too far
Erase_Next(s, i) == [j \in 1 .. (Len(s) - 1) |-> IF j <= i THEN s[j] ELSE s[j + 1]]

\* g_chanels.erase(g_chanels.begin() + index)
Erase(s, i) == [j \in 1 .. (Len(s) - 1) |-> IF j < i THEN s[j] ELSE s[j + 1]]

------------------------------------------------------------------------------
(* Descriptors.  A system call takes the lowest free one, or fails.         *)

FreeEntry == [kind |-> "free", port |-> NoPort]
FileEntry == [kind |-> "file", port |-> NoPort]
\* mutant: the socket is never bound
UdpEntry_Unbound(p) == [kind |-> "udp", port |-> NoPort]

UdpEntry(p) == [kind |-> "udp", port |-> IF p \in Unbindable THEN NoPort ELSE p]

FreeFds(t) == {f \in Fd : t[f].kind = "free"}
AllocFd(t) == IF FreeFds(t) = {} THEN -1 ELSE FirstOf(FreeFds(t))
Install(t, f, entry) == IF f = -1 THEN t ELSE [t EXCEPT ![f] = entry]

\* What buildsocket(p) returns when socket() gave it f: when bind() fails the
\* function returns -1 and the descriptor stays open.
buildsocket(f, p) == IF p \in Unbindable THEN -1 ELSE f

BoundAt(p) == {f \in Fd : fdt[f].kind = "udp" /\ fdt[f].port = p}
NewerThanBound(f, p) ==
  IF buildsocket(f, p) = -1 THEN newer ELSE newer \cup {<<f, g>> : g \in BoundAt(p)}

\* SO_REUSEADDR lets several sockets share a port; a datagram goes to the one
\* bound last.
IsReceiver(f, p) == f \in BoundAt(p) /\ \A g \in BoundAt(p) \ {f} : <<f, g>> \in newer

\* close() of every descriptor of S that is open
CloseFds(S) ==
  /\ fdt' = [f \in Fd |-> IF f \in S THEN FreeEntry ELSE fdt[f]]
  /\ newer' = {e \in newer : e[1] \notin S /\ e[2] \notin S}
  /\ rq' = [f \in Fd |-> IF f \in S THEN {} ELSE rq[f]]

\* fclose() and fwrite() on NULL fault; on a FILE already closed the outcome is
\* undefined, and in this build the process either aborts or goes on as if
\* nothing had been asked, unless malloc has since given the address to
\* another FILE, which is then the one that is closed or written.
IsOpen(file) == file \in Heap /\ heap[file] # NULL
MayReturn(file) == file # NULL
MayFault(file) == ~ IsOpen(file)
Cause(file) == IF file = NULL THEN "null" ELSE "closed"

------------------------------------------------------------------------------
Init ==
  /\ g_chanels = <<>>
  /\ up = TRUE
  /\ fault = "none"
  /\ main = [phase |-> "open", todo |-> StartupPorts, round |-> 0]
  /\ socks = [p \in StartupPorts |-> 0]
  /\ fdt = [f \in Fd |-> IF f = 0 THEN [kind |-> "std", port |-> NoPort] ELSE FreeEntry]
  /\ newer = {}
  /\ rq = [f \in Fd |-> {}]
  /\ heap = [a \in Heap |-> NULL]
  /\ made = {}
  /\ audio = [s \in Stream |-> {}]
  /\ call = [c \in Calls |-> "idle"]
  /\ fsPort = [s \in Stream |-> NoPort]
  /\ net = {}
  /\ lost = {}
  /\ dups = 0
  /\ flight = {}

------------------------------------------------------------------------------
(* mod_oreka and the network.                                               *)

PortsInUse == {fsPort[s] : s \in {t \in Stream : call[t[1]] = "up"}}

\* Nothing an earlier call sent towards port p is still on its way.
Quiet(p) ==
  \A s \in Stream : fsPort[s] = p =>
    s \notin flight /\ \A m \in net : m.call # s[1]

\* oreka_record starts: two ports, two INVITEs
StartCall(c) ==
  /\ call[c] = "idle"
  /\ \E p \in [Dir -> Ports \ PortsInUse] :
       /\ p["rx"] # p["tx"]
       /\ QuickReuse \/ \A d \in Dir : Quiet(p[d])
       /\ fsPort' = [s \in Stream |-> IF s[1] = c THEN p[s[2]] ELSE fsPort[s]]
       /\ net' = net \cup {Invite(c, d, p[d]) : d \in Dir}
  /\ call' = [call EXCEPT ![c] = "up"]
  /\ UNCHANGED <<server, starter, kernel, files, lost, dups, flight>>

\* the call ends: two BYEs
HangUp(c) ==
  /\ call[c] = "up"
  /\ call' = [call EXCEPT ![c] = "down"]
  /\ net' = net \cup {Bye(c, d) : d \in Dir}
  /\ UNCHANGED <<server, starter, kernel, files, fsPort, lost, dups, flight>>

SendRtp(s) ==
  /\ s[2] \in Voiced
  /\ call[s[1]] = "up"
  /\ flight' = flight \cup {s}
  /\ UNCHANGED <<server, starter, kernel, files, caller, network>>

\* The last packets of the stream have left the network.
EndFlight(s) ==
  /\ s \in flight
  /\ flight' = flight \ {s}
  /\ UNCHANGED <<server, starter, kernel, files, caller, network>>

Lose(m) ==
  /\ m \in net
  /\ Cardinality(lost) < MaxLoss
  /\ net' = net \ {m}
  /\ lost' = lost \cup {m}
  /\ UNCHANGED <<server, starter, kernel, files, caller, dups, flight>>

\* A packet reaches the host: the socket bound last to its port queues it.
ArriveRtp(s) ==
  /\ up
  /\ s \in flight
  /\ \E f \in Fd : IsReceiver(f, fsPort[s]) /\ rq' = [rq EXCEPT ![f] = @ \cup {s}]
  /\ UNCHANGED <<server, starter, fdt, newer, files, caller, network, flight>>

------------------------------------------------------------------------------
(* do_sip_message, in the epoll thread.                                     *)

\* The direction read from "BEGIN TX recording of <name>": RX is looked for
\* first, and in the whole header.
SubjectDir(m) == IF m.call \in RxNamed THEN "rx" ELSE m.dir

\* The next datagram on the SIP socket is m; the network may bring it again.
Receive(m) ==
  /\ up
  /\ m \in net
  /\ InOrder => \A n \in net : n.call = m.call => SendRank(m) <= SendRank(n)
  /\ \/ net' = net \ {m} /\ dups' = dups
     \/ dups < MaxDup /\ net' = net /\ dups' = dups + 1
  /\ UNCHANGED <<lost, flight, caller, starter>>

\* mutant: the assignments to one direction were copied to the other
WithLeg_Both(c, d, leg) ==
  LET i == find_channel_by_callid(c)
      ch == [callid |-> c, leg |-> [e \in Dir |-> leg]]
  IN  IF i = 0 THEN Append(g_chanels, ch) ELSE [g_chanels EXCEPT ![i] = ch]

\* mutant: the FILE pointer is not stored
WithLeg_NoFile(c, d, leg) ==
  LET i == find_channel_by_callid(c)
      l == [leg EXCEPT !.file = NULL]
  IN  IF i = 0 THEN Append(g_chanels, SetLeg(NewChannel(c), d, l))
      ELSE [g_chanels EXCEPT ![i] = SetLeg(g_chanels[i], d, l)]

\* The channel list once the direction's socket, port and FILE are replaced,
\* whatever they were.
WithLeg(c, d, leg) ==
  LET i == find_channel_by_callid(c)
  IN  IF i = 0 THEN Append(g_chanels, SetLeg(NewChannel(c), d, leg))
      ELSE [g_chanels EXCEPT ![i] = SetLeg(g_chanels[i], d, leg)]

\* update_invite_channel: buildsocket(port), then fopen("<callid>_<dir>.pcm", "wb")
update_invite_channel(m) ==
  LET d    == SubjectDir(m)
      s    == <<m.call, d>>
      sfd  == AllocFd(fdt)
      fdt1 == Install(fdt, sfd, UdpEntry(m.port))
      ffd  == AllocFd(fdt1)
  IN  /\ m.method = "INVITE"
      /\ Receive(m)
      /\ \E file \in IF ffd = -1 THEN {NULL} ELSE {a \in Heap : heap[a] = NULL} :
           /\ g_chanels' = WithLeg(m.call, d,
                [sock |-> buildsocket(sfd, m.port), port |-> m.port, file |-> file])
           /\ heap' = IF ffd = -1 THEN heap
                      ELSE [heap EXCEPT ![file] = [fd |-> ffd, stream |-> s]]
      /\ fdt' = Install(fdt1, ffd, FileEntry)
      /\ newer' = NewerThanBound(sfd, m.port)
      /\ made' = IF ffd = -1 THEN made ELSE made \cup {s}
      /\ audio' = IF ffd = -1 THEN audio ELSE [audio EXCEPT ![s] = {}]
      /\ UNCHANGED <<up, fault, rq>>

\* mutant: the channel leaves as soon as one descriptor is 0
Reset_Either(i, d) == Erase(g_chanels, i)

\* mutant: the descriptor is not set to 0
Reset_KeepsSock(i, d) ==
  [g_chanels EXCEPT ![i] =
     SetLeg(g_chanels[i], d, [g_chanels[i].leg[d] EXCEPT !.port = NoPort])]

\* The list after the BYE: the direction is reset (its FILE pointer is not) and
\* the channel leaves when both descriptors are 0.
Reset(i, d) ==
  LET leg == [sock |-> 0, port |-> NoPort, file |-> g_chanels[i].leg[d].file]
      chs == [g_chanels EXCEPT ![i] = SetLeg(g_chanels[i], d, leg)]
  IN  IF \A e \in Dir : chs[i].leg[e].sock = 0 THEN Erase(chs, i) ELSE chs

\* update_bye_channel for a channel of the list: close(sock), fclose(file)
update_bye_channel(m) ==
  LET i    == find_channel_by_callid(m.call)
      d    == SubjectDir(m)
      leg  == g_chanels[i].leg[d]
      open == IsOpen(leg.file)
  IN  /\ m.method = "BYE"
      /\ Receive(m)
      /\ i # 0
      /\ MayReturn(leg.file)
      /\ CloseFds({leg.sock} \cup IF open THEN {heap[leg.file].fd} ELSE {})
      /\ heap' = IF open THEN [heap EXCEPT ![leg.file] = NULL] ELSE heap
      /\ g_chanels' = Reset(i, d)
      /\ UNCHANGED <<up, fault, made, audio>>

\* ... and the same call when fclose brings the process down.
ByeFaults(m) ==
  LET i    == find_channel_by_callid(m.call)
      file == g_chanels[i].leg[SubjectDir(m)].file
  IN  /\ m.method = "BYE"
      /\ Receive(m)
      /\ i # 0
      /\ MayFault(file)
      /\ up' = FALSE
      /\ fault' = Cause(file)
      /\ UNCHANGED <<g_chanels, kernel, files>>

\* update_bye_channel returns false: no channel has this Call-ID.
ByeUnknown(m) ==
  /\ m.method = "BYE"
  /\ Receive(m)
  /\ find_channel_by_callid(m.call) = 0
  /\ UNCHANGED <<server, kernel, files>>

do_sip_message(m) ==
  \/ update_invite_channel(m)
  \/ update_bye_channel(m)
  \/ ByeFaults(m)
  \/ ByeUnknown(m)

------------------------------------------------------------------------------
(* do_rtp, in the epoll thread.                                             *)

\* read() of a datagram of stream s from socket f; others may be queued behind.
ReadRtp(f, s) ==
  /\ up
  /\ s \in rq[f]
  /\ \E rest \in {rq[f], rq[f] \ {s}} : rq' = [rq EXCEPT ![f] = rest]
  /\ UNCHANGED <<g_chanels, starter, fdt, newer, heap, made, caller, network, flight>>

\* mutant: the directions are taken for each other
FileFor_Swapped(f) ==
  LET leg == g_chanels[find_channel_by_sock(f)].leg
  IN  IF leg["tx"].sock = f THEN leg["rx"].file ELSE leg["tx"].file

\* The FILE a packet read from f goes to: the tx one when f is the tx socket of
\* the first channel that has f.
FileFor(f) ==
  LET leg == g_chanels[find_channel_by_sock(f)].leg
  IN  IF leg["tx"].sock = f THEN leg["tx"].file ELSE leg["rx"].file

RecordRtp(f, s) ==
  /\ find_channel_by_sock(f) # 0
  /\ ReadRtp(f, s)
  /\ IsOpen(FileFor(f))
  /\ audio' = [audio EXCEPT ![heap[FileFor(f)].stream] = @ \cup {s}]
  /\ UNCHANGED <<up, fault>>

\* fwrite on NULL or on a closed FILE
RtpFaults(f, s) ==
  /\ find_channel_by_sock(f) # 0
  /\ ReadRtp(f, s)
  /\ MayFault(FileFor(f))
  /\ up' = FALSE
  /\ fault' = Cause(FileFor(f))
  /\ audio' = audio

\* not 172 bytes, no channel with this socket, or a write lost in a closed FILE
IgnoreRtp(f, s) ==
  /\ ReadRtp(f, s)
  /\ UNCHANGED <<up, fault, audio>>

do_rtp(f, s) == RecordRtp(f, s) \/ RtpFaults(f, s) \/ IgnoreRtp(f, s)

------------------------------------------------------------------------------
(* main(), after it has started the epoll thread: Rounds times it opens a   *)
(* socket on every port of its block and closes them all, then it opens     *)
(* them once more and sleeps for ever.                                      *)

MainOpen(p) ==
  LET f == AllocFd(fdt)
  IN  /\ up
      /\ main.phase = "open"
      /\ p \in main.todo
      /\ main' = [main EXCEPT !.todo = @ \ {p}]
      /\ socks' = [socks EXCEPT ![p] = buildsocket(f, p)]
      /\ fdt' = Install(fdt, f, UdpEntry(p))
      /\ newer' = NewerThanBound(f, p)
      /\ UNCHANGED <<server, rq, files, caller, network, flight>>

MainClose(p) ==
  /\ up
  /\ main.phase = "close"
  /\ p \in main.todo
  /\ main' = [main EXCEPT !.todo = @ \ {p}]
  /\ CloseFds({socks[p]})
  /\ UNCHANGED <<server, socks, files, caller, network, flight>>

\* y < 1000
Again(y) == y < Rounds

AfterClose(m) == [phase |-> "open", todo |-> StartupPorts, round |-> m.round + 1]

\* the end of an inner loop
MainTurn ==
  /\ up
  /\ main.todo = {}
  /\ \/ /\ main.phase = "close"
        /\ main' = AfterClose(main)
     \/ /\ main.phase = "open" /\ Again(main.round)
        /\ main' = [main EXCEPT !.phase = "close", !.todo = StartupPorts]
     \/ /\ main.phase = "open" /\ ~ Again(main.round)
        /\ main' = [main EXCEPT !.phase = "sleep"]
  /\ UNCHANGED <<server, socks, kernel, files, caller, network, flight>>

------------------------------------------------------------------------------
Environment ==
  \/ \E c \in Calls : StartCall(c) \/ HangUp(c)
  \/ \E s \in Stream : SendRtp(s) \/ EndFlight(s) \/ ArriveRtp(s)
  \/ \E m \in net : Lose(m)

epoll_thread ==
  \/ \E m \in net : do_sip_message(m)
  \/ \E f \in Fd, s \in Stream : do_rtp(f, s)

main_thread == MainTurn \/ \E p \in StartupPorts : MainOpen(p) \/ MainClose(p)

Next == Environment \/ epoll_thread \/ main_thread

Spec == Init /\ [][Next]_vars

\* Polling is level-triggered and a ready descriptor goes back to the tail of
\* the ready list, so a SIP text that waits is read in the end; main() runs.
Fairness ==
  /\ \A m \in Message : WF_vars(m \in net /\ do_sip_message(m))
  /\ WF_vars(main_thread)

FairSpec == Spec /\ Fairness
------------------------------------------------------------------------------
(* Properties.  Each says under which network it is meant.                  *)

Chans == {g_chanels[i] : i \in DOMAIN g_chanels}
InList(c) == \E ch \in Chans : ch.callid = c

\* ports of the block whose socket main() has open, and the descriptors
MainPorts == IF main.phase = "close" THEN main.todo ELSE StartupPorts \ main.todo
MainFds == {socks[p] : p \in MainPorts}

ServerTypeOK ==
  /\ g_chanels \in Seq(Channel)
  /\ up \in BOOLEAN
  /\ fault \in {"none", "null", "closed"}
StarterTypeOK ==
  /\ main \in [phase : {"open", "close", "sleep"}, todo : SUBSET StartupPorts,
               round : 0 .. Rounds]
  /\ main.phase = "close" => main.round < Rounds
  /\ socks \in [StartupPorts -> Fd \cup {-1}]
KernelTypeOK ==
  /\ fdt \in [Fd -> [kind : {"free", "std", "udp", "file"}, port : Ports \cup {NoPort}]]
  /\ newer \in SUBSET (Fd \X Fd)
  /\ rq \in [Fd -> SUBSET Stream]
FilesTypeOK ==
  /\ heap \in [Heap -> File \cup {NULL}]
  /\ made \in SUBSET Stream
  /\ audio \in [Stream -> SUBSET Stream]
NetworkTypeOK ==
  /\ call \in [Calls -> {"idle", "up", "down"}]
  /\ fsPort \in [Stream -> Ports \cup {NoPort}]
  /\ net \in SUBSET Message
  /\ lost \in SUBSET Message
  /\ dups \in 0 .. MaxDup
  /\ flight \in SUBSET Stream

\* Every variable has values of its kind.
TypeOK == ServerTypeOK /\ StarterTypeOK /\ KernelTypeOK /\ FilesTypeOK /\ NetworkTypeOK

\* The list holds at most one channel of a call, also when messages are
\* duplicated, lost and reordered (find_channel_by_callid returns the first).
OneChannelPerCall ==
  \A i, j \in DOMAIN g_chanels : g_chanels[i].callid = g_chanels[j].callid => i = j

\* A socket of a direction is open, bound to the port of its INVITE, and held by
\* nobody else: neither another direction or channel, nor main().
SocketsOwned ==
  \A ch \in Chans, d \in Dir : ch.leg[d].sock > 0 =>
    /\ fdt[ch.leg[d].sock] = UdpEntry(ch.leg[d].port)
    /\ ch.leg[d].sock \notin MainFds
    /\ \A oc \in Chans, e \in Dir :
         oc.leg[e].sock = ch.leg[d].sock => oc.callid = ch.callid /\ e = d

\* Until its BYE the FILE of a direction is open and records that direction.
FilesOwned ==
  \A ch \in Chans, d \in Dir : ch.leg[d].sock # 0 /\ ch.leg[d].file # NULL =>
    /\ IsOpen(ch.leg[d].file)
    /\ heap[ch.leg[d].file].stream = <<ch.callid, d>>
    /\ fdt[heap[ch.leg[d].file].fd].kind = "file"

\* Without duplicates, whatever is lost, late or out of order, each direction
\* alone holds the socket and the FILE its INVITE opened until its BYE.
DescriptorOwnership == dups = 0 => SocketsOwned /\ FilesOwned

\* Without duplicates no descriptor is leaked but those whose bind() failed: each
\* other open one is the standard input, a socket of main(), or the socket or the
\* file of a direction still in the list.
NoDescriptorLeak ==
  dups = 0 => \A f \in Fd : fdt[f].kind # "free" =>
    \/ f = 0
    \/ fdt[f].kind = "udp" /\ fdt[f].port = NoPort
    \/ f \in MainFds
    \/ \E ch \in Chans, d \in Dir :
         /\ ch.leg[d].sock # 0
         /\ f = ch.leg[d].sock \/ (IsOpen(ch.leg[d].file) /\ f = heap[ch.leg[d].file].fd)

\* With messages delivered once and in order, and descriptors to spare, the
\* process never hands fclose or fwrite a FILE that is not open.
NeverFaults == up

\* Whatever is lost or reordered, if nothing is duplicated the FILE pointer that
\* brings the process down is NULL, that of a direction whose INVITE was not
\* handled or whose fopen failed; it is never one that was closed before
\* (channel.cpp:49 and 55 leave the pointer, and a later text may use it).
FaultsOnNullOnly == dups = 0 => up \/ fault = "null"

\* Once the messages of a call that has ended are all handled, nothing of it is
\* left: no channel, no open FILE.  A channel can outlive its call only through
\* a BYE that was lost.
NothingLeftBehind ==
  up => \A c \in Calls : call[c] = "down" /\ (\A m \in net : m.call # c) =>
          \/ \E d \in Dir : Bye(c, d) \in lost
          \/ ~ InList(c) /\ \A a \in Heap : heap[a] # NULL => heap[a].stream[1] # c

\* A datagram sent to the port of a call in progress whose INVITE was handled is
\* queued on the socket of that direction.
RtpReachesItsLeg ==
  \A ch \in Chans, d \in Dir : ch.leg[d].sock > 0 /\ call[ch.callid] = "up" =>
    IsReceiver(ch.leg[d].sock, fsPort[<<ch.callid, d>>])

\* A channel leaves the list only when both its BYE messages have been received
\* (channel.cpp:61).
RemovedAfterBothByes ==
  [][\A c \in Calls : InList(c) /\ ~ InList(c)' =>
       call[c] = "down" /\ \A d \in Dir : Bye(c, d) \notin net']_vars

\* A recording never loses a packet it took, and takes none once its direction
\* was closed: the server keeps the recorder's promise.
Promise == INSTANCE Recorder WITH
  Recording <- Stream,
  Sources <- [s \in Stream |-> {s}],
  phase <- [s \in Stream |->
              IF s \notin made THEN "none"
              ELSE IF \E a \in Heap : heap[a] # NULL /\ heap[a].stream = s THEN "open"
              ELSE "final"]

ImplementsRecorder == Promise!Spec

\* Every call that ends is forgotten: the epoll thread reaches its BYEs and its
\* channel leaves the list.
CallsDrain == \A c \in Calls : call[c] = "down" ~> ~ InList(c)

------------------------------------------------------------------------------
(* The inductive invariant behind DescriptorOwnership and FaultsOnNullOnly. *)

PendingInvite(c, d) == call[c] = "idle" \/ \E p \in Ports : Invite(c, d, p) \in net
PendingBye(c, d) == call[c] # "down" \/ Bye(c, d) \in net

\* a text in flight is one its call has sent
NetSent ==
  /\ \A c \in Calls, d \in Dir, p \in Ports :
       Invite(c, d, p) \in net => call[c] # "idle" /\ fsPort[<<c, d>>] = p
  /\ \A c \in Calls, d \in Dir : Bye(c, d) \in net => call[c] = "down"

\* a direction is untouched until its INVITE, and not closed until its BYE
LegsInStep ==
  \A ch \in Chans, d \in Dir :
    /\ PendingInvite(ch.callid, d) => ch.leg[d] = NoLeg
    /\ PendingBye(ch.callid, d) /\ ch.leg[d].sock = 0 => ch.leg[d].file = NULL

FilesDistinct ==
  \A x \in Heap : heap[x] # NULL =>
    /\ fdt[heap[x].fd].kind = "file"
    /\ \A y \in Heap : heap[y] # NULL /\ heap[y].fd = heap[x].fd => x = y

MainOwned ==
  \A p \in MainPorts : socks[p] # -1 =>
    /\ fdt[socks[p]] = UdpEntry(p)
    /\ \A q \in MainPorts : socks[q] = socks[p] => p = q

\* the standard input stays open, so 0 never stands for a socket
StdinOpen == fdt[0].kind = "std"

QueuesOnSockets == \A f \in Fd : rq[f] # {} => fdt[f].kind = "udp"

OwnedInv ==
  /\ TypeOK
  /\ OneChannelPerCall
  /\ NetSent
  /\ LegsInStep
  /\ SocketsOwned
  /\ FilesOwned
  /\ FilesDistinct
  /\ MainOwned
  /\ StdinOpen
  /\ QueuesOnSockets
  /\ up \/ fault = "null"
  /\ RxNamed = {}

\* Every variable has its type and no call two channels; and until a message is
\* delivered twice, when each Subject names its direction, sockets and files are
\* owned as the texts in flight say.
IInv == TypeOK /\ OneChannelPerCall /\ (dups = 0 /\ RxNamed = {} => OwnedInv)
==============================================================================
