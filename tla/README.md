# Formal models of the VoIP-related-codes repository

TLA+ models of the programs of this repository that keep state, the TLC runs
that check them on small instances, and TLAPS proofs of their most important
properties for every instance. Paths below are relative to `src/`; `jssip.js` is
`FreeSWITCH/WebRTC/src/SimpleCenterWebRTC/static/script/jssip.js`.

    OrekaServer.tla        the record server behind mod_oreka, FreeSWITCH and the network around it
    OrekaProofs.tla        its type invariant and the shape of its list, proved
    OrekaOwnership.tla     who owns which descriptor, proved
    OrekaLeaks.tla         for whom each open descriptor is open, proved
    OrekaPromises.tla      what it does on a network that behaves, and its refinement of Recorder, proved
    SiprecServer.tla       simple_srs, the recording server behind mod_siprec
    SiprecProofs.tla       its safety and its refinement of Recorder, proved
    Recorder.tla           what a call recorder promises; both servers implement it
    SipText.tla            JsSIP: the vocabulary of its grammar (texts, expressions, data)
    SipRules.tla           JsSIP: rules for characters, tokens, URIs, the first line
    SipHeaders.tla         JsSIP: rules for the values of header fields
    SipGrammar.tla         JsSIP: what the generated parser does with a rule
    SipAddress.tla         JsSIP: URI, NameAddrHeader, normalizeTarget
    InviteTransaction.tla  what users of an INVITE transaction count on; the next and JsCall implement it
    JsTransactions.tla     JsSIP: the four transactions and the tables of the user agent
    JsTransactionsProofs.tla   their properties, proved
    JsTransport.tla        JsSIP: the transport and its WebSockets
    JsRegistrator.tla      JsSIP: the registrator, its requests, and a registrar
    JsUserAgent.tla        JsSIP: the user agent, composed of the two above
    JsUserAgentProofs.tla  its safety, proved
    JsSession.tla          JsSIP: a session up to its establishment, and its ends
    JsReoffer.tla          JsSIP: changes of an established session
    JsCall.tla             JsSIP: the session composed with application, browser, peer, connection
    JsCallProofs.tla       the safety of the session, proved
    MC*.tla, *.cfg         instances for TLC

`tlc -config <run>.cfg <MC module>` repeats a run, `tlapm <module>` a proof.
`PROJECT.json` lists the runs, the mutants that each property is tested with,
the hazards, and for each definition the lines of code it stands for.

## 1. Inventory of the system

### 1.1 Record server (`FreeSWITCH/Recording using mod_oreka/record server/src`)

FreeSWITCH's mod_oreka announces a recorded call with two INVITE texts, one for
each direction (`rx`, `tx`, named in the Subject header), each with the port the
RTP of that direction will go to; two BYE texts end it. All are UDP datagrams
that nobody answers, and nothing is ever sent again.

| file | state | operations |
|---|---|---|
| `channel.cpp` | `g_chanels`, a vector of CHANNEL: Call-ID and, for each direction, socket, port, FILE | `find_channel_by_callid`, `find_channel_by_sock`, `update_invite_channel`, `update_bye_channel` |
| `sip_parser.cpp` | none | `do_sip_message` takes method, Call-ID, direction and port out of a text and calls one of the updates |
| `epoll.cpp` | the sockets | `buildsocket`, `create_and_bind`, `epoll_thread` |
| `rtp.cpp` | none | `do_rtp` decodes a packet and appends it to the FILE of its direction |
| `main.cpp` | `socks[1000]` | starts the epoll thread, then opens and closes a socket on each of the ports 18000..18999 a thousand times, opens them once more and sleeps |

The epoll thread and `main()` share the process's descriptor table and the ports
and nothing else; all handlers run in the epoll thread.

*Hard behaviour.* Texts lost, late, duplicated or out of order, each of which
leaves a direction half made; descriptor numbers that are closed by one thread
and handed at once to the other; a socket that `main()` binds (SO_REUSEADDR) on
the port of a call; a port that is taken again by the next call; too few
descriptors (`main()` alone keeps 1000 of the usual 1024), a failing `bind()`;
`fclose` or `fwrite` on NULL or on a FILE that was closed.

*Correct means.* A direction alone owns the open socket and FILE its INVITE
opened, until its BYE; packets of a direction reach its recording and no other;
what a call opened is closed when it ends; the list has one channel per call; a
call that ends is forgotten; and the process survives what the network does, or
else is brought down only by the one thing the code leaves untested (a NULL FILE).

### 1.2 simple_srs (`FreeSWITCH/Recording using mod_siprec/src/simple_siprec`)

A SIPREC recording server. mod_siprec opens a recording session with an INVITE,
simple_srs answers with the ports it has bound, and a BYE ends it.

| file | state | operations |
|---|---|---|
| `main.cpp` | `g_siprec_queue`, mutex and condition variable | takes texts from the queue, `do_siprec_message` |
| `epoll.cpp` | `g_siprec_addr`, sockets | `epoll_thread`: a SIP text is queued and announced, RTP goes to `do_rtp` |
| `sip_util.cpp` | `g_call_factory.calls`, Call-ID to call object; in it `media_list` (socket, source ports, two FILEs) | INVITE: make the object, its sockets, answer, `start_recording`, insert; BYE: answer, `remove_call`, destructor; `to_pcm_thread` |
| `rtp.cpp` | the `src_port`s of a MediaInfo | `do_rtp`: tells the two parties apart by their source port, writes |

Three kinds of threads: the epoll thread writes recordings, the main thread
makes and deletes the calls, a detached thread for each ended call converts its
files with sox and removes the raw ones. Only the queue is under a mutex; the
map, the call objects, the FILEs and the sender's address are shared without.

*Hard behaviour.* The map is changed and calls are freed under the reader; the
reply address is overwritten before the reply; an INVITE sent again makes a
second object with the names of the first; the conversion of a call that ended
runs beside a call of the same name; the OK is sent before the call can be
found; descriptors are never given back; wake-ups between two threads.

*Correct means.* No wake-up is lost, every INVITE is answered (to the one who
asked), a call in the map is alive and its files keep their names, a recording
holds one party and loses nothing that it took, and a session that ends is
forgotten and converted.

### 1.3 mod_siprec.c (`FreeSWITCH/Recording using mod_siprec/src/modified_sip_rec.c`)

The FreeSWITCH side: `load_recording_server` reads chains of servers (primary
and fail-overs) into a hash, `siprec_app_function` starts a session,
`siprec_change_direction` finds a running one under a lock and pauses or resumes
it with a re-INVITE, load and shutdown make and free the hash. Hard: the lookup
key is made before the server name has its default, the session found under the
lock is used after it, only head entries of a chain are freed. Correct: pause and
resume act on the session that was started; everything that was allocated is freed.

### 1.4 Converters (`Audio-Video`)

`g711 to pcm` (mu-law and A-law to linear and back), `pcm to wav` (header and
copy), `audio mixing/pcm_mix.cpp` (two streams into one, the longer padded).
Pure functions over 16-bit samples. Hard: overflow at the loud end of the mixer
(line 72), sizes in the wav header, the two signs of zero. Correct: decode after
encode is within a quantisation step, a mix with silence is the identity, the
header names the size that is written.

### 1.5 Packet capture tools (`pcap`, `SIP Protocol`)

`basic_pcap_recording` follows the RTP of a capture and writes it to a file.
Hard: header lengths that vary (IP options, RTP extensions and CSRC entries).
`basic_pcap`, `pcap_sip_analyzing` and `osip_test` print what they parse.

### 1.6 WebRTC page (`FreeSWITCH/WebRTC/src/SimpleCenterWebRTC`)

`templates/index_webrtc.html` keeps a phone and a session (`g_WebRTCPhone`,
`g_session`) and calls JsSIP; `simplewebrtc_nologin.py` serves the page. The
library, `static/script/jssip.js`, is one file of 28427 lines and by far the
largest program of the repository. JavaScript runs one callback at a time, so
that a step is a turn of the event loop: a message, a timer, a settled promise, an
event of the WebSocket or a call of the application, with everything it calls.

| part (lines of `jssip.js`) | state | operations |
|---|---|---|
| Grammar (1233-16132) | `pos`, `data`, the shared record that the rules' actions write | `parse(input, startRule)`, a function for each rule |
| URI, NameAddrHeader, Utils (16558-16690, 24984-25776) | an address | text, parse, `normalizeTarget`, `escapeUser` |
| Transactions (22749-23573) | state and timers of a transaction; `ua._transactions` by type and branch | `send`, `receiveResponse`, `receiveRequest`, `onTransportError`, the timers B to M |
| Transport, WebSocketInterface (23575-23917, 25778-25946) | status, current socket, weights and failures, `close_requested`, recovery timer | `connect`, `disconnect`, `send`, `_onConnect`, `_onDisconnect`, `_reconnect` |
| Registrator, RequestSender (21227-21768) | `_registered`, `_registering`, `_cseq`, expiry timer; challenge flags of a request | `register`, `unregister`, `close`, `onTransportClosed`, `_receiveResponse` |
| UA (23919-24982) | `_status`, `_closeTimer`, `_dynConfiguration.register`, the tables of sessions, dialogs, transactions | `start`, `stop`, `register`, `unregister`, `receiveRequest`, `onTransportConnect`, `onTransportDisconnect` |
| RTCSession (17332-20633) | `_status`, `_dialog`, `_earlyDialogs`, `_timers`, `_connection`, `_rtcReady`, `_connectionPromiseQueue`, `_sessionTimers` | `connect`, `init_incoming`, `answer`, `terminate`, `hold`, `renegotiate`, `receiveRequest`, `_receiveInviteResponse`, session timers |
| Dialog, its RequestSender (502-907) | sequence numbers, `uac_pending_reply`, `uas_pending_reply` | `receiveRequest`, `sendRequest`, `_checkInDialogRequest`, retry of a 491 |
| Message, Options, Info, DTMF, REFER; Parser, SIPMessage, sanityCheck, Config | one request each; none | a request and its answer; texts |

They call each other downwards (the page calls UA, UA makes RTCSession, which
makes Dialog, which makes a request sender, which makes a transaction, which
sends by the transport) and report upwards by callbacks; a message comes in at
`UA.receiveRequest` or the parser and goes to its transaction, its dialog or its
session through the tables of the user agent.

*Hard behaviour.* A connection that is lost before anything is told of it: every
send in between fails on its own. Timers that were set for a state that is over,
or whose handle was overwritten. Requests and answers that cross: CANCEL and 2xx,
BYE and 2xx, re-INVITE from both ends, answers to REGISTER out of order. Forks,
each with provisional and final answers of their own, repeated. Promises of the
browser (media, descriptions) that settle after the session has changed, or never.
`stop()` that waits for what is under way, and a `start()` while it waits. Ordered
choice in a grammar whose actions write before the choice is made.

*Correct means.* A transaction tells its user one end and is found as long as it
lives; one WebSocket at a time, and a lost one is tried again; who believes to be
registered is, and registers again in time; an application is told what the other
end was told of a call, and of its end; the tables hold live sessions and dialogs
and nothing else; nothing waits for ever; the parser accepts the language of its
rules and returns the parts of the text it read.

### 1.7 The rest

`simple_regi_test.py` answers FreeSWITCH's directory queries from a constant,
`Tools and Tips` trains speech models, the other directories are documentation.
`tinyxml2` and the modules bundled at the end of `jssip.js` (sdp-transform, debug,
events) are third-party. None has behaviour of its own to model.

## 2. Plan

Order: what loses recordings first, then the telephone of the page from its
bottom up, each module one of the library's own.

1. `OrekaServer` with `Recorder` as its abstract specification -- done.
2. Its proofs -- done: `OrekaProofs` (type, shape of the list), `OrekaOwnership`,
   `OrekaLeaks`, `OrekaPromises` (each EXTENDS the one before).
3. `SiprecServer`, implementing the same `Recorder`; `SiprecProofs` -- done.
4. The grammar of JsSIP (`SipText`, `SipRules`, `SipHeaders`, `SipGrammar`), with a
   declarative reading of the same rules as its reference, and `SipAddress` -- done.
5. `JsTransactions` and `JsTransactionsProofs` -- done.
6. `JsTransport`, `JsRegistrator`, composed in `JsUserAgent`; `JsUserAgentProofs` -- done.
7. `JsSession`, `JsReoffer`, composed in `JsCall`; `JsCallProofs` -- done.
8. Which recordings stay intact when the network misbehaves (`RecordsUnlessMixed`,
   `RecordsUntilInviteAgain`), and `InviteTransaction`, which the transactions and the
   session both implement -- done.
9. Not begun: transfer (REFER, NOTIFY, Replaces) over `JsCall`; mod_siprec; the
   converters and the capture recorder (section 12 says why they come last).

Each model has a run for its safety and, where the code promises that something
happens, liveness, in the same run when the instance allows it.

## 3. OrekaServer

| state | code |
|---|---|
| `g_chanels` | the vector; a channel is `[callid, leg]`, a leg is socket, port and FILE of a direction |
| `up`, `fault` | the process has not died in `fclose`/`fwrite`; the FILE it died of: NULL or one closed before (history, for `FaultsOnNullOnly`) |
| `main`, `socks` | position of `main()` in its loops, and its array |
| `fdt`, `newer`, `rq` | descriptor table, which of two sockets on a port was bound later, packets waiting in a socket |
| `heap`, `made`, `audio` | open FILEs by address, recordings ever opened, what they hold |
| `call`, `fsPort`, `net`, `lost`, `dups`, `flight` | FreeSWITCH's calls and ports, texts in flight, lost and delivered again, RTP in flight |

Actions: `StartCall`, `HangUp`, `SendRtp`, `EndFlight`, `ArriveRtp`, `Lose` are
FreeSWITCH and the network; `update_invite_channel`, `update_bye_channel` (with
`ByeFaults` and `ByeUnknown` for its other ends), `RecordRtp`, `RtpFaults`,
`IgnoreRtp` are what one event of the epoll thread can do; `MainOpen`,
`MainClose`, `MainTurn` are `main()`. A handler is one step: it runs alone in its
thread, and what it shares with `main()`, the descriptor table, is changed by
calls that hand out or give back one number each and depend on no other state of
the handler. (At the limit of descriptors this leaves one outcome out: `socket()`
fails, `main()` closes a socket, and `fopen()` of the same handler succeeds.) The kernel hands out the lowest free descriptor, or none.

The FILE an address refers to matters because `update_bye_channel` does not reset
the FILE pointer: a stale one may have been given to another recording since.
`fclose` and `fwrite` on NULL kill the process; on a closed FILE they may or may
not, and on an address that was handed out again they act on the new FILE.

`TypeOK` is proved for every instance (10.1). Left out: host names, codecs and
sample values; a packet is the stream it belongs to; the batch of `epoll_wait` (a
step is one event; the kernel reports again what a batch has left, section 9).

| property | says | run |
|---|---|---|
| `DescriptorOwnership` | a direction alone holds its open socket and FILE, bound to its port, until its BYE | oreka_faulty |
| `FaultsOnNullOnly` | the FILE that kills the process is NULL, never one that was closed | oreka_faulty |
| `NoDescriptorLeak` | every open descriptor has an owner, but those whose `bind()` failed | oreka_starved |
| `OneChannelPerCall` | two channels never share a Call-ID | oreka_starved |
| `NeverFaults` | nothing faults when nothing is lost or late | oreka_reliable |
| `RtpReachesItsLeg` | a packet to a call's port reaches the socket of its direction | oreka_reliable |
| `NothingLeftBehind` | when its texts are handled nothing of an ended call is left, unless a BYE was lost | oreka_reliable |
| `RemovedAfterBothByes` | a channel leaves the list only after both BYEs (comment at `channel.cpp:61`) | oreka_reliable |
| `ImplementsRecorder` | the server implements `Recorder` | oreka_reliable |
| `CallsDrain` | a call that ends is forgotten | oreka_live |

`DescriptorOwnership`, `FaultsOnNullOnly` and `NoDescriptorLeak` speak of the time
until the network delivers a text twice: after that ownership really is lost (a
second INVITE replaces the socket and the FILE without closing them, a second BYE
closes descriptor 0 and a closed FILE). `RemovedAfterBothByes` holds only while no
text is lost: after a lost INVITE the other direction's BYE alone finds both
sockets 0 and removes the channel, against the comment.

`RxNamed` are the calls whose recorded name has the letters RX. `sip_parser` looks for
"RX" before "TX" in the whole Subject, name included, so that both texts of such a
call are taken for `rx` (section 11). One call of oreka_faulty has such a name: its two
properties hold all the same, since nobody holds what the second INVITE overwrites.
The other runs, and the theorems named in 10.1, suppose `RxNamed = {}`.

## 4. SiprecServer

| state | code |
|---|---|
| `g_siprec_addr`, `g_siprec_queue` | the globals of these names |
| `g_call_factory`, `objs` | the map, as the index of an object or 0; all objects ever made, with `alive` until their `delete` |
| `main` | position of the main thread, the text and the object it works on |
| `epoll` | position of the epoll thread: idle, about to notify, or with a packet, object and index it is going to write |
| `jobs` | what each conversion thread has yet to do |
| `bound`, `rq`, `raw`, `wav` | RTP sockets, packets waiting, the files |
| `session`, `net`, `answers`, `lost`, `retries` | FreeSWITCH's sessions, messages in flight, lost and sent again |

An INVITE is handled in three steps (`AcceptInvite`: object, sockets and OK;
`start_recording`; `Insert`), a BYE in three (`AnswerBye`; `Delete` or
`RemoveUnknown`; `Erase`), because the epoll thread runs between them, and a
packet in two (`TakeRtp` finds the medium and chooses the index, `WriteRtp` writes
to the FILE it found before). Data races become choices: a lookup during the
insertion or erasure may miss a call that is there, a lookup between `delete` and
`erase` may fault, a write to a FILE that was closed may fault or be lost. The
main thread holds the mutex from its test of the queue to its sleep or its pop, so
that is one step; the epoll thread announces a text after it has released the
mutex, so `RecvSip` and `Notify` are two.

Simplifications, with their reasons: the sockets are made and the OK sent in one
step, since until the call is in the map nobody can tell whether the sockets came
first; the two `fclose` of the destructor are one step with its `delete`, since
the pending write has the same outcomes after either; the ports of different
calls differ, since a socket takes the port that FreeSWITCH offered plus 1000; descriptors the
conversion holds for a moment are not counted; texts without recording XML and
methods other than INVITE and BYE change nothing.

| property | says | run |
|---|---|---|
| `NoLostWakeup` | the main thread sleeps on a non-empty queue only while a notify is due | siprec_core |
| `ImplementsRecorder` | each file settles on one party, keeps what it took through close and conversion | siprec_core |
| `NoFaultBeforeHangUp` | no repeated INVITE or early packet kills the process before a session is hung up | siprec_repeat |
| `RecordingsIntact` | a call in the map is alive, and no conversion removes its files | siprec_live |
| `NothingLeftBehind` | no session that ended leaves its call in the map, unless a message was lost | siprec_live |
| `InviteAnswered`, `CallsDrain` | INVITEs are answered, ended sessions forgotten and converted | siprec_live |

Conditions that are needed: `RecordingsIntact` that the requests of a session
arrive in order (a repeated INVITE overtaken by the BYE makes a new call whose
files the conversion of the old one removes); `ImplementsRecorder` that no INVITE
is repeated (`start_recording` truncates the files of the first) and that the RTP
is A-law. For mu-law `to_pcm_thread` asks sox for `-t au` (`sip_util.cpp:620`), a
format with a header the raw file does not have; sox fails, and the raw file is
removed all the same: with `Law = "ulaw"` TLC finds the recording gone.

## 5. The grammar and the addresses of JsSIP

PEG.js generated one function of some 85 lines for each rule of the grammar.
`SipRules` and `SipHeaders` hold one definition for each, whose right-hand side is
the expression the function recognises (read from the code: the order of its
alternatives, its loops and its action). `SipText` has a constructor for each
shape of generated code, `SipGrammar!Eval` gives it the meaning of that code: a
result is the position, the value and `data`. What a failed alternative consumed is
given back, what its actions wrote into `data` is not. `Ends` reads the same
expressions as a set of rules (any alternative, any number of repetitions) and is
the reference for what `parse` accepts. `SipAddress` adds the texts of URI and
NameAddrHeader, `escapeUser` and `normalizeTarget`.

The texts are made of the fragments of a kind (`MCSipGrammar!Fragments`: host
names, IPv6 addresses, URIs, their parameters, Contact, Via, challenges, CSeq,
dialled targets, request lines), one fragment a step, up to `MaxPieces` of them.

| property | says |
|---|---|
| `NothingHidden` | ordered choice loses no text of the rules' language, but a word that begins like a keyword tried before it, a final dot of a domain name, and a Request-URI of another form that begins like a SIP URI or names no server |
| `OnlyTheMatchWrites` | what abandoned alternatives wrote into `data` shows in the result in three places only, all named: `qop` and `domain` lists that do not fit their rules, the user and password of a request line that only looked like a SIP URI's |
| `ThrowsOnlyOn` | an exception leaves the parser only for a malformed escape and for a `Contact` that begins with a star |
| `IPv6GroupsFit` | exactly the addresses with the right number of groups are accepted |
| `HostIsTheAuthority` | the host of a URI is the text between the last `@` and the port, parameters or headers (but for `maddr`, below) |
| `ContactsStandAlone` | a contact of a list is what its own text gives (but after one with URI headers, below) |
| `RoundTrip` | the text of a parsed address parses to the same address (unless its user holds an escape after decoding) |

Each exception of the two is needed: without it TLC finds a text of the run that
breaks the property. The reference of `OnlyTheMatchWrites` is the same evaluation
with `undo`, which gives `data` back on failure; both results have to agree in every
other field.

Left out: positions and the texts of errors, well-formed UTF-8 escapes of several
bytes, three header names `headerize` spells in a way of its own.

## 6. The transactions of JsSIP

`JsTransactions`: `tx` is what each transaction remembers (type, state, the timers
that will fire, the last response, what its user was told, the final responses it
sent), `clients` and `servers` are the tables of `UA`, `wire` is the connection:
open, lost but not yet told (`closing`), down. An action is an entry of the code:
`NictSend`, `IctSend`; a response (`NictProvisional` ... `IctFailure`); a request that
makes or meets a server transaction (`NistNew`, `IstNew`, `IstAck`); a reply of its
user (`NistReply` ... `IstFailure`); `Timer` with a branch for each of B to M and the
interval; `onTransportDisconnect`, `onTransportConnect`. A send that fails is the
`onTransportError` of its type, within the same step.

A timer may fire at any time after it was set: the delays of RFC 3261 are left to
the order of events, which is more than the code can do and enough for what is
checked. `staleD` is a timer D whose handle was overwritten by the next one.

| property | says |
|---|---|
| `OneOutcome` | a client transaction tells its user one end; only an answer whose timer K has not run may be followed by a transport error |
| `TablesAreTrue` | the tables hold what lives and nothing else; a live server transaction misses only when its branch was used again |
| `AnswersAreOne` | final responses of one class; provisional ones repeated only before; no empty text to a repeated INVITE |
| `EndIsFinal` | an ended transaction stays ended and says nothing |
| `InvitesKeepTheirWord` | every INVITE transaction, of either end, implements `InviteTransaction` |
| `Drains` | all that waits for a timer ends |

`InviteTransaction` is what the user of an INVITE transaction counts on, without tables,
timers or messages: it begins once, as the client's or the server's; provisional
responses come before the final one; there is one final answer, which is not taken
back; it may end at any time, and then stays as it is. `side`, `phase` and `sent` are
read from the type, the state and `answers` of a record of `tx`; COMPLETED and
CONFIRMED are one phase. A lost connection ends several in one step (`End`).

## 7. Transport, registration and user agent of JsSIP

`JsTransport` and `JsRegistrator` give the two objects' state after a call or event as
operators; `JsUserAgent` composes them, since `UA`'s callbacks run within theirs.
`transport` has the status, the current socket, the `_ws` of each, the sockets that
failed, `close_requested` and the recovery timer; `refused` is the set of servers for
which the browser's constructor throws. `registrator` has `_registered`, `_registering`,
`_cseq`, the expiry timer and the REGISTER requests under way with the flags of their
request sender; `bound` is what the registrar holds. The user agent adds `_status`,
`_closeTimer` and `_dynConfiguration.register`.

Actions: the calls `start`, `stop`, `Register`, `Unregister`; the timers `CloseTimer`,
`RecoveryTimer`, `RegistrationTimer`, `RequestTimer` (F of the oldest request); `WsOpen`,
`WsClosing`, `WsClose`; `Answer` of the registrar, `Ringing` and `Receive` of a response.
Responses may arrive in any order. `busy` of `stop` stands for sessions and other
transactions, which are not in this module.

| property | says |
|---|---|
| `OneWebSocket` | one WebSocket at a time, the current one's; status and WebSocket agree; no recovery timer is left that could open a second |
| `StatusFollows` | ready exactly while connected and not stopped; stopped and closed means no connection, recovery or registration |
| `RegistrationIsTrue` | with nothing under way, registered means bound; a registered user agent has a timer or a request that will renew it; until a registration crosses another request |
| `RegistrationSettles` | a registration under way ends, or crossed another request |
| `ConnectionSettles` | a user agent that lost its connection makes a WebSocket that has yet to open or close, unless its constructor throws; a stopped user agent closes |

`register()` may be called at any time, also over an un-REGISTER that waits for its
answer: the code only tests `_registering` (21316). The field `crossed` of the
registrator (history) remembers that this was done, until the connection is lost, or
until it is done with nothing registered and nothing under way. Both requests then
share `_cseq`, and what the registrator believes of its registration may be false
(section 11): without the exception TLC finds both properties violated.
`Refused` is the one wait without end that `ConnectionSettles` excepts: the transport
is connecting to a server for which the constructor threw, and no event will come.

## 8. Sessions of JsSIP

`JsSession` has the establishment of a call and its ends, `JsReoffer` the changes of an
established one, `JsCall` the application and the connection, and the properties. The
record `session` is the RTCSession with what it owns elsewhere:

| field | code |
|---|---|
| `status`, `direction`, `dialog`, `early`, `is_canceled`, `is_confirmed`, `late_sdp` | `_status`, `_direction`, `_dialog`, `_earlyDialogs`, the flags of these names |
| `timers`, `session_timer` | `_timers` (ackTimer, expiresTimer, invite2xxTimer, userNoAnswerTimer), `_sessionTimers` by what it will do |
| `connection`, `chain`, `queue`, `stable`, `answering`, `rtc_broken` | the RTCPeerConnection; what `connect()` or `answer()` waits for; `_connectionPromiseQueue`; its signalling state; a 2xx's answer being set beside the queue; `_rtcReady` left false |
| `hangup` | `receiveRequest` replaced by the function in `terminate()` that sends the BYE |
| `tx`, `sessions`, `dialogs` | the INVITE transaction as the session sees it, and the entries in the tables of the user agent |
| `reinvite`, `method`, `offers`, `uac_pending`, `update` | the change the other end asks for, those this end asks for, the flag of the dialog, a refreshing UPDATE |
| `told`, `final`, `acks`, `bye`, `acked`, `accepted`, `forks`, `astray` | history, for the properties |

*Actions.* Outgoing: `connect`, `Media`, `LocalDescription` (which sends the INVITE),
`ReceiveProvisional`, `ReceiveAccepted`, `ReceiveRefused`, `Progress`, `RenewOffer`,
`RemoteAnswer`. Incoming: `init_incoming` with its refusals, `answer`,
`RemoteDescription`, `LocalDescription` (which sends the 200), `ReceiveCancel`,
`ReceiveAck`, `ReceiveBye`, `AnswerInAck`. Changes: `ReceiveReinvite`, `ReceiveUpdate`,
`ReceiveRefresh`, `SetOffer`, `MakeAnswer`, `MakeOffer`, `MakeNothing`; `renegotiate`
(and hold and unhold, which are the same), `LocalOffer`, `OfferAccepted`, `OfferRefused`,
`OfferCrossed` (491), `Reattempt`, `SetAnswer`; `SessionTimer`, `Refreshed`. Ends:
`Terminate`, the timers, `Lost`, `onTransportDisconnect`. Each promise settles or is
rejected; those of a closed RTCPeerConnection settle never, but for a local
description, whose ready function the application may call at any time.

The INVITE transaction is here the five states the session can tell apart; what
it does within is `JsTransactions`. Of its own accord it may still be over for want of
a transport, when a send or the interval that repeats a provisional response
(`ProvisionalTimer`) fails. That the five states are not a transaction of another kind
is `InviteKeepsItsWord`: both modules implement the same `InviteTransaction`.

| property | says |
|---|---|
| `ByeAfterAck` | the callee sends no BYE before it has the ACK of its 200 or has given it up (comment at `jssip.js:18117-18122`, RFC 3261 section 15); the caller only after a 2xx |
| `ToldTheTruth` | `accepted` exactly when a 200 was sent, never `failed` after one; no end untold; nothing told after it |
| `CallIsListed` | live sessions and their dialogs are in the tables, ended ones are not, no dialog without a session that holds it; the dialog's flag is only up while a request waits |
| `InviteKeepsItsWord` | the session takes its INVITE the way of `InviteTransaction`: no second answer, no answer after a CANCEL, a timer or a lost connection ended it |
| `WaitsEnd` | no wait for ever: for the user, the ACK, the BYE put off until the ACK, the answer to an INVITE |

`astray` marks the sessions that ended in `_acceptAndTerminate` or were revived by a
re-INVITE without SDP, for which `CallIsListed` and the last part of `ToldTheTruth` do
not hold (section 11); `forks` the dialogs of forked 2xx, which nobody removes.

Bounds and simplifications: the far ends an INVITE reaches and who refreshes the
session are chosen at the start; the media of a forked call is not changed; one
request of the other end is in the queue at a time; one answer in a provisional
response (`MaxEarlyAnswers`); a 2xx that failed a call that was over is not repeated;
`MaxOffers` changes by this end. Left out: transfer, INFO, DTMF, NOTIFY, mute, the
re-offer by UPDATE (`useUpdate`), a second session.

## 9. Runs

| run | instance | distinct states |
|---|---|---|
| oreka_reliable | 2 calls, 4 ports, in order, nothing lost, `tx` voiced | 10 thousand |
| oreka_faulty | 2 calls, 2 ports, any order, one text lost, `rx` voiced, descriptors for three directions and a half; the recorded name of one has the letters RX | 469 thousand |
| oreka_starved | 2 calls, 2 ports of which one cannot be bound, taken again at once; 4 free descriptors; one text twice | 603 thousand |
| oreka_live | 2 calls, `main()` with one port and one round, in order, fair | 4 thousand |
| siprec_core | 2 sessions, 1 line, 5 descriptors, one call voiced on both sides | 269 thousand |
| siprec_repeat | 1 session, one request repeated, one message lost, any order, voiced | 3.4 million |
| siprec_live | 1 session, two requests repeated, in order, nothing lost, fair | 4 thousand |
| sip_grammar | ten kinds of texts, 3 to 4 fragments (IPv6 addresses 8) | 39 thousand texts |
| js_transactions | 1 client and 2 server transactions, one branch (of a request with a To tag), fair | 62 thousand |
| js_user_agent | 2 servers of weights 2 and 1, of which the browser may refuse the lighter; 5 REGISTER; answers 2xx with and without our contact, 401, stale, 4xx; fair | 550 thousand |
| js_session | the caller, or a callee and one fork; one change of the media by this end; fair | 484 thousand |
| js_register_interval | as js_user_agent, 4 REGISTER and the answer 423 | a violation |

*Bounds of the recorders.* Two calls are the least with which a descriptor,
a port or a FILE address can pass from one call to another; a third would only
repeat what the second does. Each call runs once. `Ports`: with four, both calls
of the record server are up together; with two, the second call takes the ports
of the first. `NFd` is the limit of descriptors: in `OrekaServer` 9 (0 is the
standard input) are enough for two calls, in `SiprecServer` 6, without those the
process has from the start; less makes `socket()` and `fopen()` fail. `Heap` has as
many addresses as FILEs can be open under `NFd`, so that `fopen` is never held up
for want of one. `StartupPorts` and `Rounds` are the block and the repetitions of
`main()`, 1000 each in the code: one port and one round already close and reopen a
socket while calls come and go. `MaxLoss`, `MaxDup`, `MaxRetry` bound what the
network and FreeSWITCH's timers may do: one of each is enough to break every
handler's expectation, and with `InOrder = FALSE` a text that stays in flight is
as good as lost. In `siprec_live` one session is enough, since the calls of two
sessions share no file and no entry of the map; the queue of several texts that
two sessions make is in `siprec_core`. `Voiced` and `Talkers` say whose RTP there is;
a packet is only told apart by its stream, so one stream in flight stands for many.

*Bounds of JsSIP.* Transactions meet only in a branch: two on one branch are the
one case where they do, a client transaction shares nothing with them but the
connection. Of two servers one fails, both fail, or the heavier comes back; a
REGISTER, its repetition with credentials, a third for a stale nonce, and a next
one with its own need `MaxCSeq` 4; with 5 an answer to an older request is still
under way. In a call one fork makes a second dialog before and after the answer;
one change of the media by this end crosses those of the other, which are not
bounded in number. With `MaxOffers = 2` the three invariants hold as well (4.6
million states); the liveness then takes too long for a run. Fragments of texts
are chosen so that each alternative of the rules they concern is taken, and begun
and given up.

`SYMMETRY` is used for calls, FILE addresses, and ports where no port is singled
out, in runs without liveness (ports only where one call is named: oreka_faulty). `CHECK_DEADLOCK FALSE` where all may be over: when
every call has ended the servers, the transactions and the session wait for ever,
which is what they should do, and a text has its last fragment.

*Fairness.* `OrekaServer!Fairness`: weak fairness for reading each text that waits
and for `main()`. The kernel keeps a descriptor on the ready list while it has
data (the servers use level-triggered polling) and moves it to the tail when it
was reported, so a text is reached however many packets arrive; the early `break`
in the loop (`epoll.cpp:146`) delays but does not lose an event for the same
reason. `SiprecServer!Fairness`: weak fairness of each thread (the operating
system runs them), strong fairness of reading a text that waits, because packets
keep taking the epoll thread away from `idle`; answers that are not lost arrive and
FreeSWITCH's timers expire. Nothing is assumed of spurious wake-ups, and nothing
of callers: a session need never end.
In JsSIP weak fairness of timers only: the event loop runs a timer that is due and
was not cleared. In `JsTransactions` all of them; in `JsUserAgent` the close timer, the
recovery timer and timer F; in `JsCall` the no-answer timer, the ACK timer, the
timers of the INVITE transaction and timer L of a re-INVITE. Nothing is assumed of
the network, of the registrar, of the browser (a promise may never settle, a
WebSocket never open), of the other end or of the user.

## 10. Proofs

All by TLAPS, for every value of the constants that satisfies their assumption.

### 10.1 Record server

* `OrekaProofs!TypeCorrect`: `TypeOK`.
* `OrekaProofs!OneChannel`: `OneChannelPerCall`, whatever is lost, duplicated or
  reordered. The list changes in `WithLeg`, which appends only when
  `find_channel_by_callid` finds nothing, and in `Reset`, which takes one away;
  lemmas about both and about the search carry it.
* `OrekaOwnership!Invariant`, `Ownership`, `FaultsTraced`: `IInv`, and from it
  `DescriptorOwnership` and `FaultsOnNullOnly`. Ownership alone is not inductive. A
  BYE may only close what its direction owns, so one has to know that it was not
  handled before; an INVITE may only overwrite an untouched direction. So `IInv`
  adds, for the time until a duplicate: a text in flight is one its call has sent
  (`NetSent`); a direction is untouched until its INVITE is handled and not closed
  until its BYE is (`LegsInStep`); open FILEs have different open descriptors
  (`FilesDistinct`); `main()` holds the sockets of its block that it has open
  (`MainOwned`); descriptor 0 stays the standard input, so that 0 never names a
  socket (`StdinOpen`); packets wait only in sockets (`QueuesOnSockets`). `LegsInStep`
  is where a duplicate breaks the argument. The same holds for a name with RX: both
  texts of its call write the direction `rx`. `fault` is set in the step that brings the
  process down, so that `FaultsTraced` is about the one FILE that step used.
* `OrekaLeaks!NothingLeaked`: `NoDescriptorLeak`. The invariant reads the property from
  the side of the descriptor: each open one is the standard input, `main()`'s, a
  socket whose `bind()` failed, or held by a direction of the list (`NoLeak`). It needs
  all of `IInv`, since a handler that closed a descriptor of another direction would
  leave that direction's own open for nobody.
* `OrekaPromises` has what the server does when the network behaves. Its invariant
  (`Promises`) adds to the above, until a duplicate: an INVITE that has come has its
  direction in the list until the BYE, under the port FreeSWITCH sends to
  (`InviteSeen`, `LegsPlaced`); a channel has an open direction (`ChannelsInUse`); in order,
  a BYE that has come is behind all INVITEs and its direction stays closed
  (`InSequence`); two streams share a port only when nothing of one of them is left
  (`SharedPorts`). From it:
  * `NothingIsLeft`: `NothingLeftBehind`, if messages arrive in order and once.
  * `LeavesAfterBothByes`: `RemovedAfterBothByes`, if none is lost either.
  * `StaysUp`: `NeverFaults`, if moreover no port is taken again while something of its
    old call is on its way, every `bind()` succeeds and `NFd` leaves two descriptors for
    each port besides those of `main()` (`Room`). That a FILE is never NULL is a matter of
    counting: the open FILEs and sockets map one to one to the ports in use, and so
    `fopen()` always finds a free descriptor (`ImageBound` and the lemmas after it). The
    count is by ports because the number of calls is not bounded; oreka_reliable has
    exactly as many.
  * `ReachesItsLegOutsideBlock`: a packet to a port of a call in progress reaches the
    socket of its direction, in any order and whatever is lost, if nothing is
    duplicated, no port is taken again too soon, and `main()`'s block does not hold the
    port (for a port in the block the first entry of section 11 happens). It rests on
    `Receives`: the socket of a call in progress is the one bound last. `ReachesItsLeg`,
    that is `RtpReachesItsLeg`, is the case `StartupPorts = {}` of the run.
  * `RecordsUnlessMixed`: `ImplementsRecorder`, for every behaviour in which no text comes
    twice (`dups = 0`) and no packet is in flight to a port that the direction of another
    stream holds open (`PortsUnmixed`). Nothing is asked of the order and the loss of texts, of the
    number of descriptors or of `main()`. Of `RecordInv`: what waits on a socket was
    sent to its direction, a recording holds nothing else, none is opened before its
    INVITE. An INVITE is `Open`, `RecordRtp` is `Record`, a BYE is `Close`, all else
    stutters. Three settings in which that condition holds follow:
    * `RecordsOnOwnPorts`: every direction has a port of its own (`PortsDiffer`), nothing
      is duplicated: the server keeps the promise whatever is lost, late or out of order.
    * `RecordsWhileByesArrive`: ports are taken again, but not while something of the old
      call is on its way; texts in order and once; no BYE is lost (`ByesArrive`; an
      INVITE may be). A lost BYE leaves its direction open, under a port that the next
      call takes, and that call's packets go into the old recording.
    * `ServerRecords`: the settings of oreka_reliable, with nothing lost at all.

`Ownership`, `FaultsTraced`, `NothingLeaked` and all that is drawn from `Promises` suppose
`RxNamed = {}`. The other hypotheses are about UDP and the machine, not about the code, and section 3 says
what happens without them: the code repairs nothing that the network does.

### 10.2 simple_srs

* `NoWakeupIsLost`: `NoLostWakeup`, from an invariant with the types of the two
  threads' records; it rests on the wait being one step under the mutex and on
  every queued text having its notify ahead.
* `TypeCorrect`: `TypeOK`. Its invariant `TypeInv` (`TypesHold`) says beside the types what
  the threads rely on: an object they hold exists, an open FILE has its file, a text
  that is being handled has a sender.
* `NoEarlyFault`: `NoFaultBeforeHangUp`, with nothing assumed of the network: until a
  session is hung up no BYE exists, nothing is freed (`AllAlive`), and only what is
  freed can fault.
* `ByeComesLast`: with the requests of a session in order (`InOrder`), a BYE is behind
  every INVITE of its session in the network, the queue and the main thread, and
  once a call is being closed or is deleted there is no INVITE left to make it again.
  This is what the next two rest on:
  * `RecordingsStayIntact`: `RecordingsIntact`, for any number of repetitions and losses.
    Its invariant (`IntactAlways`) has to say which object a conversion and the map may
    name: of a call's objects one is dead at most (`OneDead`), it is out of the map but
    for the moment before `erase` (`OutOfMap`), conversions work on its closed FILEs
    (`JobsClosed`), and no file of the call loses its name before (`NamesKept`).
  * `EndedCallsAreGone`: `NothingLeftBehind`, by `HandledInv`: an answered BYE is one after
    which nothing can put the call into the map again.
* `OneObjectPerCall`: while no INVITE is sent again (`InviteOnce`, an action: a BYE may
  be), the INVITE of a call is in one place and the call has one object.
* `RecordsUntilInviteAgain`: `ImplementsRecorder`, with the same `InviteOnce` and A-law RTP:
  neither order nor delivery is needed, and a BYE may be repeated as often as one
  likes. `start_recording` is `Open`, `WriteRtp` is `Record`, `Delete` (with the
  `fclose` of the destructor) is `Close`; lookups, sox and the removal of the raw file
  stutter. The steps need `RecordInv`: the two sources of a call are two, a file holds
  packets of its own source, and that had told the law (`SourcesDiffer`, `HoldsOne`); the
  pending write of the epoll thread is one for the file it holds (`Writing`), even when the
  main thread learns, closes or deletes meanwhile; a conversion has closed FILEs
  and removes the raw file only when sox made the other from it (`JobsTrue`). Both
  hypotheses are needed: a repeated INVITE truncates a recording, sox fails for mu-law.
  `RecordingServerRecords` is the case of siprec_core, in which nothing is sent again.

### 10.3 JsSIP

* `JsTransactionsProofs!Typing`, `Outcome`, `Tables`, `Answers`, `Finality`: all the
  safety of `JsTransactions`, for any number of transactions and branches. The
  invariant `IInv` says of each record that it fits its type (`RecordInv`: which
  timers can be set in which state, what was told by then, which responses were
  sent), of each entry of the tables that it is under its own type and branch
  (`Entries`), and the two halves of `TablesAreTrue`. The first is needed because the
  timers H, I, J and K do not ask for the state: only the states in which they can
  be set keep them from ending a transaction twice. A lemma for each group of
  handlers says what it makes of a record (`BeginShape`, `ResponseShape`,
  `ReplyShape`, `AckShape`, the timers'), `After` that an ended one stays as it was;
  four lemmas about the tables then need no handler any more.
* `JsTransactionsProofs!InvitesKept`: `InvitesKeepTheirWord`, the refinement of
  `InviteTransaction`. A step of one transaction is one of its actions or a stutter, by
  the same lemmas about the handlers; the loss of the connection, which ends all that
  are listed, is one `End` of those that are INVITE transactions.
* `JsUserAgentProofs!ConnectionIsSound`, `StatusIsTrue`: `OneWebSocket` and `StatusFollows`,
  for any servers, weights, refusals and answers. `OneWebSocket` is inductive by
  itself; `StatusFollows` with it and two facts (`Follows`): there are requests under way
  only while connected, and nothing recovers before the start.
* `JsUserAgentProofs!RegistrationStaysTrue`: `RegistrationIsTrue`, unless the registrar
  answers 423, after which `register()` refuses to run and the property fails
  (section 11). What the registrator believes is only right because of what it will
  believe: a registration whose answer will count has no other request beside it
  (`CurrentIsAlone`), while registered there is at most the one that renews
  (`RenewalIsCurrent`), and if its answer is 2xx the registrar has the binding
  (`BeliefIsTrue`). It is `TimerIsQuiet`, no renewal timer beside a request, that keeps
  two registrations from overlapping. All this is claimed while the registration has
  not `crossed` another request; so each handler is shown to keep the mark or to
  leave a belief that is true again (`MarkStays`, `ReceiveMark`, `StartsAnew`).
* `JsCallProofs!ByeComesInTime`: the type of the session and `ByeAfterAck`, for any
  number of forks and changes. The invariant (`Agreed`) ties the flags of a session
  together: a callee that sent its 200 is out of `answer()` and its transaction takes
  no other answer; an established callee has sent it; `hangup` is a callee's; a caller
  with a dialog had a 2xx; an operation in the queue belongs to a change that was not
  sent, so that `uac_pending` is up only while one waits for its answer (`Tidy`).
* `JsCallProofs!ToldTheTruthAlways`, `CallIsListedAlways`: from the same and `Good`: a
  session that ended has its connection closed and no answer being set, so that no
  promise of the browser can tell the application anything more; a callee's is listed
  under the caller's early dialog until it answers; one that hangs up is over. Both
  properties except a session that went `astray`, as the runs do, and the
  invariant has to say what is still true of one (its final answer is 2xx).
  The lemmas are by operator, not by action (`_close`, `_failed`, `_ended`, `terminate`,
  the promises): what it keeps of the invariant, what it tells, what it leaves in the
  tables; each action is then a few of these.
* `JsCallProofs!InviteKept`: `InviteKeepsItsWord`, also by operator: one leaves the
  transaction alone, ends it, or rejects (`Follows`), operators in a row come to one
  move (`FollowsOn`), and a step to one move of `InviteTransaction` (`Advances`, or
  `Begins`). Beside the earlier invariant it needs that a caller who still waits for the
  browser has not sent the INVITE (`NotSent`). The answer that is sent when a promise
  settles is the delicate one: if a CANCEL, a timer or the user ended the call
  meanwhile, its transaction is no longer PROCEEDING and the reply is refused.

### 10.4 What is only model-checked

Liveness under fairness, which is out of the prover's reach: `CallsDrain` of both
servers, `InviteAnswered`, `Drains`, `RegistrationSettles`, `ConnectionSettles`, `WaitsEnd`.
The grammar: its evaluator and its reference are recursive over texts, so what they
give for every text cannot be proved here: its seven invariants stay with sip_grammar.
`AttemptsAgain` is violated. Every other property of the runs is a theorem, under the
hypotheses named above, and each of those is a setting of the run that checks the
property (oreka_faulty does without `RxNamed = {}`). `TypeOK` of the record server and of the transactions is the other way round:
it is proved for every instance and no run repeats it.

## 11. Where code and documents disagree

One has a run. `js_register_interval`: "Attempt the registration again
immediately." (`jssip.js:21440`). On 423 `register()` is called while `_registering` is
still true and returns at once; no REGISTER follows, and every later `register()`
is refused until the connection is lost.

The others were met while modelling; the models take the steps of the code, and
the properties of sections 3 to 8 name them as exceptions where they concern them.

*Record server and simple_srs.*

* "Record server can receive rtp dynamically using this value" (mod_oreka
  `README.md:206`). While `main()` still opens its block, a socket that it binds
  after the INVITE on the announced port takes the packets of the call.
* "it sends an OK response" (mod_siprec `README.md:377`). With two FreeSWITCH servers
  (`Addr <- TwoAddr`) the OK can go to the other: `g_siprec_addr` is that of the last
  text received.
* "rx and tx are stored in independent wav files" (`:427`), for an INVITE with two
  `m=` lines (`:81`, `:83`; `Lines = 2`). `find_mediainfo` gives the first medium to any
  socket of the call and overwrites its socket number.
* "sends OK and cleans up resources" (`:381`). RTP sockets are never closed; when
  they have used up the limit, a call that is alone cannot open its recordings.
* A recorded name with the letters RX: `sip_parser.cpp:48` finds them before the TX of
  the direction, and both texts of the call write the direction `rx` (`RxNamed`). The
  second INVITE overwrites socket and FILE of the first, which stay open for ever; what
  comes to the port of the first is read and dropped.
* The repeated INVITE that truncates a recording, the mu-law conversion, the
  single BYE that removes a channel (sections 3 and 4), and the option `-p` that is
  documented (`main.cpp:131` of the record server) and missing from the option
  string (`main.cpp:58`).

*Grammar.* A word is taken for the keyword it begins with, and the rest fails:
`;lrx`, `;rportx`, `;ttl=1x`, `;expires=5x`, `stale=truex`, `algorithm=md5-sess`, `1 ACKx`,
a Via host `1.2.3.4.c`. `Contact: *` throws a TypeError instead of returning. `%ff`
in a user throws URIError, also when the alternative would have been given up.
`maddr` overwrites the host of the URI; a `;ttl=` of a URI goes to the parameters of
the header; URI headers of one contact stay for the next; the package of Event
`presence.winfo` becomes `presence.,winfo`; a user keeps its `:password`; a decoded
user with an escape is decoded again by `escapeUser`. A `;method=BYE` of a Request-URI is
read by the rule that reads the method and takes its place in `data`: parseMessage
(17038) makes the request a BYE. A `qop` list that does not fit (`qop="auth, auth-int"`: a
blank) is then taken by `auth_param`, but the values read of it stay in `data.qop`;
a `domain` list likewise leaves the scheme, host and user of a URI. A Request-URI
without a host (`sip:u@`) is accepted as an absolute URI and leaves its user; one
with a port and no user (`sip:h:5060`) leaves the port as a password. In an absolute
URI a server, which may be empty, is tried before a name, which is never read.

*Transactions.* A non-INVITE request that was answered 100 and arrives again is
sent an empty text. The ACK of a rejected INVITE leaves timer H running, which
removes whatever has the branch 32 seconds later. The comment at 23463-23472 says
that the ACK of a response other than 2xx is absorbed; the code lets a repeated
one (state CONFIRMED) through. sanityCheck drops
the retransmission of an initial request (a TODO says so).

*Registration.* `register()` over an un-REGISTER that waits is not refused: if the
older request is then challenged, it adds one to `_cseq`, the answer to the REGISTER
counts as old, `_registering` stays true and every later `register()` is refused until
the connection is lost (`crossed`). When two requests overlap and both are challenged, each adds one to
`_cseq`, and the answer to the last counts as old. A 2xx without our contact is
logged as ignored, yet the timer is cleared. Timer F of an old request fails a
newer registration. `stop()` during the first REGISTER leaves the binding. The
constructor of RequestSender tests `!== BYE || !== ACK`, which is always true: it
reports an error and the request is sent. A WebSocket constructor that throws
leaves the transport connecting for ever.

*Sessions.*

* CANCEL and 2xx: "Proceed to cancellation if the user requested." (19731), but
  `terminate()` after a provisional response (18075-18080) sends the CANCEL without
  setting `_is_canceled`: a 2xx that crosses it is dropped (19744), with neither ACK
  nor BYE, and the other end stays in a call nobody has.
* The dialog of a forked 2xx stays in `ua._dialogs`, its ACK and BYE are sent in the
  session's own dialog, and a BYE for it ends the session.
* `_acceptAndTerminate` sets TERMINATED first, so that `_close` returns early: dialog,
  entry of the session and RTCPeerConnection stay; `failed` may be told twice.
* `terminate()` between a 2xx and its answer being set sends the BYE before any ACK.
  `terminate()` while waiting for an ACK sends it with the ACK and again when the
  transaction ends, and answers no BYE of the other end meanwhile.
* A re-INVITE without SDP whose offer comes after the end revives the session
  (WAITING_FOR_ACK without a dialog).
* `_checkInDialogRequest` answers 491 and passes the request on all the same. After a
  refusal of an offer what follows a success still runs. A re-INVITE interrupted by a
  BYE is never answered.
* `Dialog.isTerminated` reads a field nobody sets: a re-INVITE is tried again after
  the dialog has ended. `renegotiate()` twice behind a blocked queue makes two
  re-INVITEs that overlap, and the answer to the first lowers the flag.
* The refresher of a session that is not ready for a new offer sets no timer again;
  nothing follows a refused UPDATE.
* `answer()` stops the no-answer timer before it asks for the media, and nothing
  limits that wait; a local description that fails is answered 500 and the session
  stays ANSWERED; `createOffer` or `createAnswer` that fail leave `_rtcReady` false.

## 12. Not modelled

* Of `jssip.js`: transfer and NOTIFY, INFO, DTMF, MESSAGE, OPTIONS (one request and
  its answer each, on transactions that are modelled); the digest and the headers
  of messages; `Parser` (it splits a text, the values go to the grammar);
  configuration; the bundled libraries.
* mod_siprec is seen from simple_srs only. Its three hazards are in how a pool and a
  hash of FreeSWITCH are used, and need a model of that library more than of the
  module: the key made before its default (`mod_siprec.c:218`), a recording used
  after the lock (`:241`), the pools freed at shutdown (`:396`).
* The converters and the mixer are arithmetic on samples (`pcm_mix.cpp:72` overflows
  when both are loud); the capture recorder is offsets in a frame
  (`basic_pcap_recording.cpp:152`, `:178`). Neither keeps state.
* Command lines, logging, and the bytes of a datagram: buffer ends (`epoll.cpp:163` of
  the record server, a packet shorter than its header at `rtp.cpp:36` of simple_srs)
  are beyond models that have no bytes.
* The page calls JsSIP and keeps one session; the Flask server, the directory script
  and the training scripts have no behaviour of their own.
