---------------------------- MODULE MCSipGrammar ----------------------------
(* The inputs on which the grammar and the addresses are checked: texts made of
   the fragments of a kind, one fragment a step, up to a bounded number. *)
EXTENDS SipAddress, FiniteSets

CONSTANT MaxPieces       \* fragments in a text, by kind
VARIABLES kind, input, pieces, result
vars == <<kind, input, pieces, result>>

Kinds == {"host", "ipv6", "uri", "params", "contact", "via", "challenge", "cseq", "target", "request"}
Start ==
  [host |-> "", ipv6 |-> "", uri |-> "sip:", params |-> "sip:h", contact |-> "", via |-> "SIP/2.0/WS ",
   challenge |-> "Digest ", cseq |-> "1 ", target |-> "", request |-> "INVITE sip:"]
Fragments ==
  [host |-> {"a", "1", "25", "6", ".", "-"},
   ipv6 |-> {"a:", ":", "a", "1.1.1.1"},
   uri |-> {"u", "%40", "%25", "%ff", "@", "h", ":5", ";lr"},
   params |-> {";lr", "x", ";maddr=m", ";ttl=7", "%40", "?x=y"},
   contact |-> {"sip:h", "<sip:i>", "<sip:i?x=y>", "<sip:j;ttl=3>", "\"q\" ", ";expires=5", ",", "*"},
   via |-> {"a.b", "1.2.3.4", ".c", ":80", ";branch=z", ";rport", "=7", "x", ";maddr=m", ";ttl=1"},
   challenge |-> {"realm=\"r\"", "nonce=\"n\"", ",", "algorithm=md5", "-sess", "qop=\"auth\"", "qop=\"auth-int,x\"",
                 "qop=\"auth, x\"", "domain=\"a:b\"", "domain=\"a://u:p@@h:5 c\"", "stale=true", "x"},
   cseq |-> {"INVITE", "ACK", "BYE", "x", " ", "-"},
   target |-> {"sip:", "tel:", "+", "1", "-", "(2)", "u", "%25", "%ff", "@", "h"},
   request |-> {"h", "@", ":5", "%40", ";method=BYE", "?x=y", "/", " SIP/2.0"}]
Rule ==
  [host |-> host, ipv6 |-> IPv6address, uri |-> SIP_URI, params |-> SIP_URI, contact |-> Contact, via |-> Via,
   challenge |-> challenge, cseq |-> CSeq, target |-> SIP_URI,
   request |-> Request_Response]
Part == ("qop=" :> qop_options) @@ ("domain=" :> domain) @@ ("sip:" :> SIP_URI)
StartRule ==
  [host |-> "host", ipv6 |-> "IPv6address", uri |-> "SIP_URI", params |-> "SIP_URI", contact |-> "Contact", via |-> "Via",
   challenge |-> "WWW_Authenticate", cseq |-> "CSeq", target |-> "SIP_URI",
   request |-> "Request_Response"]
MCMaxPieces ==
  [host |-> 4, ipv6 |-> 8, uri |-> 4, params |-> 4, contact |-> 4, via |-> 3, challenge |-> 3, cseq |-> 4, target |-> 4,
   request |-> 4]

Outcome(k, text) ==
  IF k = "target" THEN normalizeTarget(text, "d") ELSE parse(text, Rule[k], StartRule[k])

Init ==
  /\ kind \in Kinds
  /\ input = Start[kind]
  /\ pieces = 0
  /\ result = Outcome(kind, input)
Extend ==
  /\ pieces < MaxPieces[kind]
  /\ (kind = "ipv6" /\ input # "") => CharAt(input, Len(input)) = ":"
  /\ \E f \in Fragments[kind] : input' = input \o f
  /\ pieces' = pieces + 1
  /\ result' = Outcome(kind, input')
  /\ UNCHANGED kind
Next == Extend
Spec == Init /\ [][Next]_vars

Accepted == result.result = "data"

HasAt(t, i) == i + Len(t) - 1 <= Len(input) /\ SubSeq(input, i, i + Len(t) - 1) = t
Has(t) == \E i \in 1..Len(input) : HasAt(t, i)
Cut(i, j) == SubSeq(input, i, j)

\* One type invariant: a parse ends with data, with -1 or with an exception.
TypeOK == kind \in Kinds /\ pieces \in 0..MaxPieces[kind] /\ result.result \in {"data", "-1", "throws"}

(* Ordered choice and greedy repetition lose no word of the grammar, read as a
   set of rules, but these: a name that only begins like a keyword the rule
   tries first (;lrx, ;rportx, ACKx, MD5-sess, a domain that begins with an IPv4
   address in a Via), a domain name written with its final dot, and a Request-URI
   of another form that begins with a SIP URI or whose authority is a name (a
   server, which may be empty, is tried first). *)
Keywords ==
  [host |-> {}, ipv6 |-> {}, uri |-> {";lr"}, params |-> {";lr", ";ttl=7", ";maddr=m"}, contact |-> {";expires=5"},
   via |-> {";rport", ";rport=7", "1.2.3.4", ";ttl=1"}, challenge |-> {"stale=true", "algorithm=md5"},
   cseq |-> {"INVITE", "ACK", "BYE"}, target |-> {}, request |-> {";method=BYE"}]
TokenChar == Chars(Letters \o Digits \o "-.*%=[]/:&+$")
Captured ==
  \E t \in Keywords[kind], i \in 1..Len(input) :
    HasAt(t, i) /\ i + Len(t) <= Len(input) /\ CharAt(input, i + Len(t)) \in TokenChar
FinalDot == \E i \in 1..Len(input) : CharAt(input, i) = "." /\ (i < Len(input) => CharAt(input, i + 1) \in {":", ";"})
Begins(text) == \E i \in 1..Len(input) : HasAt(text, i) /\ Ends(Part[text], input, i - 1) # {}
TriedFirst == kind = "request" /\ (Begins("sip:") \/ Has("sip://"))
NothingHidden ==
  (kind # "target" /\ result = Failed /\ ~Captured /\ ~FinalDot /\ ~TriedFirst) => ~Derives(Rule[kind], input)

(* What an abandoned alternative wrote into data shows in the result in three
   places only: the values read of a qop list that does not fit its rule, the
   parts of a URI in a domain list that does not fit, and in a request line the
   user and the password of what looked like the userinfo of a SIP URI and was
   not. Everything else is as if data were given back on failure too, except
   where the action of an abandoned alternative throws. *)
Misfit(text) ==
  \E i \in 1..Len(input) :
    HasAt(text, i) /\ ~Eval(Part[text], input, i - 1, NoData, [start |-> "", undo |-> TRUE]).ok
Leftover(data) ==
  CASE kind = "challenge" ->
         (IF Misfit("qop=") THEN {"qop"} ELSE {})
           \cup (IF Misfit("domain=") THEN UriParts \cup {"password"} ELSE {})
    [] kind = "request" ->
         (IF "uri" \in DOMAIN data THEN {} ELSE {"user", "password"})
           \cup (IF Has("@") THEN {} ELSE {"password"})
    [] OTHER -> {}
SameBut(left, clean) ==
  Accepted /\ clean.result = "data" /\ Drop(result.data, left) = Drop(clean.data, left)
AgreesWith(clean) == result = clean \/ SameBut(Leftover(result.data), clean)
OnlyTheMatchWrites ==
  kind = "target" \/ result = Thrown
    \/ AgreesWith(ParseWith(input, Rule[kind], [start |-> StartRule[kind], undo |-> TRUE]))

(* An exception leaves the parser only for an escape in a user that is not
   UTF-8 and for a Contact header that begins with a star. *)
ThrowsOnlyOn ==
  (result = Thrown) => Has("%ff") \/ (kind = "contact" /\ CharAt(input, 1) = "*")

(* An IPv6 address is accepted exactly when its groups fit: eight of them, or
   one to seven and one ::, the last two possibly as a dotted address. *)
Runs == Cardinality({i \in 1..Len(input) : CharAt(input, i) = "a" /\ (i = 1 \/ CharAt(input, i - 1) # "a")})
Dotted == Len(input) > 7 /\ HasAt("1.1.1.1", Len(input) - 6) /\ CharAt(input, Len(input) - 7) = ":"
Groups6 == Runs + (IF Dotted THEN 2 ELSE 0)
Gaps == {i \in 1..Len(input) : HasAt("::", i)}
GroupsFit ==
  /\ Has("1") => Dotted
  /\ HasAt(":", 1) => HasAt("::", 1)
  /\ HasAt(":", Len(input)) => HasAt("::", Len(input) - 1)
  /\ IF Gaps = {} THEN Groups6 = 8 ELSE Cardinality(Gaps) = 1 /\ Groups6 \in 1..7
IPv6GroupsFit == kind = "ipv6" => (Accepted <=> input # "" /\ GroupsFit)

(* The host of a parsed URI is the text between the last @ (or the scheme) and
   the port, the parameters or the headers - unless there is a maddr parameter,
   whose value the rule host writes over it. *)
AtSign == LastAt(input)
HostStart == IF AtSign = 0 THEN 5 ELSE AtSign + 1
HostEnd ==
  CHOOSE i \in HostStart - 1..Len(input) :
    /\ \A j \in HostStart..i : CharAt(input, j) \notin {":", ";", "?"}
    /\ i < Len(input) => CharAt(input, i + 1) \in {":", ";", "?"}
HostIsTheAuthority ==
  (kind \in {"uri", "params"} /\ Accepted /\ ~Has(";maddr=")) => result.data["data"].host = Cut(HostStart, HostEnd)

(* A contact of a list is the one its own text gives, unless an earlier one
   has URI headers, which stay in data and go to the URIs after it (a name
   that begins with a star is a contact anywhere but at the start). *)
Commas == {i \in 1..Len(input) : CharAt(input, i) = ","}
RECURSIVE SplitAt(_, _)
SplitAt(text, k) ==
  IF \E i \in 1..Len(text) : CharAt(text, i) = ","
  THEN LET i == CHOOSE j \in 1..Len(text) : CharAt(text, j) = "," /\ \A l \in 1..j - 1 : CharAt(text, l) # ","
       IN IF k = 1 THEN SubSeq(text, 1, i - 1) ELSE SplitAt(SubSeq(text, i + 1, Len(text)), k - 1)
  ELSE text
ContactsStandAlone ==
  (kind = "contact" /\ Accepted) =>
    LET contacts == result.data["data"]
    IN \A k \in DOMAIN contacts :
         \/ \E j \in 1..k - 1 : contacts[j].uri.headers # <<>>
         \/ CharAt(SplitAt(input, k), 1) = "*"
         \/ LET alone == parse(Trim(SplitAt(input, k)), Contact, "Contact")
            IN alone.result = "data" /\ alone.data["data"] = <<contacts[k]>>

(* The text of a parsed address is parsed to the same address, unless the
   decoded user holds an escape: escapeUser decodes it once more. A target,
   once normalized, stays as it is. *)
Stable(uri) == \A i \in 1..Len(uri.user) : CharAt(uri.user, i) # "%"
RoundTrip ==
  Accepted =>
    CASE kind \in {"uri", "params"} ->
           LET uri == result.data["data"] IN Stable(uri) => ParseUri(toString(uri)) = result
      [] kind = "target" ->
           LET uri == result.data["data"] IN Stable(uri) => normalizeTarget(toString(uri), "d") = result
      [] kind = "contact" ->
           \A k \in DOMAIN result.data["data"] :
             LET a == result.data["data"][k] IN ParseNameAddr(NameAddrText(a)).data["data"] = a
      [] OTHER -> TRUE
=============================================================================
