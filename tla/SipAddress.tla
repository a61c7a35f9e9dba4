----------------------------- MODULE SipAddress -----------------------------
(* The address values of JsSIP built on its grammar: class URI and class
   NameAddrHeader (their texts, and the parse of a text), escapeUser and
   normalizeTarget of Utils. An address is the record the actions of SipGrammar
   build; a parameter without a value has the value Undefined. *)
EXTENDS SipGrammar
LOCAL INSTANCE SequencesExt

JoinAll(texts) == FoldLeft(LAMBDA t, x : t \o texts[x], "", SetToSeq(DOMAIN texts))

(* encodeURIComponent of a text of the inputs. *)
HexDigit(n) == CharAt("0123456789ABCDEF", n + 1)
Kept == Chars(Letters \o Digits \o "-_.!~*'()")
Encode(s) ==
  Join([i \in 1..Len(s) |->
    LET c == CharAt(s, i)
    IN IF c \in Kept THEN c ELSE "%" \o HexDigit(Code[c] \div 16) \o HexDigit(Code[c] % 16)])

(* escapeUser: decode, encode, and take the escapes of : + ? / back. The decode
   throws on an escape that is not valid. *)
EncodeUser_keepsAt(s) ==
  Join([i \in 1..Len(s) |-> IF CharAt(s, i) \in {":", "+", "?", "/", "@"} THEN CharAt(s, i) ELSE Encode(CharAt(s, i))])
EncodeUser(s) ==
  Join([i \in 1..Len(s) |-> IF CharAt(s, i) \in {":", "+", "?", "/"} THEN CharAt(s, i) ELSE Encode(CharAt(s, i))])
escapeUser(user_) == IF Decode(user_) = Malformed THEN Malformed ELSE EncodeUser(Decode(user_))

ParamsText(ps) ==
  JoinAll([p \in DOMAIN ps |-> ";" \o p \o (IF ps[p] = Undefined THEN "" ELSE "=" \o ps[p])])
HeadersText(hs) ==
  LET items == JoinAll([h \in DOMAIN hs |-> Join([k \in 1..Len(hs[h]) |-> "&" \o h \o "=" \o hs[h][k]])])
  IN IF Len(items) = 0 THEN "" ELSE "?" \o Tail(items)
PortText(p) == IF p = NotANumber THEN "" ELSE ":" \o ToString(p)
UserText(user_) == IF Len(user_) = 0 THEN "" ELSE escapeUser(user_) \o "@"

toString(uri) ==
  uri.scheme \o ":" \o UserText(uri.user) \o uri.host \o PortText(uri.port)
  \o ParamsText(uri.params) \o HeadersText(uri.headers)
toAor(uri) == uri.scheme \o ":" \o UserText(uri.user) \o uri.host
\* toString throws when the user does not decode.
HasText(uri) == escapeUser(uri.user) # Malformed

Quote(s) == Join([i \in 1..Len(s) |-> IF CharAt(s, i) \in {"\\", "\""} THEN "\\" \o CharAt(s, i) ELSE CharAt(s, i)])
NameAddrText(a) ==
  (IF Len(a.display_name) = 0 THEN "" ELSE "\"" \o Quote(a.display_name) \o "\" ")
  \o "<" \o toString(a.uri) \o ">" \o ParamsText(a.params)

ParseUri(s) == parse(s, SIP_URI, "SIP_URI")
ParseNameAddr(s) == parse(s, Name_Addr_Header, "Name_Addr_Header")

(* normalizeTarget of a text: the part after the last @ is the domain, a scheme
   and the visual separators of a telephone number go, the rest is escaped. *)
LastAt(s) == CHOOSE i \in 0..Len(s) : (i = 0 \/ CharAt(s, i) = "@") /\ \A j \in i + 1..Len(s) : CharAt(s, j) # "@"
StartsWith(s, t) == Len(s) >= Len(t) /\ LowerText(SubSeq(s, 1, Len(t))) = t
NoScheme(s) ==
  IF StartsWith(s, "sip:") \/ StartsWith(s, "tel:") THEN SubSeq(s, 5, Len(s))
  ELSE IF StartsWith(s, "sips:") THEN SubSeq(s, 6, Len(s)) ELSE s
Separators == {"-", ".", "(", ")"}
IsTelephone(s) ==
  /\ s # ""
  /\ \E k \in 0..Len(s) :                     \* separators, at most one +, digits and separators
       /\ k < Len(s)
       /\ \A i \in 1..k : CharAt(s, i) \in Separators \/ (i = k /\ CharAt(s, i) = "+")
       /\ \A i \in k + 1..Len(s) : CharAt(s, i) \in Separators \cup Chars(Digits)
Clean(s) ==
  IF IsTelephone(s) THEN Join([i \in 1..Len(s) |-> IF CharAt(s, i) \in Separators THEN "" ELSE CharAt(s, i)]) ELSE s
normalizeTarget(target, domain_) ==
  LET at == LastAt(target)
      user_ == Clean(NoScheme(IF at = 0 THEN target ELSE SubSeq(target, 1, at - 1)))
      host_ == IF at = 0 THEN domain_ ELSE SubSeq(target, at + 1, Len(target))
  IN IF target = "" \/ (at = 0 /\ host_ = "") THEN Failed
     ELSE IF escapeUser(user_) = Malformed THEN Thrown
     ELSE ParseUri("sip:" \o escapeUser(user_) \o "@" \o host_)
=============================================================================
