------------------------------ MODULE SipRules -------------------------------
(* The rules of the grammar of JsSIP for characters, tokens, URIs and the first
   line of a message, each under the name of the function that PEG.js generated
   for it and after the rules it uses. *)
EXTENDS SipText

CRLF == L("\r\n")
DIGIT == C(Chars(Digits))
ALPHA == C(Chars(Letters))
HEXDIG == C(Chars(Digits \o "abcdefABCDEF"))
SP == L(" ")
HTAB == L("\t")
WSP == Alt(<<SP, HTAB>>)
OCTET == C(AnyChar)
DQUOTE == C({"\""})
alphanum == C(Chars(Letters \o Digits))
reserved == C(Chars(";/?:@&=+$,"))
mark == C(Chars("-_.!~*'()"))
unreserved == Alt(<<alphanum, mark>>)
escaped == Text(Sq(<<L("%"), HEXDIG, HEXDIG>>))
LWS == As(" ", Sq(<<Opt(Sq(<<Star(WSP), CRLF>>)), Plus(WSP)>>))
SWS == Opt(LWS)
HCOLON == As(":", Sq(<<Star(Alt(<<SP, HTAB>>)), L(":"), SWS>>))
UTF8_NONASCII == C(NonAscii)
TEXT_UTF8char == Alt(<<C(Between("!", "~")), UTF8_NONASCII>>)
TEXT_UTF8_TRIM == Text(Sq(<<Plus(TEXT_UTF8char), Star(Sq(<<Star(LWS), TEXT_UTF8char>>))>>))
UTF8_CONT == C(NonAscii)
LHEX == Alt(<<DIGIT, C(Chars("abcdef"))>>)
token == Text(Plus(Alt(<<alphanum, C(Chars("-.!%*_+'~"))>>)))
token_nodot == Text(Plus(Alt(<<alphanum, C(Chars("-!%*_+'~"))>>)))
separators == Alt(<<C(Chars("()<>@,;:\\")), DQUOTE, C(Chars("/[]?={}")), SP, HTAB>>)
word == Text(Plus(Alt(<<alphanum, C(Chars("-.!%*_+'~()<>:\\")), DQUOTE, C(Chars("/[]?{}"))>>)))
STAR == As("*", Sq(<<SWS, L("*"), SWS>>))
SLASH == As("/", Sq(<<SWS, L("/"), SWS>>))
EQUAL == As("=", Sq(<<SWS, L("="), SWS>>))
LPAREN == As("(", Sq(<<SWS, L("("), SWS>>))
RPAREN == As(")", Sq(<<SWS, L(")"), SWS>>))
RAQUOT == As(">", Sq(<<L(">"), SWS>>))
LAQUOT == As("<", Sq(<<SWS, L("<")>>))
COMMA == As(",", Sq(<<SWS, L(","), SWS>>))
SEMI == As(";", Sq(<<SWS, L(";"), SWS>>))
COLON == As(":", Sq(<<SWS, L(":"), SWS>>))
LDQUOT == As("\"", Sq(<<SWS, DQUOTE>>))
RDQUOT == As("\"", Sq(<<DQUOTE, SWS>>))
ctext == Alt(<<C(Between("!", "'")), C(Between("*", "[")), C(Between("]", "~")), UTF8_NONASCII,
  LWS>>)
quoted_pair == Sq(<<L("\\"), Alt(<<C(AnyChar \ {"\r", "\n"}), C(AnyChar \ {"\r", "\n"}),
  C(AnyChar \ {"\r", "\n"})>>)>>)
comment == Sq(<<LPAREN, Star(Alt(<<ctext, quoted_pair, Comment>>)), RPAREN>>)
qdtext == Alt(<<LWS, L("!"), C(Between("#", "[")), C(Between("]", "~")), UTF8_NONASCII>>)
quoted_string == Text(Sq(<<SWS, DQUOTE, Star(Alt(<<qdtext, quoted_pair>>)), DQUOTE>>))
quoted_string_clean == Unquoted(Sq(<<SWS, DQUOTE, Star(Alt(<<qdtext, quoted_pair>>)), DQUOTE>>))
uri_scheme_sips == Save("scheme", Lower(I("sips")))
uri_scheme_sip == Save("scheme", Lower(I("sip")))
uri_scheme == Alt(<<uri_scheme_sips, uri_scheme_sip>>)
user_unreserved_at == C(Chars("&=+$,;?/@"))
user_unreserved == C(Chars("&=+$,;?/"))
user == Plus(Alt(<<unreserved, escaped, user_unreserved>>))
password == Save("password", Text(Star(Alt(<<unreserved, escaped, C(Chars("&=+$,"))>>))))
userinfo_savedFirst == Sq(<<Save("user", Text(user)), Opt(Sq(<<L(":"), password>>)), L("@")>>)
userinfo == Do("userinfo", Sq(<<user, Opt(Sq(<<L(":"), password>>)), L("@")>>))
domainlabel == Sq(<<alphanum, Star(Alt(<<alphanum, C(Chars("-_"))>>))>>)
toplabel == Sq(<<ALPHA, Star(Alt(<<alphanum, C(Chars("-_"))>>))>>)
hostname == Note("host_type", "domain", Text(Sq(<<Star(Sq(<<domainlabel, L(".")>>)), toplabel,
  Opt(L("."))>>)))
h16 == Sq(<<HEXDIG, Opt(HEXDIG), Opt(HEXDIG), Opt(HEXDIG)>>)
dec_octet == Alt(<<Sq(<<L("25"), C(Between("0", "5"))>>), Sq(<<L("2"), C(Between("0", "4")),
  DIGIT>>), Sq(<<L("1"), DIGIT, DIGIT>>), Sq(<<C(Between("1", "9")), DIGIT>>), DIGIT>>)
IPv4address == Note("host_type", "IPv4", Text(Sq(<<dec_octet, L("."), dec_octet, L("."), dec_octet,
  L("."), dec_octet>>)))
ls32 == Alt(<<Sq(<<h16, L(":"), h16>>), IPv4address>>)
\* n times h16 ":", and h16 followed by up to n times ":" h16.
Groups(n) == [k \in 1..2 * n |-> IF k % 2 = 1 THEN h16 ELSE L(":")]
Heads_short(n) == <<h16>> \o [k \in 1..n - 1 |-> Opt(Sq(<<L(":"), h16>>))]
Heads(n) == <<h16>> \o [k \in 1..n |-> Opt(Sq(<<L(":"), h16>>))]
IPv6address == Note("host_type", "IPv6", Text(Alt(
  <<Sq(Groups(6) \o <<ls32>>)>>
  \o [k \in 1..6 |-> Sq(<<L("::")>> \o Groups(6 - k) \o <<ls32>>)]
  \o <<Sq(<<L("::"), h16>>)>>
  \o [k \in 1..5 |-> Sq(Heads(k - 1) \o <<L("::")>> \o Groups(5 - k) \o <<ls32>>)]
  \o <<Sq(Heads(5) \o <<L("::"), h16>>), Sq(Heads(6) \o <<L("::")>>)>>)))
IPv6reference == Note("host_type", "IPv6", Text(Sq(<<L("["), IPv6address, L("]")>>)))
host == Save("host", Lower(Text(Alt(<<hostname, IPv4address, IPv6reference>>))))
port == Save("port", Num(Sq(<<Opt(DIGIT), Opt(DIGIT), Opt(DIGIT), Opt(DIGIT), Opt(DIGIT)>>)))
hostport == Sq(<<host, Opt(Sq(<<L(":"), port>>))>>)
SIP_URI_noparams == Do("SIP_URI_noparams", Sq(<<uri_scheme, L(":"), Opt(userinfo), hostport>>))
transport_param == Put("uri_params", "transport", 2,
  Sq(<<I("transport="), Lower(Alt(<<I("udp"), I("tcp"), I("sctp"), I("tls"), token>>))>>))
user_param == Put("uri_params", "user", 2, Sq(<<I("user="), Lower(Alt(<<I("phone"), I("ip"), token>>))>>))
INVITEm == L("INVITE")
ACKm == L("ACK")
OPTIONSm == L("OPTIONS")
BYEm == L("BYE")
CANCELm == L("CANCEL")
REGISTERm == L("REGISTER")
SUBSCRIBEm == L("SUBSCRIBE")
NOTIFYm == L("NOTIFY")
REFERm == L("REFER")
Method == Save("method", Text(Alt(<<INVITEm, ACKm, OPTIONSm, BYEm, CANCELm, REGISTERm, SUBSCRIBEm,
  NOTIFYm, REFERm, token>>)))
method_param == Put("uri_params", "method", 2, Sq(<<I("method="), Method>>))
ttl == Num(Sq(<<DIGIT, Opt(DIGIT), Opt(DIGIT)>>))
ttl_param == PutNum("params", "ttl", 2, Sq(<<I("ttl="), ttl>>))
maddr_param == Put("uri_params", "maddr", 2, Sq(<<I("maddr="), host>>))
lr_param == Do("lr_param", Sq(<<I("lr"), Opt(Sq(<<L("="), token>>))>>))
param_unreserved == C(Chars("[]/:&+$"))
paramchar == Alt(<<param_unreserved, unreserved, escaped>>)
pname == Text(Plus(paramchar))
pvalue == Text(Plus(paramchar))
other_param == Param("uri_params", Sq(<<pname, Opt(Sq(<<L("="), pvalue>>))>>))
uri_parameter == Alt(<<transport_param, user_param, method_param, ttl_param, maddr_param, lr_param,
  other_param>>)
uri_parameters == Star(Sq(<<L(";"), uri_parameter>>))
hnv_unreserved == C(Chars("[]/?:+$"))
hname == Plus(Alt(<<hnv_unreserved, unreserved, escaped>>))
hvalue == Star(Alt(<<hnv_unreserved, unreserved, escaped>>))
header == Do("header", Sq(<<hname, L("="), hvalue>>))
headers == Sq(<<L("?"), header, Star(Sq(<<L("&"), header>>))>>)
SIP_URI == Do("SIP_URI", Sq(<<uri_scheme, L(":"), Opt(userinfo), hostport, uri_parameters,
  Opt(headers)>>))
pchar == Alt(<<unreserved, escaped, C(Chars(":@&=+$,"))>>)
param == Star(pchar)
segment == Sq(<<Star(pchar), Star(Sq(<<L(";"), param>>))>>)
path_segments == Sq(<<segment, Star(Sq(<<L("/"), segment>>))>>)
abs_path == Sq(<<L("/"), path_segments>>)
srvr == Opt(Sq(<<Opt(Sq(<<userinfo, L("@")>>)), hostport>>))
reg_name == Plus(Alt(<<unreserved, escaped, C(Chars("$,;:@&=+"))>>))
authority == Alt(<<srvr, reg_name>>)
net_path == Sq(<<L("//"), authority, Opt(abs_path)>>)
uric == Alt(<<reserved, unreserved, escaped>>)
query == Star(uric)
hier_part == Sq(<<Alt(<<net_path, abs_path>>), Opt(Sq(<<L("?"), query>>))>>)
uric_no_slash == Alt(<<unreserved, escaped, C(Chars(";?:@&=+$,"))>>)
opaque_part == Sq(<<uric_no_slash, Star(uric)>>)
scheme == Save("scheme", Text(Sq(<<ALPHA, Star(Alt(<<ALPHA, DIGIT, C(Chars("+-."))>>))>>)))
absoluteURI == Sq(<<scheme, L(":"), Alt(<<hier_part, opaque_part>>)>>)
Request_URI == Alt(<<SIP_URI, absoluteURI>>)
SIP_Version == Save("sip_version", Text(Sq(<<I("sip"), L("/"), Plus(DIGIT), L("."), Plus(DIGIT)>>)))
Request_Line == Sq(<<Method, SP, Request_URI, SP, SIP_Version>>)
extension_code == Sq(<<DIGIT, DIGIT, DIGIT>>)
Status_Code == Save("status_code", Num(extension_code))
Reason_Phrase == Save("reason_phrase", Text(Star(Alt(<<reserved, unreserved, escaped,
  UTF8_NONASCII, UTF8_CONT, SP, HTAB>>))))
Status_Line == Sq(<<SIP_Version, SP, Status_Code, SP, Reason_Phrase>>)
Request_Response == Alt(<<Status_Line, Request_Line>>)
=============================================================================
