----------------------------- MODULE SipHeaders ------------------------------
(* The rules of the grammar of JsSIP for the values of the header fields. *)
EXTENDS SipRules

event_type == Sq(<<token_nodot, Star(Sq(<<L("."), token_nodot>>))>>)
Allow_Events == Sq(<<event_type, Star(Sq(<<COMMA, event_type>>))>>)
Call_ID == Whole(Text(Sq(<<word, Opt(Sq(<<L("@"), word>>))>>)))
display_name == Save("display_name", Alt(<<Words(Sq(<<token, Star(Sq(<<LWS, token>>))>>)), quoted_string_clean>>))
name_addr == Sq(<<Opt(display_name), LAQUOT, SIP_URI, RAQUOT>>)
qvalue == Float(Sq(<<L("0"), Opt(Sq(<<L("."), Opt(DIGIT), Opt(DIGIT), Opt(DIGIT)>>))>>))
c_p_q == Put("params", "q", 3, Sq(<<I("q"), EQUAL, qvalue>>))
delta_seconds == Num(Plus(DIGIT))
c_p_expires == PutNum("params", "expires", 3, Sq(<<I("expires"), EQUAL, delta_seconds>>))
gen_value == Alt(<<token, host, quoted_string>>)
generic_param == Param("params", Sq(<<token, Opt(Sq(<<EQUAL, gen_value>>))>>))
contact_params == Alt(<<c_p_q, c_p_expires, generic_param>>)
contact_param == Do("contact_param", Sq(<<Alt(<<SIP_URI_noparams, name_addr>>), Star(Sq(<<SEMI,
  contact_params>>))>>))
Contact == Do("Contact", Alt(<<STAR, Sq(<<contact_param, Star(Sq(<<COMMA, contact_param>>))>>)>>))
disp_type == Alt(<<I("render"), I("session"), I("icon"), I("alert"), token>>)
handling_param == Sq(<<I("handling"), EQUAL, Alt(<<I("optional"), I("required"), token>>)>>)
disp_param == Alt(<<handling_param, generic_param>>)
Content_Disposition == Sq(<<disp_type, Star(Sq(<<SEMI, disp_param>>))>>)
Content_Encoding == Sq(<<token, Star(Sq(<<COMMA, token>>))>>)
Content_Length == Whole(Num(Plus(DIGIT)))
x_token == Sq(<<I("x-"), token>>)
extension_token == Alt(<<token, x_token>>)
discrete_type == Alt(<<I("text"), I("image"), I("audio"), I("video"), I("application"),
  extension_token>>)
composite_type == Alt(<<I("message"), I("multipart"), extension_token>>)
m_type == Alt(<<discrete_type, composite_type>>)
m_subtype == Alt(<<extension_token, token>>)
m_value == Alt(<<token, quoted_string>>)
m_parameter == Sq(<<token, EQUAL, m_value>>)
media_type == Sq(<<m_type, SLASH, m_subtype, Star(Sq(<<SEMI, m_parameter>>))>>)
Content_Type == Whole(Text(media_type))
CSeq_value == Save("value", Num(Plus(DIGIT)))
CSeq == Sq(<<CSeq_value, LWS, Method>>)
Expires == Whole(delta_seconds)
Event == Do("Event", Sq(<<event_type, Star(Sq(<<SEMI, generic_param>>))>>))
tag_param == Pick("tag", 3, Sq(<<I("tag"), EQUAL, token>>))
from_param == Alt(<<tag_param, generic_param>>)
From == Do("From", Sq(<<Alt(<<SIP_URI_noparams, name_addr>>), Star(Sq(<<SEMI, from_param>>))>>))
Max_Forwards == Whole(Num(Plus(DIGIT)))
Min_Expires == Whole(delta_seconds)
Name_Addr_Header == Do("Refer_To", Sq(<<Star(display_name), LAQUOT, SIP_URI, RAQUOT,
  Star(Sq(<<SEMI, generic_param>>))>>))
auth_param == Sq(<<token, EQUAL, Alt(<<token, quoted_string>>)>>)
other_challenge == Sq(<<token, LWS, auth_param, Star(Sq(<<COMMA, auth_param>>))>>)
realm_value == Save("realm", quoted_string_clean)
realm == Sq(<<I("realm"), EQUAL, realm_value>>)
URI == Alt(<<absoluteURI, abs_path>>)
domain == Sq(<<I("domain"), EQUAL, LDQUOT, URI, Star(Sq(<<Plus(SP), URI>>)), RDQUOT>>)
nonce_value == Save("nonce", quoted_string_clean)
nonce == Sq(<<I("nonce"), EQUAL, nonce_value>>)
opaque == Pick("opaque", 3, Sq(<<I("opaque"), EQUAL, quoted_string_clean>>))
stale == Sq(<<I("stale"), EQUAL, Alt(<<Note("stale", TRUE, I("true")), Note("stale", FALSE, I("false"))>>)>>)
algorithm == Pick("algorithm", 3, Sq(<<I("algorithm"), EQUAL, Upper(Alt(<<I("md5"), I("md5-sess"), token>>))>>))
qop_value == Do("qop_value", Alt(<<I("auth-int"), I("auth"), token>>))
qop_options == Sq(<<I("qop"), EQUAL, LDQUOT, Sq(<<qop_value, Star(Sq(<<L(","), qop_value>>))>>),
  RDQUOT>>)
digest_cln == Alt(<<realm, domain, nonce, opaque, stale, algorithm, qop_options, auth_param>>)
challenge == Alt(<<Sq(<<I("digest"), LWS, digest_cln, Star(Sq(<<COMMA, digest_cln>>))>>),
  other_challenge>>)
Proxy_Authenticate == challenge
Proxy_Require == Sq(<<token, Star(Sq(<<COMMA, token>>))>>)
rec_route == Do("rec_route", Sq(<<name_addr, Star(Sq(<<SEMI, generic_param>>))>>))
Record_Route == Do("Record_Route", Sq(<<rec_route, Star(Sq(<<COMMA, rec_route>>))>>))
reason_cause == Pick("cause", 3, Sq(<<I("cause"), EQUAL, Num(Plus(DIGIT))>>))
reason_param == Alt(<<reason_cause, generic_param>>)
Reason == Do("Reason", Sq(<<Alt(<<I("sip"), token>>), Star(Sq(<<SEMI, reason_param>>))>>))
Require == Sq(<<token, Star(Sq(<<COMMA, token>>))>>)
route_param == Sq(<<name_addr, Star(Sq(<<SEMI, generic_param>>))>>)
Route == Sq(<<route_param, Star(Sq(<<COMMA, route_param>>))>>)
substate_value == Save("state", Text(Alt(<<I("active"), I("pending"), I("terminated"), token>>)))
event_reason_value == Alt(<<I("deactivated"), I("probation"), I("rejected"), I("timeout"),
  I("giveup"), I("noresource"), I("invariant"), token>>)
subexp_params == Alt(<<Pick("reason", 3, Sq(<<I("reason"), EQUAL, event_reason_value>>)),
  Pick("expires", 3, Sq(<<I("expires"), EQUAL, delta_seconds>>)),
  Pick("retry_after", 3, Sq(<<I("retry_after"), EQUAL, delta_seconds>>)), generic_param>>)
Subscription_State == Sq(<<substate_value, Star(Sq(<<SEMI, subexp_params>>))>>)
Subject == Opt(TEXT_UTF8_TRIM)
Supported == Opt(Sq(<<token, Star(Sq(<<COMMA, token>>))>>))
to_param == Alt(<<tag_param, generic_param>>)
To == Do("From", Sq(<<Alt(<<SIP_URI_noparams, name_addr>>), Star(Sq(<<SEMI, to_param>>))>>))
via_ttl == Pick("ttl", 3, Sq(<<I("ttl"), EQUAL, ttl>>))
via_maddr == Pick("maddr", 3, Sq(<<I("maddr"), EQUAL, host>>))
via_received == Pick("received", 3, Sq(<<I("received"), EQUAL, Alt(<<IPv4address, IPv6address>>)>>))
via_branch == Pick("branch", 3, Sq(<<I("branch"), EQUAL, token>>))
rport == Save("rport", Num(Sq(<<Opt(DIGIT), Opt(DIGIT), Opt(DIGIT), Opt(DIGIT), Opt(DIGIT)>>)))
response_port == Sq(<<I("rport"), Opt(Sq(<<EQUAL, rport>>))>>)
via_params == Alt(<<via_ttl, via_maddr, via_received, via_branch, response_port, generic_param>>)
protocol_name == Save("protocol", Alt(<<I("sip"), token>>))
transport == Save("transport", Alt(<<I("udp"), I("tcp"), I("tls"), I("sctp"), token>>))
sent_protocol == Sq(<<protocol_name, SLASH, token, SLASH, transport>>)
via_host == Save("host", Text(Alt(<<IPv4address, IPv6reference, hostname>>)))
via_port == Save("port", Num(Sq(<<Opt(DIGIT), Opt(DIGIT), Opt(DIGIT), Opt(DIGIT), Opt(DIGIT)>>)))
sent_by == Sq(<<via_host, Opt(Sq(<<COLON, via_port>>))>>)
via_param == Sq(<<sent_protocol, LWS, sent_by, Star(Sq(<<SEMI, via_params>>))>>)
Via == Sq(<<via_param, Star(Sq(<<COMMA, via_param>>))>>)
WWW_Authenticate == challenge
s_e_expires == Save("expires", delta_seconds)
s_e_refresher == Pick("refresher", 3, Sq(<<I("refresher"), EQUAL, Lower(Alt(<<I("uac"), I("uas")>>))>>))
s_e_params == Alt(<<s_e_refresher, generic_param>>)
Session_Expires == Sq(<<s_e_expires, Star(Sq(<<SEMI, s_e_params>>))>>)
header_value == Star(Alt(<<TEXT_UTF8char, UTF8_CONT, LWS>>))
extension_header == Sq(<<token, HCOLON, header_value>>)
message_body == Star(OCTET)
hex4 == Sq(<<HEXDIG, HEXDIG, HEXDIG, HEXDIG>>)
hex8 == Sq(<<hex4, hex4>>)
hex12 == Sq(<<hex4, hex4, hex4>>)
uuid == Do("uuid", Sq(<<hex8, L("-"), hex4, L("-"), hex4, L("-"), hex4, L("-"), hex12>>))
uuid_URI == Sq(<<L("uuid:"), uuid>>)
Refer_To == Do("Refer_To", Sq(<<Alt(<<SIP_URI_noparams, name_addr>>), Star(Sq(<<SEMI,
  generic_param>>))>>))
call_id == Save("call_id", Text(Sq(<<word, Opt(Sq(<<L("@"), word>>))>>)))
to_tag == Pick("to_tag", 3, Sq(<<L("to-tag"), EQUAL, token>>))
from_tag == Pick("from_tag", 3, Sq(<<L("from-tag"), EQUAL, token>>))
early_flag == Note("early_only", TRUE, L("early-only"))
replaces_param == Alt(<<to_tag, from_tag, early_flag, generic_param>>)
Replaces == Sq(<<call_id, Star(Sq(<<SEMI, replaces_param>>))>>)
=============================================================================
