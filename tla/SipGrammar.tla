----------------------------- MODULE SipGrammar ------------------------------
(* The SIP grammar of JsSIP (module Grammar of jssip.js), a parser that PEG.js
   generated: one function of about 85 lines for each rule. SipRules and
   SipHeaders hold one definition for each rule, whose right-hand side is the
   expression that function recognises. Eval gives the expressions the meaning
   the generated functions have: alternatives are tried in order and the first
   one that matches is kept, repetition is greedy, what was consumed is given
   back on failure - and what a rule's code wrote into data meanwhile is not. *)
EXTENDS SipHeaders

(* What the actions with a name of their own do to data. *)
NewUri_swapped(d, ps, hs) ==
  [scheme |-> d["scheme"], user |-> d["host"], host |-> Get(d, "user", ""),
   port |-> Get(d, "port", NotANumber), params |-> ps, headers |-> hs]
NewUri(d, ps, hs) ==
  [scheme |-> d["scheme"], user |-> Get(d, "user", ""), host |-> d["host"],
   port |-> Get(d, "port", NotANumber), params |-> ps,
   headers |-> [h \in {Headerize(x) : x \in DOMAIN hs} |-> hs[CHOOSE x \in DOMAIN hs : Headerize(x) = h]]]
UriParts == {"scheme", "user", "host", "host_type", "port"}
NewAddress(d) ==
  [uri |-> d["uri"], display_name |-> Get(d, "display_name", ""), params |-> Get(d, "params", <<>>)]

RunUri(d, start) ==
  LET uri == NewUri(d, Get(d, "uri_params", <<>>), Get(d, "uri_headers", <<>>))
  IN IF start THEN Set(Fresh(d), "data", uri)
     ELSE Drop(Set(d, "uri", uri), UriParts \cup {"uri_params"})
RunUriNoParams(d) == Drop(Set(d, "uri", NewUri(d, <<>>, <<>>)), UriParts)
RunUserinfo(d, text) ==
  LET decoded == Decode(SubSeq(text, 1, Len(text) - 1))
  IN IF decoded = Malformed THEN Set(d, "thrown", TRUE) ELSE Set(d, "user", decoded)
RunHeader(d, v) ==
  LET name == LowerText(Join(v[1]))
      old == Get(d, "uri_headers", <<>>)
  IN SetIn(d, "uri_headers", name, Append(Get(old, name, <<>>), Join(v[3])))
RunPush_lost(d) == Drop(d, {"uri", "display_name", "params"})
RunPush_keepsParams(d) ==
  Set(Drop(d, {"uri", "display_name"}), "multi_header", Append(Get(d, "multi_header", <<>>), NewAddress(d)))
RunPush(d) ==
  Set(Drop(d, {"uri", "display_name", "params"}), "multi_header",
      Append(Get(d, "multi_header", <<>>), NewAddress(d)))
RunList(d) ==
  IF "multi_header" \in DOMAIN d THEN Set(Fresh(d), "data", d["multi_header"]) ELSE Set(d, "thrown", TRUE)
RunAddress(d) == Set(Fresh(d), "data", NewAddress(d))
RunTagged(d) ==
  LET a == NewAddress(d)
  IN Set(Fresh(d), "data", IF "tag" \in DOMAIN d THEN [a EXCEPT !.params = ("tag" :> d["tag"]) @@ @] ELSE a)
RunReason(d, v) ==
  LET ps == Get(d, "params", <<>>)
      named == Set(Set(d, "protocol", LowerText(v[1])), "params", ps)
      text == Get(ps, "text", Undefined)
  IN IF text # Undefined /\ CharAt(text, 1) = "\""
     THEN Set(Set(named, "text", SubSeq(text, 2, Len(text) - 1)), "params", Drop(ps, {"text"}))
     ELSE named
\* event_type.join(''): the array of the parts after the first is joined by commas.
RunEvent(d, v) ==
  LET more == v[1][2]
  IN Set(d, "event", LowerText(v[1][1] \o Join(
       [k \in 1..Len(more) |-> (IF k = 1 THEN "" ELSE ",") \o more[k][1] \o "," \o more[k][2]])))

Run(do, d, v, text, start) ==
  CASE do[1] = "whole" -> Set(Fresh(d), "data", v)
    [] do[1] = "to" -> Set(d, do[2], v)
    [] do[1] = "note" -> Set(d, do[2], do[3])
    [] do[1] = "pick" -> Set(d, do[2], v[do[3]])
    [] do[1] = "put" -> SetIn(d, do[2], do[3], v[do[4]])
    [] do[1] = "putnum" -> SetIn(d, do[2], do[3], ToString(v[do[4]]))
    [] do[1] = "param" -> SetIn(d, do[2], LowerText(v[1]), Value(v[2]))
    [] do[1] = "lr_param" -> SetIn(d, "uri_params", "lr", Undefined)
    [] do[1] = "userinfo" -> RunUserinfo(d, text)
    [] do[1] = "header" -> RunHeader(d, v)
    [] do[1] = "SIP_URI" -> RunUri(d, start = "SIP_URI")
    [] do[1] = "SIP_URI_noparams" -> RunUriNoParams(d)
    [] do[1] \in {"contact_param", "rec_route"} -> RunPush(d)
    [] do[1] \in {"Contact", "Record_Route"} -> RunList(d)
    [] do[1] = "From" -> RunTagged(d)
    [] do[1] = "Refer_To" -> RunAddress(d)
    [] do[1] = "Reason" -> RunReason(d, v)
    [] do[1] = "Event" -> RunEvent(d, v)
    [] do[1] = "qop_value" -> Set(d, "qop", Append(Get(d, "qop", <<>>), LowerText(v)))
    [] do[1] = "uuid" -> Set(Fresh(d), "data", text)
    [] OTHER -> d

RunValue(do, v, text) ==
  CASE do[1] = "text" -> text
    [] do[1] = "note" -> text
    [] do[1] = "as" -> do[2]
    [] do[1] = "lower" -> LowerText(v)
    [] do[1] = "upper" -> UpperText(v)
    [] do[1] = "num" -> ParseInt(text)
    [] do[1] = "float" -> FloatText(text)
    [] do[1] = "unquoted" -> InnerText(text)
    [] do[1] = "words" ->
         v[1] \o Join([k \in 1..Len(v[2]) |-> v[2][k][1] \o v[2][k][2]])
    [] OTHER -> v

(***************************************************************************)
(* The generated functions. A result says whether the expression matched,   *)
(* the position after the match, data, and the value of the match. g.start  *)
(* is the rule the parse starts with; g.undo is FALSE: data stays as the    *)
(* abandoned alternatives left it (TRUE only in the reference reading).     *)
(***************************************************************************)
Hit(i, d, v) == [ok |-> TRUE, i |-> i, d |-> d, v |-> v]
Miss(i, d) == [ok |-> FALSE, i |-> i, d |-> d, v |-> ""]

RECURSIVE Eval(_, _, _, _, _)
RECURSIVE EvalSeq(_, _, _, _, _, _)
RECURSIVE EvalAlt(_, _, _, _, _)
RECURSIVE EvalStar(_, _, _, _, _, _)
EvalSeq(es, s, i, d, v, g) ==
  IF es = <<>> THEN Hit(i, d, v)
  ELSE LET r == Eval(Head(es), s, i, d, g)
       IN IF r.ok THEN EvalSeq(Tail(es), s, r.i, r.d, Append(v, r.v), g) ELSE r
EvalAlt(es, s, i, d, g) ==
  LET r == Eval(Head(es), s, i, d, g)
  IN IF r.ok \/ Len(es) = 1 THEN r ELSE EvalAlt(Tail(es), s, i, r.d, g)
EvalStar(e, s, i, d, v, g) ==
  LET r == Eval(e, s, i, d, g)
  IN IF r.ok THEN EvalStar(e, s, r.i, r.d, Append(v, r.v), g) ELSE Hit(i, r.d, v)
Eval(e, s, i, d, g) ==
  CASE e.op = "lit" ->
         LET n == Len(e.text)
         IN IF i + n <= Len(s) /\ SubSeq(s, i + 1, i + n) = e.text THEN Hit(i + n, d, e.text) ELSE Miss(i, d)
    [] e.op = "liti" ->
         LET n == Len(e.text)
             found == SubSeq(s, i + 1, i + n)
         IN IF i + n <= Len(s) /\ LowerText(found) = e.text THEN Hit(i + n, d, found) ELSE Miss(i, d)
    [] e.op = "cls" ->
         IF i < Len(s) /\ CharAt(s, i + 1) \in e.chars THEN Hit(i + 1, d, CharAt(s, i + 1)) ELSE Miss(i, d)
    [] e.op = "seq" ->
         LET r == EvalSeq(e.es, s, i, d, <<>>, g)
         IN IF r.ok THEN r ELSE Miss(i, IF g.undo THEN d ELSE r.d)
    [] e.op = "alt" -> EvalAlt(e.es, s, i, d, g)
    [] e.op = "opt" -> LET r == Eval(e.e, s, i, d, g) IN IF r.ok THEN r ELSE Hit(i, r.d, <<>>)
    [] e.op = "star" -> EvalStar(e.e, s, i, d, <<>>, g)
    [] e.op = "plus" ->
         LET r == EvalStar(e.e, s, i, d, <<>>, g) IN IF r.v = <<>> THEN Miss(i, r.d) ELSE r
    [] e.op = "comment" -> Eval(comment, s, i, d, g)
    [] e.op = "act" ->
         LET r == Eval(e.e, s, i, d, g)
             text == SubSeq(s, i + 1, r.i)
         IN IF r.ok THEN Hit(r.i, Run(e.do, r.d, r.v, text, g.start), RunValue(e.do, r.v, text)) ELSE r

(* Grammar.parse: the data of a match of the whole input, -1 otherwise; an
   action may throw instead. *)
Failed == [result |-> "-1"]
Thrown == [result |-> "throws"]
Ended(r, s) ==
  IF "thrown" \in DOMAIN r.d THEN Thrown
  ELSE IF r.ok /\ r.i = Len(s) THEN [result |-> "data", data |-> r.d]
  ELSE Failed
ParseWith(s, e, g) == Ended(Eval(e, s, 0, NoData, g), s)
parse(s, e, start) == ParseWith(s, e, [start |-> start, undo |-> FALSE])

(***************************************************************************)
(* The declarative reading of the same expressions, the language they       *)
(* describe when every alternative and every number of repetitions counts:  *)
(* the positions at which a match that starts at position i may end.        *)
(***************************************************************************)
RECURSIVE Ends(_, _, _)
RECURSIVE EndsSeq(_, _, _)
RECURSIVE EndsStar(_, _, _)
EndsSeq(es, s, from) ==
  IF es = <<>> THEN from ELSE EndsSeq(Tail(es), s, UNION {Ends(Head(es), s, i) : i \in from})
EndsStar(e, s, from) ==
  LET more == UNION {Ends(e, s, i) : i \in from}
  IN IF more \subseteq from THEN from ELSE EndsStar(e, s, from \cup more)
Ends(e, s, i) ==
  CASE e.op \in {"lit", "liti", "cls"} -> LET r == Eval(e, s, i, NoData, [start |-> "", undo |-> TRUE])
                                          IN IF r.ok THEN {r.i} ELSE {}
    [] e.op = "seq" -> EndsSeq(e.es, s, {i})
    [] e.op = "alt" -> UNION {Ends(e.es[k], s, i) : k \in DOMAIN e.es}
    [] e.op = "opt" -> {i} \cup Ends(e.e, s, i)
    [] e.op = "star" -> EndsStar(e.e, s, {i})
    [] e.op = "plus" -> EndsStar(e.e, s, Ends(e.e, s, i))
    [] e.op = "comment" -> Ends(comment, s, i)
    [] e.op = "act" -> Ends(e.e, s, i)
Derives(e, s) == Len(s) \in Ends(e, s, 0)
=============================================================================
