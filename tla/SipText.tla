------------------------------- MODULE SipText -------------------------------
(* The vocabulary of the SIP grammar of JsSIP: the texts it reads, the
   expressions its rules are made of (one for each shape of code that PEG.js
   generates), and the record data its actions build. *)
EXTENDS Naturals, Sequences, TLC
LOCAL INSTANCE SequencesExt

(***************************************************************************)
(* Texts. The inputs are strings of the printable ASCII characters but the  *)
(* backquote (which no TLA+ string holds: a form feed keeps its place), tab, *)
(* carriage return and line feed; NonAscii stands for all the others.       *)
(***************************************************************************)
Ascii == " !\"#$%&'()*+,-./0123456789:;<=>?@ABCDEFGHIJKLMNOPQRSTUVWXYZ[\\]^_\fabcdefghijklmnopqrstuvwxyz{|}~"
CharAt(s, i) == SubSeq(s, i, i)
Join(texts) == FoldLeft(LAMBDA t, u : t \o u, "", texts)
Chars(s) == {CharAt(s, i) : i \in 1..Len(s)}
Code == [c \in Chars(Ascii) |-> 31 + CHOOSE i \in 1..Len(Ascii) : CharAt(Ascii, i) = c]
Between(a, b) == {c \in Chars(Ascii) : Code[c] >= Code[a] /\ Code[c] <= Code[b]}
NonAscii == {"\f"}
AnyChar == Chars(Ascii) \cup {"\t", "\r", "\n"} \cup NonAscii
Digits == "0123456789"
LowerCase == "abcdefghijklmnopqrstuvwxyz"
UpperCase == "ABCDEFGHIJKLMNOPQRSTUVWXYZ"
Letters == LowerCase \o UpperCase

MapChar(c, from, to) ==
  IF c \in Chars(from) THEN CharAt(to, CHOOSE i \in 1..Len(from) : CharAt(from, i) = c) ELSE c
MapText(s, from, to) == Join([i \in 1..Len(s) |-> MapChar(CharAt(s, i), from, to)])
LowerText(s) == MapText(s, UpperCase, LowerCase)
UpperText(s) == MapText(s, LowerCase, UpperCase)

\* parseInt of a text of digits, NotANumber for the empty text.
NotANumber == 1000000
RECURSIVE ParseDigits(_)
ParseDigits(s) ==
  IF Len(s) = 0 THEN 0
  ELSE 10 * ParseDigits(SubSeq(s, 1, Len(s) - 1)) + Code[CharAt(s, Len(s))] - 48
ParseInt(s) == IF Len(s) = 0 THEN NotANumber ELSE ParseDigits(s)

\* parseFloat(...).toString() of a qvalue.
RECURSIVE FloatText(_)
FloatText(s) ==
  IF Len(s) > 1 /\ CharAt(s, Len(s)) \in {".", "0"} THEN FloatText(SubSeq(s, 1, Len(s) - 1)) ELSE s

RECURSIVE Trim(_)
Trim(s) ==
  IF Len(s) = 0 THEN s
  ELSE IF CharAt(s, 1) \in {" ", "\t", "\r", "\n"} THEN Trim(Tail(s))
  ELSE IF CharAt(s, Len(s)) \in {" ", "\t", "\r", "\n"} THEN Trim(SubSeq(s, 1, Len(s) - 1))
  ELSE s

\* replace(/\\(x)/g, '$1') for a character x other than CR and LF.
RECURSIVE Unescape(_)
Unescape(s) ==
  IF Len(s) < 2 THEN s
  ELSE IF CharAt(s, 1) = "\\" /\ CharAt(s, 2) \notin ({"\r", "\n"} \cup NonAscii)
       THEN CharAt(s, 2) \o Unescape(SubSeq(s, 3, Len(s)))
       ELSE CharAt(s, 1) \o Unescape(Tail(s))
InnerText(s) == LET t == Trim(s) IN Unescape(SubSeq(t, 2, Len(t) - 1))

(* decodeURIComponent: an escape of an ASCII character gives that character (a
   control character stands as a tab), and one that is not valid UTF-8 throws
   URIError; well-formed sequences of several escapes are outside the inputs. *)
Malformed == "\n"
HexChars == Chars(Digits \o "abcdefABCDEF")
HexValue(c) == IF c \in Chars(Digits) THEN Code[c] - 48 ELSE Code[LowerText(c)] - 87
Hex(s, i) == 16 * HexValue(CharAt(s, i + 1)) + HexValue(CharAt(s, i + 2))
IsAsciiEscape(s, i) ==
  i + 2 <= Len(s) /\ {CharAt(s, i + 1), CharAt(s, i + 2)} \subseteq HexChars /\ Hex(s, i) < 128
RECURSIVE DecodeAscii(_)
DecodeAscii(s) ==
  IF Len(s) = 0 THEN ""
  ELSE IF CharAt(s, 1) # "%" THEN CharAt(s, 1) \o DecodeAscii(Tail(s))
  ELSE (IF Hex(s, 1) \in 32..126 THEN CharAt(Ascii, Hex(s, 1) - 31) ELSE "\t") \o DecodeAscii(SubSeq(s, 4, Len(s)))
Decode(s) ==
  IF \A i \in 1..Len(s) : CharAt(s, i) = "%" => IsAsciiEscape(s, i) THEN DecodeAscii(s) ELSE Malformed

\* headerize: "x_y-z" to "X-Y-Z" (the three names it spells otherwise are left out).
Headerize(s) ==
  LET dashed == MapText(LowerText(s), "_", "-")
      Capital(i) == i = 1 \/ CharAt(dashed, i - 1) = "-"
  IN Join([i \in 1..Len(s) |-> IF Capital(i) THEN UpperText(CharAt(dashed, i)) ELSE CharAt(dashed, i)])

(***************************************************************************)
(* Expressions.                                                             *)
(***************************************************************************)
L(text) == [op |-> "lit", text |-> text]
I(text) == [op |-> "liti", text |-> text]
C(chars) == [op |-> "cls", chars |-> chars]
Sq(es) == [op |-> "seq", es |-> es]
Alt(es) == [op |-> "alt", es |-> es]
Opt(e) == [op |-> "opt", e |-> e]
Star(e) == [op |-> "star", e |-> e]
Plus(e) == [op |-> "plus", e |-> e]
Comment == [op |-> "comment"]

(* A rule with an action: the action runs once the expression has matched, on
   the matched text or on the value of the match, and may write data. *)
Act(do, e) == [op |-> "act", e |-> e, do |-> do]
Text(e) == Act(<<"text">>, e)                    \* value: the matched text
As(c, e) == Act(<<"as", c>>, e)                  \* value: c
Lower(e) == Act(<<"lower">>, e)                  \* value: toLowerCase()
Upper(e) == Act(<<"upper">>, e)                  \* value: toUpperCase()
Num(e) == Act(<<"num">>, e)                      \* value: parseInt
Float(e) == Act(<<"float">>, e)                  \* value: parseFloat
Unquoted(e) == Act(<<"unquoted">>, e)            \* value: the text between the quotes
Words(e) == Act(<<"words">>, e)                  \* value: tokens joined by one space
Whole(e) == Act(<<"whole">>, e)                  \* data = value
Save(f, e) == Act(<<"to", f>>, e)                  \* data.f = value
Note(f, c, e) == Act(<<"note", f, c>>, e)        \* data.f = c
Pick(f, k, e) == Act(<<"pick", f, k>>, e)        \* data.f = value[k]
Put(o, key, k, e) == Act(<<"put", o, key, k>>, e)\* data.o[key] = value[k]
PutNum(o, key, k, e) == Act(<<"putnum", o, key, k>>, e)
Param(o, e) == Act(<<"param", o>>, e)            \* data.o[value[1]] = value[2][2]
Do(name, e) == Act(<<name>>, e)                  \* an action of its own

(***************************************************************************)
(* data: a function from the names of its fields to their values.          *)
(***************************************************************************)
NoData == <<>>
Undefined == "undefined"
Set(d, f, v) == (f :> v) @@ d
Drop(d, fs) == [f \in DOMAIN d \ fs |-> d[f]]
Get(d, f, default) == IF f \in DOMAIN d THEN d[f] ELSE default
SetIn(d, o, key, v) == Set(d, o, (key :> v) @@ Get(d, o, <<>>))
Fresh(d) == Drop(d, DOMAIN d \ {"thrown"})      \* a new value of data
Value(option) == IF Len(option) = 0 THEN Undefined ELSE option[2]
=============================================================================
