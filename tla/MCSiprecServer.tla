---------------------------- MODULE MCSiprecServer ----------------------------
(* Model-checking instances of SiprecServer. *)
EXTENDS SiprecServer, TLC

CONSTANTS c1, c2, fs1, fs2

\* one FreeSWITCH for all sessions, or one for each
OneAddr == [c \in {c1, c2} |-> fs1]
TwoAddr == [c \in {c1, c2} |-> IF c = c1 THEN fs1 ELSE fs2]

\* nobody talks, both parties of one call do, or everybody does
Silence == {}
OneTalk == {c1} \X {"a", "b"}
AllTalk == {c1, c2} \X {"a", "b"}

CallSymmetry == Permutations(Calls)
==============================================================================
