--------------------------- MODULE MCJsUserAgent ---------------------------
\* The user agent with two servers; the browser may refuse the lighter one.
EXTENDS JsUserAgent
CONSTANTS s1, s2
MCSockets == {s1, s2}
MCWeight == [s \in MCSockets |-> IF s = s1 THEN 2 ELSE 1]
MCRefusals == {{}, {s2}}
MCAnswers == {"2xx", "noContact", "401", "stale", "4xx"}
MCAnswersBrief == MCAnswers \cup {"423"}
=============================================================================
