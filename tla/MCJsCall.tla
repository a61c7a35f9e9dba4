------------------------------- MODULE MCJsCall -------------------------------
(* Model-checking instance of JsCall: the caller, or a callee and its fork. *)
EXTENDS JsCall

CONSTANTS d1, d2

TwoEnds == {d1, d2}
===============================================================================
