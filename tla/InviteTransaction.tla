-------------------------- MODULE InviteTransaction --------------------------
(***************************************************************************)
(* What the users of INVITE transactions count on, at either end.  One     *)
(* begins once; provisional responses stop with the final one; there is    *)
(* one final answer, and a transaction that accepted never rejects; it may *)
(* end at any time, by a timer or for want of a transport, and then stays  *)
(* as it is: an answer that comes too late is not sent.                    *)
(***************************************************************************)
CONSTANT Invites  \* the transactions

VARIABLES
  side,   \* "none", "client" or "server"
  phase,  \* "none", "calling", "proceeding", "accepted", "completed" or "over"
  sent    \* the final answer a server has sent: "none", "2xx" or "reject"

vars == <<side, phase, sent>>

All(value) == [i \in Invites |-> value]
Init == side = All("none") /\ phase = All("none") /\ sent = All("none")

\* The transport may not take the request.
Call(i) ==
  /\ side[i] = "none"
  /\ side' = [side EXCEPT ![i] = "client"]
  /\ \E p \in {"calling", "over"} : phase' = [phase EXCEPT ![i] = p]
  /\ UNCHANGED sent

\* A request that arrives may be rejected at once; its 100 may not be taken.
Serve(i) ==
  /\ side[i] = "none"
  /\ side' = [side EXCEPT ![i] = "server"]
  /\ \/ /\ \E p \in {"proceeding", "over"} : phase' = [phase EXCEPT ![i] = p]
        /\ UNCHANGED sent
     \/ /\ phase' = [phase EXCEPT ![i] = "completed"]
        /\ sent' = [sent EXCEPT ![i] = "reject"]

Provisional(i) ==
  /\ phase[i] = "calling"
  /\ phase' = [phase EXCEPT ![i] = "proceeding"]
  /\ UNCHANGED <<side, sent>>

Answer(i, code) ==
  /\ phase[i] \in {"calling", "proceeding"}
  /\ phase' = [phase EXCEPT ![i] = IF code = "2xx" THEN "accepted" ELSE "completed"]
  /\ sent' = IF side[i] = "server" THEN [sent EXCEPT ![i] = code] ELSE sent
  /\ UNCHANGED side

\* Those that share a transport end together.
End(I) ==
  /\ \A i \in I : phase[i] # "none"
  /\ phase' = [i \in Invites |-> IF i \in I THEN "over" ELSE phase[i]]
  /\ UNCHANGED <<side, sent>>

Next ==
  \/ \E i \in Invites : Call(i) \/ Serve(i) \/ Provisional(i) \/ Answer(i, "2xx") \/ Answer(i, "reject")
  \/ \E I \in SUBSET Invites : End(I)

Spec == Init /\ [][Next]_vars
=============================================================================
