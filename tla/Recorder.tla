------------------------------ MODULE Recorder ------------------------------
(***************************************************************************)
(* What a call recorder promises.  A recording is opened once, takes       *)
(* packets of one source only, and only while it is open, never loses what *)
(* it took, and once closed it is final.                                   *)
(***************************************************************************)
CONSTANTS
  Recording,  \* the recordings
  Sources     \* the streams each of them may take: one it settles on

VARIABLES
  phase,  \* "none", "open" or "final"
  audio   \* the streams whose packets a recording holds

vars == <<phase, audio>>

Init ==
  /\ phase = [r \in Recording |-> "none"]
  /\ audio = [r \in Recording |-> {}]

Move(R, from, to) ==
  /\ \A r \in R : phase[r] = from
  /\ phase' = [r \in Recording |-> IF r \in R THEN to ELSE phase[r]]
  /\ UNCHANGED audio

\* Recordings are opened and closed one by one or several at a time.
Open(R) == Move(R, "none", "open")

Record(r) ==
  /\ phase[r] = "open"
  /\ \E s \in Sources[r] : audio[r] \subseteq {s} /\ audio' = [audio EXCEPT ![r] = {s}]
  /\ UNCHANGED phase

Close(R) == Move(R, "open", "final")

Next ==
  \/ \E r \in Recording : Record(r)
  \/ \E R \in SUBSET Recording : Open(R) \/ Close(R)

Spec == Init /\ [][Next]_vars
=============================================================================
