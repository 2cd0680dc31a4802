--------------------------- MODULE CommandContract ---------------------------
(***************************************************************************)
(* What the command path promises a client about one messageId: it runs at *)
(* most once, its verdict is given once, says truthfully whether it ran,   *)
(* and is final: nothing runs after a verdict.                             *)
(***************************************************************************)
EXTENDS Naturals

CONSTANT Message

VARIABLES
  runs,      \* how often each message reached the devices
  verdict    \* "open" until the gateway has decided, then "ran" or "refused"

Init == runs = [m \in Message |-> 0] /\ verdict = [m \in Message |-> "open"]

Run(m) ==
  /\ verdict[m] = "open" /\ runs[m] = 0
  /\ runs' = [runs EXCEPT ![m] = 1]
  /\ UNCHANGED verdict

Decide(m) ==
  /\ verdict[m] = "open"
  /\ verdict' = [verdict EXCEPT ![m] = IF runs[m] = 1 THEN "ran" ELSE "refused"]
  /\ UNCHANGED runs

Next == \E m \in Message : Run(m) \/ Decide(m)

Spec == Init /\ [][Next]_<<runs, verdict>>
=============================================================================
