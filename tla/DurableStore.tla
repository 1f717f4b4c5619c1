---------------------------- MODULE DurableStore ----------------------------
(***************************************************************************)
(* What a checked save file promises its caller: the image a restart       *)
(* would read changes in one step, when a write call succeeds, and only to *)
(* the image of that call.  A refused call and a crash leave it alone.     *)
(***************************************************************************)
CONSTANTS Image,     \* complete save images
          Nothing    \* no image can be read

VARIABLES stored,    \* the image an error-free read returns
          asked      \* the image of the write call in progress, or Nothing

vars == <<stored, asked>>

Init == stored = Nothing /\ asked = Nothing

Ask(v) == asked = Nothing /\ asked' = v /\ UNCHANGED stored

Commit == asked # Nothing /\ stored' = asked /\ asked' = Nothing

\* The call fails, or the program stops before it has an answer.
Abandon == asked # Nothing /\ asked' = Nothing /\ UNCHANGED stored

\* Files changed behind the program's back: outside the promise.
Tamper == asked = Nothing /\ stored' \in Image \cup {Nothing} /\ UNCHANGED asked

Next == (\E v \in Image : Ask(v)) \/ Commit \/ Abandon \/ Tamper

Spec == Init /\ [][Next]_vars
=============================================================================
