------------------------------ MODULE MCAiRuns ------------------------------
(* Instances of AiRuns for TLC. *)
EXTENDS AiRuns, TLC

CONSTANTS r1, r2, m1

ChatRuns == {r1, r2}

NoChats == {}

NoLegacy == {}

OneLegacy == {m1}

NoFaults == {}

FailedSaves == {"save", "panic"}

Crashes == {"crash", "panic", "prompt"}
=============================================================================
