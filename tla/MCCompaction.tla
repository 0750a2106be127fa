---------------------------- MODULE MCCompaction ----------------------------
(* Instances of Compaction for TLC. *)
EXTENDS Compaction

CONSTANTS manual, auto

TwoSlots == {manual, auto}
Symmetric == {[s \in TwoSlots |-> s], [s \in TwoSlots |-> IF s = manual THEN auto ELSE manual]}

(* Of a budget of 2, users' messages and answers take half, a tool result  *)
(* all of it.  Bash messages differ from users' only in that a cut at one  *)
(* splits its turn, as a cut at an answer does, and are left out.          *)
WithTools == [kind \in MessageKinds |->
                 IF kind = "bash" THEN {} ELSE IF kind = "toolResult" THEN {2} ELSE {1}]
=============================================================================
