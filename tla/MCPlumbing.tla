----------------------------- MODULE MCPlumbing -----------------------------
(* Instances for TLC of the small concurrent structures.                   *)
EXTENDS FileMutations, EventStream, MomEvents, TLC

(* They share nothing: each takes its steps while the others rest in their *)
(* first state.                                                            *)
plumbingVars == <<mutationVars, streamVars, momVars>>
MutationsRest == MutationInit /\ \A f \in RealFiles : files[f] = Missing

OfMutations(A) == StreamInit /\ EventsInit /\ A /\ UNCHANGED <<streamVars, momVars>>
OfStreams(A)   == EventsInit /\ MutationsRest /\ A /\ UNCHANGED <<mutationVars, momVars>>
OfEvents(A)    == StreamInit /\ MutationsRest /\ A /\ UNCHANGED <<mutationVars, streamVars>>

PlumbingInit == MutationInit /\ StreamInit /\ EventsInit
PlumbingNext == OfMutations(MutationNext) \/ OfStreams(StreamNext) \/ OfEvents(EventsNext)

(* The fairness of whichever is at work. *)
PlumbingFairness ==
    WF_plumbingVars(OfMutations(Operations) \/ OfStreams(Progress) \/ OfEvents(RunStep))
PlumbingSpec == PlumbingInit /\ [][PlumbingNext]_plumbingVars /\ PlumbingFairness

(* Three calls of one answer and one of the next; a directory that can be  *)
(* reached by a link.                                                      *)
ThreeTools == [c \in MutationCalls |-> IF c = "rewrite" THEN "write" ELSE "edit"]
OnePath    == [c \in MutationCalls |-> IF c = "editlink" THEN "link/a" ELSE "dir/a"]
TwoAnswers == [c \in MutationCalls |-> IF c = "later" THEN 2 ELSE 1]
DirLink    == [p \in {"dir/a", "link/a"} |-> "dir/a"]
=============================================================================
