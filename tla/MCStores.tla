------------------------------ MODULE MCStores ------------------------------
(* Instances of the two stores for TLC: settings and credentials.          *)
EXTENDS Settings, AuthStorage, TLC

(* The two stores share nothing, so every state of one is reached while    *)
(* the other rests in its first state: their steps need not be mixed.      *)
storeVars == <<settingsVars, authVars>>
SettingsRest == SettingsInit /\ \A s \in Scopes : disk[s].kind = "absent"
AuthRests    == AuthInit /\ readable /\ expired = 0
StoresInit == SettingsInit /\ AuthInit /\ (SettingsRest \/ AuthRests)
StoresNext ==
    \/ SettingsNext /\ AuthRests /\ UNCHANGED authVars
    \/ AuthNext /\ SettingsRest /\ UNCHANGED settingsVars
StoresSpec == StoresInit /\ [][StoresNext]_storeVars

StoreSymmetry == Permutations(Managers)

(* A thinking budget, and a setting that older versions kept under another *)
(* name.                                                                   *)
TwoPaths == {<<"thinkingBudgets", "minimal">>, <<"steeringMode">>}
TwoMoved == [o \in {<<"queueMode">>, <<"thinkingBudgets", "minimal">>} |->
                IF o = <<"queueMode">> THEN <<"steeringMode">> ELSE <<"thinkingBudgets.minimal">>]
NoDefault  == [p \in Paths |-> "default"]

AbsentFile   == [kind |-> "absent", at |-> Nothing]
FileWith(ps, v) == [kind |-> "json", at |-> [p \in Places |-> IF p \in ps THEN v ELSE Unset]]
OldFiles     == {AbsentFile, FileWith({<<"thinkingBudgets", "minimal">>, <<"queueMode">>}, "a")}

(* A thinking budget, written as the settings document says.               *)
BudgetPaths  == {<<"thinkingBudgets", "minimal">>}
BudgetsMoved == [b \in BudgetPaths |-> <<"thinkingBudgets.minimal">>]
BudgetFiles  == {AbsentFile, FileWith(BudgetPaths, "a")}

(* Two calls in one process, one in another. *)
ThreeCalls == [c \in Calls |-> IF c = "call3" THEN "proc2" ELSE "proc1"]
=============================================================================
