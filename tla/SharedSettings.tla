--------------------------- MODULE SharedSettings ---------------------------
(***************************************************************************)
(* What the settings files promise, whatever way SettingsManager keeps the *)
(* promise (packages/coding-agent/src/core/settings-manager.ts): several   *)
(* processes share each file, and a process changes nothing in it but the  *)
(* settings it was asked to change.  An edit by the user or by another     *)
(* process is never undone by a process that holds older settings in       *)
(* memory, and a file that does not parse is left alone.                   *)
(*                                                                         *)
(* One exception is part of the promise the code can keep: a process that  *)
(* found no file writes a new one from its own changes alone.              *)
(***************************************************************************)
EXTENDS Naturals

CONSTANTS Managers, Scopes, Places, Values, Unset

VARIABLES
    stored,     \* scope -> the file: its kind and the value at each place
    asked,      \* manager, scope -> the changes it may still store, as <<place, value>>
    blind,      \* the <<manager, scope>> that found no file and are about to write one
    events      \* how often the user edited, or a process failed, was killed or gave up

sharedVars == <<stored, asked, blind, events>>

Nothing == [p \in Places |-> Unset]

(* Content c with the changes ds, at most one of them to each place. *)
With(c, ds) ==
    [p \in Places |-> IF \E d \in ds : d[1] = p
                        THEN (CHOOSE d \in ds : d[1] = p)[2] ELSE c[p]]

SharedInit ==
    /\ stored \in [Scopes -> [kind: {"absent", "json", "invalid"},
                              at: [Places -> Values \cup {Unset}]]]
    /\ asked = [m \in Managers |-> [s \in Scopes |-> {}]]
    /\ blind = {}
    /\ events = 0

(* Manager m is asked for a change. *)
Ask(m, s) ==
    /\ \E p \in Places, v \in Values : asked' = [asked EXCEPT ![m][s] = @ \cup {<<p, v>>}]
    /\ UNCHANGED <<stored, blind, events>>

(* Nothing m was asked for in s is outstanding any more, or all of it is. *)
Settle(m, s) == \/ asked' = [asked EXCEPT ![m][s] = {}]
                \/ UNCHANGED asked

(* m puts changes it was asked for into the file. *)
Store(m, s) ==
    /\ stored[s].kind = "json"
    /\ \E ds \in SUBSET asked[m][s] :
          stored' = [stored EXCEPT ![s] = [kind |-> "json", at |-> With(@.at, ds)]]
    /\ Settle(m, s)
    /\ UNCHANGED <<blind, events>>

(* m finds no file, and later writes one with nothing but its changes. *)
FindNone(m, s) ==
    /\ stored[s].kind = "absent"
    /\ blind' = blind \cup {<<m, s>>}
    /\ UNCHANGED <<stored, asked, events>>

Create(m, s) ==
    /\ <<m, s>> \in blind
    /\ \E ds \in SUBSET asked[m][s] :
          stored' = [stored EXCEPT ![s] = [kind |-> "json", at |-> With(Nothing, ds)]]
    /\ blind' = blind \ {<<m, s>>}
    /\ Settle(m, s)
    /\ UNCHANGED events

(* m gives up on what it was asked for, in one scope or in all. *)
GiveUp(m) ==
    /\ \E S \in SUBSET Scopes :
          asked' = [asked EXCEPT ![m] = [s \in Scopes |-> IF s \in S THEN {} ELSE @[s]]]
    /\ blind' \in {blind, blind \ ({m} \X Scopes)}
    /\ events' \in {events, events + 1}
    /\ UNCHANGED stored

(* A write that fails or is killed may leave a file that does not parse,   *)
(* or an empty one.                                                        *)
Damage(m, s) ==
    /\ asked[m][s] # {}
    /\ stored' \in {[stored EXCEPT ![s] = [kind |-> k, at |-> Nothing]] : k \in {"invalid", "json"}}
    /\ blind' = blind \ {<<m, s>>}
    /\ asked' \in {asked, [asked EXCEPT ![m] = [t \in Scopes |-> {}]]}
    /\ events' = events + 1

(* The user edits the file; what a process writes is no edit. *)
Edit(s) ==
    /\ events' = events + 1
    /\ \/ \E c \in [Places -> Values \cup {Unset}] :
             stored' = [stored EXCEPT ![s] = [kind |-> "json", at |-> c]]
       \/ stored' = [stored EXCEPT ![s] = [kind |-> "invalid", at |-> Nothing]]
    /\ UNCHANGED <<asked, blind>>

SharedNext ==
    \/ \E m \in Managers, s \in Scopes :
          \/ Ask(m, s) \/ Store(m, s) \/ FindNone(m, s) \/ Create(m, s) \/ Damage(m, s)
    \/ \E m \in Managers : GiveUp(m)
    \/ \E s \in Scopes : Edit(s)

SharedSpec == SharedInit /\ [][SharedNext]_sharedVars
=============================================================================
