------------------------------ MODULE Settings ------------------------------
(***************************************************************************)
(* Settings files shared by processes                                      *)
(* (packages/coding-agent/src/core/settings-manager.ts).                   *)
(*                                                                         *)
(* Each process has one SettingsManager: the global and the project        *)
(* settings in memory, the settings it changed (marks), and a queue of     *)
(* writes, each of which merges the marked settings into the file as it is *)
(* then.  A file that exists is read and written under a lock; one that    *)
(* does not is read without it.                                            *)
(*                                                                         *)
(* Abstractions.  The content of a file is a value per place, a place      *)
(* being the path of a setting or the key an older version kept it under.  *)
(* The lock directory is the variable lock; its ten tries with pauses are  *)
(* a wait that may be given up while another process holds it.  An editor  *)
(* does not write within the few milliseconds of another's locked section. *)
(***************************************************************************)
EXTENDS Naturals, Sequences

CONSTANTS
    Managers,     \* processes, each with one SettingsManager
    Scopes,       \* the settings files: "global", "project"
    Paths,        \* the settings the program may set, as sequences of segments
    Moved,        \* place of an older version |-> the place migrateSettings moves it to
    Budgets,      \* the old places that are moved even when the new one is set
    Default,      \* path |-> the default its getter falls back to
    Values,       \* the values of a setting
    InitialFiles, \* the kinds of file there may be at the start
    MaxSets,      \* bound: settings set over the whole behaviour
    MaxEvents     \* bound: reloads, edits by the user, failing writes and kills together

Unset   == "unset"      \* undefined, or no such key
Nobody  == "nobody"
Dead    == "dead"       \* the holder of a lock whose process was killed
Places  == Paths \cup DOMAIN Moved \cup {Moved[o] : o \in DOMAIN Moved}
Content == [Places -> Values \cup {Unset}]
File    == [kind: {"absent", "json", "invalid"}, at: Content]
Nothing == [p \in Places |-> Unset]

ASSUME SettingsAssumption ==
    /\ Scopes \subseteq {"global", "project"} /\ Budgets \subseteq DOMAIN Moved
    /\ DOMAIN Moved \cap {Moved[o] : o \in DOMAIN Moved} = {}
    /\ Paths \cap DOMAIN Moved \subseteq Budgets
    /\ \A b \in Budgets : Moved[b] \notin Paths /\ \A o \in DOMAIN Moved : Moved[o] = Moved[b] => o = b
    /\ Unset \notin Values /\ {Nobody, Dead} \cap Managers = {}
    /\ InitialFiles \subseteq File
    /\ MaxSets \in Nat /\ MaxEvents \in Nat

(* migrateSettings: queueMode becomes steeringMode unless that is there,   *)
(* an object of thinking budgets is spread over dotted keys, and so on.    *)
Migrate(c) ==
    LET moves(o) == c[o] # Unset /\ (o \in Budgets \/ c[Moved[o]] = Unset)
        into(p)  == {o \in DOMAIN Moved : Moved[o] = p /\ moves(o)}
    IN  [p \in Places |->
            IF into(p) # {} THEN c[CHOOSE o \in into(p) : TRUE]
            ELSE IF p \in DOMAIN Moved /\ moves(p) THEN Unset ELSE c[p]]

(* Where a file that was migrated has what was set at p: thinking budgets  *)
(* are moved from where they are set.                                      *)
Home(p) == IF p \in Budgets THEN Moved[p] ELSE p

VARIABLES
    disk,       \* scope -> file
    lock,       \* scope -> the manager that holds the lock of the file
    alive,      \* the managers whose process runs
    settings,   \* manager, scope -> globalSettings and projectSettings
    modified,   \* manager, scope -> modifiedFields with modifiedNestedFields, as paths
    loadError,  \* manager -> the scopes whose last load failed
    writeQueue, \* manager -> writes and waiting reloads, in order
    writing,    \* manager -> the content its current write read, and whether under the lock
    errors,     \* manager, scope -> whether an error was recorded, and drained
    sets, events, \* bounds: settings set, and other events, so far
    asked,      \* history: changes a manager may still store (see SharedSettings)
    due         \* history: the last <<path, value>> of each set that no write has stored

settingsVars == <<disk, lock, alive, settings, modified, loadError, writeQueue, writing,
                  errors, sets, events, asked, due>>

NotWriting == [on |-> FALSE, base |-> Nothing, held |-> FALSE]
Task == [kind: {"write"}, scope: Scopes, snapshot: Content, marks: SUBSET Paths]
ReloadTask == [kind |-> "reload", scope |-> "none", snapshot |-> Nothing, marks |-> {}]

SettingsTypeOK ==
    /\ disk \in [Scopes -> File]
    /\ lock \in [Scopes -> Managers \cup {Nobody, Dead}]
    /\ alive \subseteq Managers
    /\ settings \in [Managers -> [Scopes -> Content]]
    /\ modified \in [Managers -> [Scopes -> SUBSET Paths]]
    /\ loadError \in [Managers -> SUBSET Scopes]
    /\ writeQueue \in [Managers -> Seq(Task \cup {ReloadTask})]
    /\ writing \in [Managers -> [on: BOOLEAN, base: Content, held: BOOLEAN]]
    /\ errors \in [Managers -> [Scopes -> {"none", "recorded", "drained"}]]
    /\ sets \in Nat /\ events \in Nat
    /\ asked \in [Managers -> [Scopes -> SUBSET (Places \X Values)]]
    /\ due \in [Managers -> [Scopes -> SUBSET (Paths \X Values)]]

Each(x)  == [m \in Managers |-> x]
PerScope(x) == Each([s \in Scopes |-> x])

SettingsInit ==
    /\ disk \in [Scopes -> InitialFiles]
    /\ lock = [s \in Scopes |-> Nobody]
    /\ alive = {}
    /\ settings = PerScope(Nothing) /\ modified = PerScope({}) /\ loadError = Each({})
    /\ writeQueue = Each(<<>>) /\ writing = Each(NotWriting)
    /\ errors = PerScope("none")
    /\ sets = 0 /\ events = 0
    /\ asked = PerScope({}) /\ due = PerScope({})

Event == events < MaxEvents /\ events' = events + 1 /\ UNCHANGED sets

-----------------------------------------------------------------------------
(* Reading: a file that is locked by another process cannot be read, and   *)
(* after ten tries that is an error like a file that does not parse.       *)
Readable(s) == lock[s] = Nobody \/ disk[s].kind = "absent"

Loaded(s) ==
    [ok |-> Readable(s) /\ disk[s].kind # "invalid",
     content |-> IF Readable(s) /\ disk[s].kind = "json" THEN Migrate(disk[s].at) ELSE Nothing]

(* Mutant of Recorded: the error is swallowed. *)
Swallowed(m, S) == UNCHANGED errors

(* recordError *)
Recorded(m, S) ==
    errors' = [errors EXCEPT ![m] = [s \in Scopes |-> IF s \in S THEN "recorded" ELSE @[s]]]

(* SettingsManager.create *)
Start(m) ==
    LET failed == {s \in Scopes : ~Loaded(s).ok} IN
    /\ m \notin alive
    /\ alive' = alive \cup {m}
    /\ settings' = [settings EXCEPT ![m] = [s \in Scopes |-> Loaded(s).content]]
    /\ loadError' = [loadError EXCEPT ![m] = failed]
    /\ errors' = [errors EXCEPT ![m] = [s \in Scopes |-> IF s \in failed THEN "recorded" ELSE "none"]]
    /\ UNCHANGED <<disk, lock, modified, writeQueue, writing, sets, events, asked, due>>

(* Mutant of QueuedWrite: the write takes every setting along, as it did   *)
(* before modified fields were tracked.                                    *)
WholeWrite(m, s, c, marks) ==
    [kind |-> "write", scope |-> s, snapshot |-> c,
     marks |-> {p \in Paths : c[p] # Unset}]

(* save: the settings and the marks as they are now. *)
QueuedWrite(m, s, c, marks) ==
    [kind |-> "write", scope |-> s, snapshot |-> c, marks |-> marks]

(* setScoped: in memory at once, in the file when the queue comes to it;   *)
(* never when the file could not be loaded.                                *)
SetScoped(m, s, p, v) ==
    LET c     == [settings[m][s] EXCEPT ![p] = v]
        marks == modified[m][s] \cup {p}
    IN
    /\ m \in alive
    /\ sets < MaxSets /\ sets' = sets + 1 /\ UNCHANGED events
    /\ settings' = [settings EXCEPT ![m][s] = c]
    /\ modified' = [modified EXCEPT ![m][s] = marks]
    /\ writeQueue' = IF s \in loadError[m] THEN writeQueue
                     ELSE [writeQueue EXCEPT ![m] = Append(@, QueuedWrite(m, s, c, marks))]
    /\ asked' = [asked EXCEPT ![m][s] = @ \cup {<<Home(p), v>>}]
    /\ due' = [due EXCEPT ![m][s] = {d \in @ : d[1] # p} \cup {<<p, v>>}]
    /\ UNCHANGED <<disk, lock, alive, loadError, writing, errors>>

(* reload: goes on when the writes queued so far are done. *)
Reload(m) ==
    /\ m \in alive
    /\ Event
    /\ writeQueue' = [writeQueue EXCEPT ![m] = Append(@, ReloadTask)]
    /\ UNCHANGED <<disk, lock, alive, settings, modified, loadError, writing, errors, asked, due>>

DrainErrors(m) ==
    /\ m \in alive
    /\ \E s \in Scopes : errors[m][s] = "recorded"
    /\ errors' = [errors EXCEPT ![m] =
                     [s \in Scopes |-> IF @[s] = "recorded" THEN "drained" ELSE @[s]]]
    /\ UNCHANGED <<disk, lock, alive, settings, modified, loadError, writeQueue, writing,
                   sets, events, asked, due>>

-----------------------------------------------------------------------------
(* The write queue: one task after the other, each in the locked section   *)
(* of its file, which other processes may enter before and after.          *)

Current(m)   == Head(writeQueue[m])
HasTask(m, k) == m \in alive /\ writeQueue[m] # <<>> /\ Current(m).kind = k
Later(m, s)  == {k \in 2 .. Len(writeQueue[m]) : writeQueue[m][k].scope = s}
TaskDone(m)  == /\ writeQueue' = [writeQueue EXCEPT ![m] = Tail(@)]
                /\ writing' = [writing EXCEPT ![m] = NotWriting]

(* The bookkeeping of asked when a task that touched scope s is done. *)
SettledAfter(m, s) == IF Later(m, s) = {} THEN {} ELSE asked[m][s]

(* withLock, up to the content handed to the merge; without a file there   *)
(* is nothing to lock yet.                                                 *)
ReadCurrent(m) ==
    LET s == Current(m).scope
        absent == disk[s].kind = "absent"
    IN
    /\ HasTask(m, "write") /\ ~writing[m].on
    /\ Readable(s) /\ disk[s].kind # "invalid"
    /\ lock' = IF absent THEN lock ELSE [lock EXCEPT ![s] = m]
    /\ writing' = [writing EXCEPT ![m] =
                      [on |-> TRUE, base |-> Loaded(s).content, held |-> ~absent]]
    /\ UNCHANGED <<disk, alive, settings, modified, loadError, writeQueue, errors, sets, events, asked, due>>

(* persistScopedSettings: what was modified comes from memory, all the     *)
(* rest from the file, down to the keys of an object.                      *)
Merged(base, t) == [p \in Places |-> IF p \in t.marks THEN t.snapshot[p] ELSE base[p]]

MayWrite(m) ==
    /\ HasTask(m, "write") /\ writing[m].on
    /\ writing[m].held \/ lock[Current(m).scope] = Nobody

(* The file is written, the lock released, and every mark cleared. *)
WriteMerged(m) ==
    LET t == Current(m) IN
    /\ MayWrite(m)
    /\ disk' = [disk EXCEPT ![t.scope] = [kind |-> "json", at |-> Merged(writing[m].base, t)]]
    /\ lock' = [lock EXCEPT ![t.scope] = Nobody]
    /\ modified' = [modified EXCEPT ![m][t.scope] = {}]
    /\ TaskDone(m)
    /\ asked' = [asked EXCEPT ![m][t.scope] = SettledAfter(m, t.scope)]
    /\ due' = [due EXCEPT ![m][t.scope] = @ \ {<<p, t.snapshot[p]>> : p \in t.marks}]
    /\ UNCHANGED <<alive, settings, loadError, errors, sets, events>>

(* What is left of a file whose writing stopped: writeFileSync truncates   *)
(* it first.                                                               *)
DamagedFiles(s) ==
    {[disk EXCEPT ![s] = [kind |-> k, at |-> Nothing]] : k \in {"invalid", "json"}}

(* The lock was not free for ten tries, the file does not parse, or the    *)
(* write throws: the error is recorded, the marks stay for the next write. *)
WriteFails(m) ==
    LET s == Current(m).scope IN
    /\ HasTask(m, "write")
    /\ \/ /\ \/ ~writing[m].on /\ (~Readable(s) \/ disk[s].kind = "invalid")
             \/ writing[m].on /\ ~MayWrite(m)
          /\ UNCHANGED <<disk, sets, events>>
       \/ MayWrite(m) /\ Event /\ disk' \in {disk} \cup DamagedFiles(s)
    /\ lock' = IF writing[m].held THEN [lock EXCEPT ![s] = Nobody] ELSE lock
    /\ Recorded(m, {s})
    /\ TaskDone(m)
    /\ UNCHANGED <<alive, settings, modified, loadError, asked, due>>

(* A reload whose turn has come: all marks are cleared; a scope that       *)
(* cannot be loaded keeps its settings in memory, and is not written.      *)
LoadAgain(m) ==
    LET failed == {s \in Scopes : ~Loaded(s).ok} IN
    /\ HasTask(m, "reload")
    /\ settings' = [settings EXCEPT ![m] =
                       [s \in Scopes |-> IF s \in failed THEN @[s] ELSE Loaded(s).content]]
    /\ loadError' = [loadError EXCEPT ![m] = failed]
    /\ Recorded(m, failed)
    /\ modified' = [modified EXCEPT ![m] = [s \in Scopes |-> {}]]
    /\ TaskDone(m)
    /\ asked' = [asked EXCEPT ![m] = [s \in Scopes |-> SettledAfter(m, s)]]
    /\ UNCHANGED <<disk, lock, alive, sets, events, due>>

(* The process is killed, maybe while it writes; a lock it held stays      *)
(* until the others find it stale.                                         *)
Kill(m) ==
    LET s == Current(m).scope IN
    /\ m \in alive
    /\ Event
    /\ \/ /\ lock' = [t \in Scopes |-> IF lock[t] = m THEN Dead ELSE lock[t]]
          /\ UNCHANGED disk
       \/ MayWrite(m) /\ lock' = [lock EXCEPT ![s] = Dead] /\ disk' \in DamagedFiles(s)
    /\ alive' = alive \ {m}
    /\ settings' = [settings EXCEPT ![m] = [t \in Scopes |-> Nothing]]
    /\ modified' = [modified EXCEPT ![m] = [t \in Scopes |-> {}]]
    /\ loadError' = [loadError EXCEPT ![m] = {}]
    /\ writeQueue' = [writeQueue EXCEPT ![m] = <<>>]
    /\ writing' = [writing EXCEPT ![m] = NotWriting]
    /\ errors' = [errors EXCEPT ![m] = [t \in Scopes |-> "none"]]
    /\ asked' = [asked EXCEPT ![m] = [t \in Scopes |-> {}]]
    /\ due' = [due EXCEPT ![m] = [t \in Scopes |-> {}]]

StaleLockRemoved(s) ==
    /\ lock[s] = Dead
    /\ lock' = [lock EXCEPT ![s] = Nobody]
    /\ UNCHANGED <<disk, alive, settings, modified, loadError, writeQueue, writing, errors,
                   sets, events, asked, due>>

(* The user, or another program, edits the file without the lock. *)
EditFile(s) ==
    /\ lock[s] = Nobody
    /\ Event
    /\ \/ \E p \in Paths, v \in Values :
             disk' = [disk EXCEPT ![s] =
                         [kind |-> "json", at |-> [disk[s].at EXCEPT ![p] = v]]]
       \/ disk' = [disk EXCEPT ![s] = [kind |-> "invalid", at |-> Nothing]]
    /\ UNCHANGED <<lock, alive, settings, modified, loadError, writeQueue, writing, errors,
                   asked, due>>

Work(m) == ReadCurrent(m) \/ WriteMerged(m) \/ WriteFails(m) \/ LoadAgain(m)

SettingsNext ==
    \/ \E m \in Managers : Start(m) \/ Reload(m) \/ DrainErrors(m) \/ Work(m) \/ Kill(m)
    \/ \E m \in Managers, s \in Scopes, p \in Paths, v \in Values : SetScoped(m, s, p, v)
    \/ \E s \in Scopes : StaleLockRemoved(s) \/ EditFile(s)

SettingsSpec == SettingsInit /\ [][SettingsNext]_settingsVars

-----------------------------------------------------------------------------
(* deepMergeSettings, and get with the default of the getter. *)
Effective(m, p) ==
    IF "project" \in Scopes /\ settings[m]["project"][p] # Unset THEN settings[m]["project"][p]
    ELSE IF "global" \in Scopes /\ settings[m]["global"][p] # Unset THEN settings[m]["global"][p]
    ELSE Default[p]

WritesBlind(m, s) == writing[m].on /\ ~writing[m].held /\ Current(m).scope = s
Blind == {ms \in Managers \X Scopes : WritesBlind(ms[1], ms[2])}

Shared == INSTANCE SharedSettings WITH
    stored <- [s \in Scopes |-> [kind |-> disk[s].kind, at |-> Migrate(disk[s].at)]],
    blind  <- Blind

(* The processes use each file as SharedSettings says: a write changes     *)
(* what its process was asked to change and has not stored yet, whatever   *)
(* other processes and the user wrote since the file was loaded; nothing   *)
(* is written over a file that does not parse; only a process that found   *)
(* no file drops what another one put there.                               *)
ImplementsShared == Shared!SharedSpec

(* No change is lost silently: a value that was set and is not in the file *)
(* is on its way there, is marked for the next write, or an error of its   *)
(* file was recorded for the user.                                         *)
LossesReported ==
    \A m \in Managers, s \in Scopes : \A d \in due[m][s] :
        \/ \E k \in 1 .. Len(writeQueue[m]) :
              LET t == writeQueue[m][k]
              IN  t.scope = s /\ d[1] \in t.marks /\ t.snapshot[d[1]] = d[2]
        \/ d[1] \in modified[m][s] /\ settings[m][s][d[1]] = d[2]
        \/ errors[m][s] # "none"

(* A setting the user wrote into the global file as documented takes       *)
(* effect in a process that has loaded the file as it is.                  *)
FileTakesEffect ==
    \A m \in alive : \A p \in Paths :
        /\ "global" \notin loadError[m] /\ writeQueue[m] = <<>>
        /\ disk["global"].kind = "json" /\ settings[m]["global"] = Migrate(disk["global"].at)
        /\ disk["global"].at[p] # Unset
        /\ "project" \in Scopes => settings[m]["project"][p] = Unset
        => Effective(m, p) = disk["global"].at[p]
=============================================================================
