---------------------------- MODULE Stores_proofs ----------------------------
(***************************************************************************)
(* The two stores that processes share through a locked file: the settings *)
(* and the credentials.  They share nothing with each other; the first     *)
(* part is about Settings, the second about AuthStorage.                   *)
(***************************************************************************)
EXTENDS Settings, AuthStorage, SequenceTheorems, TLAPS

(***************************************************************************)
(* The settings files implement SharedSettings, and no change is lost      *)
(* without an error, for any number of processes, settings, values,        *)
(* changes, reloads, edits, failures and kills.                            *)
(*                                                                         *)
(* A write stores what its process was asked for because whatever is       *)
(* marked, in memory or in a queued write, was asked for and has not been  *)
(* given up since; and it stores nothing else because the file it read     *)
(* under the lock is still the one it writes over.                         *)
(***************************************************************************)

(* A process that does not run has nothing in memory. *)
Rests(m) ==
    /\ writeQueue[m] = <<>> /\ writing[m] = NotWriting
    /\ \A s \in Scopes : modified[m][s] = {} /\ due[m][s] = {}

(* What is being written over what: under the lock, the file as it is;     *)
(* without it, a file that was not there.                                  *)
Writes(m) ==
    LET s == Current(m).scope IN
    IF writing[m].on
      THEN /\ HasTask(m, "write") /\ s \in Scopes
           /\ writing[m].held => /\ lock[s] = m /\ disk[s].kind = "json"
                                 /\ writing[m].base = Migrate(disk[s].at)
           /\ ~writing[m].held => writing[m].base = Nothing
      ELSE ~writing[m].held

WritesWhatItRead == \A m \in Managers : Writes(m) /\ (m \notin alive => Rests(m))

(* What the marked settings of c change in a file. *)
Changes(marks, c) == {<<Home(p), c[p]>> : p \in marks}

(* Whatever m may write was asked for. *)
WasAsked(m) ==
    /\ \A s \in Scopes : Changes(modified[m][s], settings[m][s]) \subseteq asked[m][s]
    /\ \A k \in 1 .. Len(writeQueue[m]) :
          LET t == writeQueue[m][k] IN
          t.kind = "write" =>
              t.marks # {} /\ Changes(t.marks, t.snapshot) \subseteq asked[m][t.scope]

OnlyAsked == \A m \in Managers : WasAsked(m)

(* Some queued write of m has value v for the path p of scope s. *)
OnItsWay(m, s, p, v) ==
    \E k \in 1 .. Len(writeQueue[m]) :
        LET t == writeQueue[m][k]
        IN  t.scope = s /\ p \in t.marks /\ t.snapshot[p] = v

(* As long as there was no error, what is marked in memory is also queued: *)
(* only a file that could not be loaded is not written to.                 *)
MarkedAt(m, s) ==
    errors[m][s] = "none" =>
        /\ s \notin loadError[m]
        /\ \A p \in modified[m][s] : OnItsWay(m, s, p, settings[m][s][p])

MarkedIsQueued == \A m \in Managers, s \in Scopes : MarkedAt(m, s)

(* A change is on its way, marked for the next write, or there was an error. *)
Known(m, s, p, v) ==
    \/ OnItsWay(m, s, p, v)
    \/ p \in modified[m][s] /\ settings[m][s][p] = v
    \/ errors[m][s] # "none"

KnownAt(m, s) == \A d \in due[m][s] : Known(m, s, d[1], d[2])

Reported == \A m \in Managers, s \in Scopes : KnownAt(m, s)

SettingsInv ==
    SettingsTypeOK /\ WritesWhatItRead /\ OnlyAsked /\ MarkedIsQueued /\ Reported

-----------------------------------------------------------------------------
(* What the operators return. *)

LEMMA ContentOfPlaces ==
    /\ Paths \subseteq Places /\ DOMAIN Moved \subseteq Places /\ Nothing \in Content
    /\ \A o \in DOMAIN Moved : Moved[o] \in Places /\ Moved[o] \notin DOMAIN Moved
BY SettingsAssumption DEF Places, Nothing, Content

LEMMA MigrateType ==
    ASSUME NEW c \in Content
    PROVE  Migrate(c) \in Content
<1> DEFINE moves(o) == c[o] # Unset /\ (o \in Budgets \/ c[Moved[o]] = Unset)
           into(p)  == {o \in DOMAIN Moved : Moved[o] = p /\ moves(o)}
           value(p) == IF into(p) # {} THEN c[CHOOSE o \in into(p) : TRUE]
                       ELSE IF p \in DOMAIN Moved /\ moves(p) THEN Unset ELSE c[p]
<1>1. ASSUME NEW p \in Places PROVE value(p) \in Values \cup {Unset}
  <2>1. CASE into(p) # {}
    <3>1. (CHOOSE o \in into(p) : TRUE) \in into(p)
      BY <2>1
    <3> QED
      BY <2>1, <3>1, ContentOfPlaces DEF Content
  <2>2. CASE into(p) = {}
    BY <1>1, <2>2 DEF Content
  <2> QED
    BY <2>1, <2>2
<1>2. Migrate(c) = [p \in Places |-> value(p)]
  BY DEF Migrate
<1> HIDE DEF value
<1> QED
  BY <1>1, <1>2 DEF Content

LEMMA LoadedType ==
    ASSUME SettingsTypeOK, NEW s \in Scopes
    PROVE  Loaded(s).content \in Content /\ Loaded(s).ok \in BOOLEAN
BY MigrateType, ContentOfPlaces DEF Loaded, SettingsTypeOK, File, Readable

(* Each setting has a home of its own. *)
LEMMA HomesDiffer ==
    /\ \A p \in Paths : Home(p) \in Places
    /\ \A p, q \in Paths : Home(p) = Home(q) => p = q
    /\ \A p, q \in Paths : Home(p) = q => p = q /\ p \notin Budgets
<1>1. /\ \A p \in Paths : p \in Places
      /\ \A b \in Budgets : b \in DOMAIN Moved /\ Moved[b] \in Places /\ Moved[b] \notin Paths
      /\ \A b \in Budgets, o \in DOMAIN Moved : Moved[o] = Moved[b] => o = b
  BY ContentOfPlaces, SettingsAssumption
<1> QED
  BY <1>1 DEF Home

(* What was migrated has no thinking budgets at old places, and another    *)
(* old place is set only if the new one is set too.                        *)
LEMMA Migrated ==
    ASSUME NEW c \in Content
    PROVE  /\ \A o \in Budgets : Migrate(c)[o] = Unset
           /\ \A o \in DOMAIN Moved : Migrate(c)[o] # Unset => Migrate(c)[Moved[o]] # Unset
<1> DEFINE moves(o) == c[o] # Unset /\ (o \in Budgets \/ c[Moved[o]] = Unset)
           into(p)  == {o \in DOMAIN Moved : Moved[o] = p /\ moves(o)}
<1>1. ASSUME NEW o \in DOMAIN Moved
      PROVE  /\ o \in Places /\ Moved[o] \in Places
             /\ Migrate(c)[o] = IF moves(o) THEN Unset ELSE c[o]
  <2>1. o \in Places /\ into(o) = {} /\ Moved[o] \in Places
    BY <1>1, ContentOfPlaces
  <2> QED
    BY <1>1, <2>1 DEF Migrate
<1>2. ASSUME NEW o \in Budgets PROVE Migrate(c)[o] = Unset
  BY <1>1, <1>2, SettingsAssumption
<1>3. ASSUME NEW o \in DOMAIN Moved, Migrate(c)[o] # Unset PROVE Migrate(c)[Moved[o]] # Unset
  <2> DEFINE q == Moved[o]
  <2>1. c[q] # Unset /\ q \notin DOMAIN Moved
    BY <1>1, <1>3, ContentOfPlaces
  <2>2. Migrate(c)[q] = IF into(q) # {} THEN c[CHOOSE x \in into(q) : TRUE] ELSE c[q]
    <3>1. q \in Places /\ q \notin DOMAIN Moved
      BY <1>1, <2>1
    <3> HIDE DEF q
    <3> QED
      BY <3>1 DEF Migrate
  <2>3. CASE into(q) # {}
    <3>1. (CHOOSE x \in into(q) : TRUE) \in into(q)
      BY <2>3
    <3> QED
      BY <2>2, <2>3, <3>1
  <2> QED
    BY <2>1, <2>2, <2>3
<1> QED
  BY <1>2, <1>3


-----------------------------------------------------------------------------
(* Types. *)

LEMMA TaskType ==
    ASSUME SettingsTypeOK, NEW m \in Managers, writeQueue[m] # <<>>
    PROVE  /\ Current(m) \in Task \cup {ReloadTask}
           /\ Current(m).kind = "write" =>
                 /\ Current(m) \in Task /\ Current(m).scope \in Scopes
                 /\ Current(m).snapshot \in Content /\ Current(m).marks \subseteq Paths
           /\ Current(m).kind = "reload" => Current(m) = ReloadTask
           /\ Tail(writeQueue[m]) \in Seq(Task \cup {ReloadTask})
<1>1. writeQueue[m] \in Seq(Task \cup {ReloadTask})
  BY DEF SettingsTypeOK
<1>2. Head(writeQueue[m]) \in Task \cup {ReloadTask} /\ Tail(writeQueue[m]) \in Seq(Task \cup {ReloadTask})
  BY <1>1
<1>3. /\ \A t \in Task : t.kind = "write" /\ t.scope \in Scopes /\ t.snapshot \in Content
                          /\ t.marks \subseteq Paths
      /\ ReloadTask.kind = "reload"
  BY DEF Task, ReloadTask
<1> HIDE DEF Task
<1> QED
  BY <1>2, <1>3 DEF Current

LEMMA MergedType ==
    ASSUME NEW c \in Content, NEW t \in Task
    PROVE  Merged(c, t) \in Content
BY ContentOfPlaces DEF Merged, Content, Task

LEMMA DamagedType ==
    ASSUME SettingsTypeOK, NEW s \in Scopes
    PROVE  DamagedFiles(s) \subseteq [Scopes -> File]
<1>1. ASSUME NEW k \in {"invalid", "json"}
      PROVE  [disk EXCEPT ![s] = [kind |-> k, at |-> Nothing]] \in [Scopes -> File]
  <2>1. [kind |-> k, at |-> Nothing] \in File
    BY ContentOfPlaces DEF File
  <2> HIDE DEF File
  <2> QED
    BY <2>1 DEF SettingsTypeOK
<1> QED
  BY <1>1 DEF DamagedFiles

LEMMA StartTypes ==
    ASSUME SettingsTypeOK, NEW m \in Managers, Start(m)
    PROVE  SettingsTypeOK'
<1>1. [s \in Scopes |-> Loaded(s).content] \in [Scopes -> Content]
  BY LoadedType
<1> QED
  BY <1>1 DEF SettingsTypeOK, Start

LEMMA SetTypes ==
    ASSUME SettingsTypeOK, NEW m \in Managers, NEW s \in Scopes, NEW p \in Paths, NEW v \in Values,
           SetScoped(m, s, p, v)
    PROVE  SettingsTypeOK'
<1> DEFINE c     == [settings[m][s] EXCEPT ![p] = v]
           marks == modified[m][s] \cup {p}
           w     == QueuedWrite(m, s, c, marks)
<1>1. c \in Content /\ marks \in SUBSET Paths /\ w \in Task
  BY ContentOfPlaces DEF SettingsTypeOK, Content, QueuedWrite, Task
<1>2. writeQueue' \in [Managers -> Seq(Task \cup {ReloadTask})]
  BY <1>1 DEF SettingsTypeOK, SetScoped
<1>3. /\ settings' = [settings EXCEPT ![m][s] = c]
      /\ modified' = [modified EXCEPT ![m][s] = marks]
  BY DEF SetScoped
<1> HIDE DEF c, marks, w
<1>4. settings' \in [Managers -> [Scopes -> Content]] /\ modified' \in [Managers -> [Scopes -> SUBSET Paths]]
  BY <1>1, <1>3 DEF SettingsTypeOK
<1>5. asked' \in [Managers -> [Scopes -> SUBSET (Places \X Values)]]
  BY HomesDiffer DEF SettingsTypeOK, SetScoped
<1>6. due' \in [Managers -> [Scopes -> SUBSET (Paths \X Values)]]
  BY DEF SettingsTypeOK, SetScoped
<1> QED
  BY <1>2, <1>4, <1>5, <1>6 DEF SettingsTypeOK, SetScoped

LEMMA WorkTypes ==
    ASSUME SettingsTypeOK, NEW m \in Managers, Work(m)
    PROVE  SettingsTypeOK'
<1> DEFINE s == Current(m).scope
<1>1. CASE ReadCurrent(m)
  <2>1. s \in Scopes /\ Loaded(s).content \in Content
    BY <1>1, TaskType, LoadedType DEF ReadCurrent, HasTask
  <2> QED
    BY <1>1, <2>1 DEF SettingsTypeOK, ReadCurrent
<1>2. CASE WriteMerged(m)
  <2>1. s \in Scopes /\ Current(m) \in Task /\ Merged(writing[m].base, Current(m)) \in Content
        /\ Tail(writeQueue[m]) \in Seq(Task \cup {ReloadTask})
    BY <1>2, TaskType, MergedType DEF WriteMerged, MayWrite, HasTask, SettingsTypeOK
  <2>2. disk' \in [Scopes -> File] /\ lock' \in [Scopes -> Managers \cup {Nobody, Dead}]
    BY <1>2, <2>1 DEF SettingsTypeOK, WriteMerged, File
  <2>3. /\ modified' \in [Managers -> [Scopes -> SUBSET Paths]]
        /\ asked' \in [Managers -> [Scopes -> SUBSET (Places \X Values)]]
    BY <1>2, <2>1 DEF SettingsTypeOK, WriteMerged, SettledAfter
  <2>4. due' \in [Managers -> [Scopes -> SUBSET (Paths \X Values)]]
    BY <1>2, <2>1 DEF SettingsTypeOK, WriteMerged
  <2>5. /\ writeQueue' \in [Managers -> Seq(Task \cup {ReloadTask})]
        /\ writing' \in [Managers -> [on: BOOLEAN, base: Content, held: BOOLEAN]]
    BY <1>2, <2>1, ContentOfPlaces DEF SettingsTypeOK, WriteMerged, TaskDone, NotWriting
  <2> QED
    BY <1>2, <2>2, <2>3, <2>4, <2>5 DEF SettingsTypeOK, WriteMerged
<1>3. CASE WriteFails(m)
  <2>1. s \in Scopes /\ Tail(writeQueue[m]) \in Seq(Task \cup {ReloadTask})
    BY <1>3, TaskType DEF WriteFails, HasTask
  <2>2. disk' \in [Scopes -> File] /\ events' \in Nat /\ sets' \in Nat
    BY <1>3, <2>1, DamagedType DEF SettingsTypeOK, WriteFails, Event
  <2>3. /\ writeQueue' \in [Managers -> Seq(Task \cup {ReloadTask})]
        /\ writing' \in [Managers -> [on: BOOLEAN, base: Content, held: BOOLEAN]]
    BY <1>3, <2>1, ContentOfPlaces DEF SettingsTypeOK, WriteFails, TaskDone, NotWriting
  <2>4. errors' \in [Managers -> [Scopes -> {"none", "recorded", "drained"}]]
    BY <1>3 DEF SettingsTypeOK, WriteFails, Recorded
  <2>5. lock' \in [Scopes -> Managers \cup {Nobody, Dead}]
    BY <1>3, <2>1 DEF SettingsTypeOK, WriteFails
  <2> QED
    BY <1>3, <2>2, <2>3, <2>4, <2>5 DEF SettingsTypeOK, WriteFails
<1>4. CASE LoadAgain(m)
  <2>1. Tail(writeQueue[m]) \in Seq(Task \cup {ReloadTask})
    BY <1>4, TaskType DEF LoadAgain, HasTask
  <2>2. /\ writeQueue' \in [Managers -> Seq(Task \cup {ReloadTask})]
        /\ writing' \in [Managers -> [on: BOOLEAN, base: Content, held: BOOLEAN]]
    BY <1>4, <2>1, ContentOfPlaces DEF SettingsTypeOK, LoadAgain, TaskDone, NotWriting
  <2>3. /\ settings' \in [Managers -> [Scopes -> Content]]
    BY <1>4, LoadedType DEF SettingsTypeOK, LoadAgain
  <2>4. /\ errors' \in [Managers -> [Scopes -> {"none", "recorded", "drained"}]]
        /\ loadError' \in [Managers -> SUBSET Scopes]
    BY <1>4 DEF SettingsTypeOK, LoadAgain, Recorded
  <2>5. /\ modified' \in [Managers -> [Scopes -> SUBSET Paths]]
        /\ asked' \in [Managers -> [Scopes -> SUBSET (Places \X Values)]]
    BY <1>4 DEF SettingsTypeOK, LoadAgain, SettledAfter
  <2> QED
    BY <1>4, <2>2, <2>3, <2>4, <2>5 DEF SettingsTypeOK, LoadAgain
<1> QED
  BY <1>1, <1>2, <1>3, <1>4 DEF Work

LEMMA KillTypes ==
    ASSUME SettingsTypeOK, NEW m \in Managers, Kill(m)
    PROVE  SettingsTypeOK'
<1>1. disk' \in [Scopes -> File] /\ lock' \in [Scopes -> Managers \cup {Nobody, Dead}]
  <2>1. CASE MayWrite(m) /\ lock' = [lock EXCEPT ![Current(m).scope] = Dead]
             /\ disk' \in DamagedFiles(Current(m).scope)
    <3>1. Current(m).scope \in Scopes
      BY <2>1, TaskType DEF MayWrite, HasTask
    <3> QED
      BY <2>1, <3>1, DamagedType DEF SettingsTypeOK
  <2>2. CASE lock' = [t \in Scopes |-> IF lock[t] = m THEN Dead ELSE lock[t]] /\ UNCHANGED disk
    BY <2>2 DEF SettingsTypeOK
  <2> QED
    BY <2>1, <2>2 DEF Kill
<1>2. events' \in Nat /\ sets' \in Nat
  BY DEF Kill, Event, SettingsTypeOK
<1>3. /\ settings' \in [Managers -> [Scopes -> Content]]
      /\ writing' \in [Managers -> [on: BOOLEAN, base: Content, held: BOOLEAN]]
  BY ContentOfPlaces DEF Kill, SettingsTypeOK, NotWriting
<1>4. /\ modified' \in [Managers -> [Scopes -> SUBSET Paths]]
      /\ loadError' \in [Managers -> SUBSET Scopes]
      /\ errors' \in [Managers -> [Scopes -> {"none", "recorded", "drained"}]]
      /\ alive' \subseteq Managers
  BY DEF Kill, SettingsTypeOK
<1>5. writeQueue' \in [Managers -> Seq(Task \cup {ReloadTask})]
  BY DEF Kill, SettingsTypeOK
<1>6. /\ asked' \in [Managers -> [Scopes -> SUBSET (Places \X Values)]]
      /\ due' \in [Managers -> [Scopes -> SUBSET (Paths \X Values)]]
  BY DEF Kill, SettingsTypeOK
<1> QED
  BY <1>1, <1>2, <1>3, <1>4, <1>5, <1>6 DEF SettingsTypeOK

LEMMA OtherTypes ==
    ASSUME SettingsTypeOK,
           \/ \E m \in Managers : Reload(m) \/ DrainErrors(m)
           \/ \E s \in Scopes : StaleLockRemoved(s) \/ EditFile(s)
           \/ UNCHANGED settingsVars
    PROVE  SettingsTypeOK'
<1>1. ASSUME NEW m \in Managers, Reload(m) PROVE SettingsTypeOK'
  BY <1>1 DEF SettingsTypeOK, Reload, Event
<1>2. ASSUME NEW m \in Managers, DrainErrors(m) PROVE SettingsTypeOK'
  BY <1>2 DEF SettingsTypeOK, DrainErrors
<1>3. ASSUME NEW s \in Scopes, StaleLockRemoved(s) PROVE SettingsTypeOK'
  BY <1>3 DEF SettingsTypeOK, StaleLockRemoved
<1>4. ASSUME NEW s \in Scopes, EditFile(s) PROVE SettingsTypeOK'
  <2>1. disk' \in [Scopes -> File]
    <3>1. \A p \in Paths, v \in Values : [disk[s].at EXCEPT ![p] = v] \in Content
      BY ContentOfPlaces DEF SettingsTypeOK, File, Content
    <3>2. /\ \A c \in Content : [kind |-> "json", at |-> c] \in File
          /\ [kind |-> "invalid", at |-> Nothing] \in File
      BY ContentOfPlaces DEF File
    <3>3. \A f \in File : [disk EXCEPT ![s] = f] \in [Scopes -> File]
      BY DEF SettingsTypeOK
    <3> QED
      BY <1>4, <3>1, <3>2, <3>3 DEF EditFile
  <2> QED
    BY <1>4, <2>1 DEF SettingsTypeOK, EditFile, Event
<1>5. CASE UNCHANGED settingsVars
  BY <1>5 DEF SettingsTypeOK, settingsVars
<1> QED
  BY <1>1, <1>2, <1>3, <1>4, <1>5

LEMMA SettingsTypes == SettingsTypeOK /\ [SettingsNext]_settingsVars => SettingsTypeOK'
BY StartTypes, SetTypes, WorkTypes, KillTypes, OtherTypes DEF SettingsNext

LEMMA SettingsTypesInit == SettingsInit => SettingsTypeOK
<1> SUFFICES ASSUME SettingsInit PROVE SettingsTypeOK
  OBVIOUS
<1>1. \A m \in Managers : <<>> \in Seq(Task \cup {ReloadTask})
  OBVIOUS
<1> QED
  BY <1>1, SettingsAssumption, ContentOfPlaces
     DEF SettingsInit, SettingsTypeOK, PerScope, Each, NotWriting


-----------------------------------------------------------------------------
(* Queues. *)

LEMMA QueueAppended ==
    ASSUME NEW q \in Seq(Task \cup {ReloadTask}), NEW t \in Task \cup {ReloadTask}
    PROVE  /\ Len(Append(q, t)) = Len(q) + 1 /\ Len(q) \in Nat
           /\ \A k \in 1 .. Len(q) : Append(q, t)[k] = q[k]
           /\ Append(q, t)[Len(q) + 1] = t
           /\ Append(q, t) # <<>>
           /\ q # <<>> => Head(Append(q, t)) = Head(q)
<1>1. /\ Len(Append(q, t)) = Len(q) + 1 /\ Len(q) \in Nat
      /\ \A k \in 1 .. Len(q) : Append(q, t)[k] = q[k]
      /\ Append(q, t)[Len(q) + 1] = t
  BY LenProperties
<1>2. Append(q, t) # <<>>
  BY <1>1
<1>3. ASSUME q # <<>> PROVE Head(Append(q, t)) = Head(q)
  <2>1. Len(q) # 0
    BY <1>3, EmptySeq
  <2> QED
    BY <1>1, <2>1
<1> QED
  BY <1>1, <1>2, <1>3

LEMMA QueueMovesOn ==
    ASSUME SettingsTypeOK, NEW m \in Managers, writeQueue[m] # <<>>
    PROVE  LET q == writeQueue[m] IN
           /\ Len(q) \in Nat \ {0} /\ Len(Tail(q)) = Len(q) - 1
           /\ \A k \in 1 .. Len(Tail(q)) : k + 1 \in 2 .. Len(q) /\ Tail(q)[k] = q[k + 1]
           /\ \A k \in 2 .. Len(q) : k - 1 \in 1 .. Len(Tail(q)) /\ Tail(q)[k - 1] = q[k]
           /\ Current(m) = q[1]
<1>1. writeQueue[m] \in Seq(Task \cup {ReloadTask})
  BY DEF SettingsTypeOK
<1> HIDE DEF Task, ReloadTask
<1> QED
  BY <1>1 DEF Current

LEMMA QueueType ==
    ASSUME SettingsTypeOK, NEW m \in Managers
    PROVE  /\ writeQueue[m] \in Seq(Task \cup {ReloadTask}) /\ Len(writeQueue[m]) \in Nat
           /\ \A k \in 1 .. Len(writeQueue[m]) : writeQueue[m][k] \in Task \cup {ReloadTask}
<1>1. writeQueue[m] \in Seq(Task \cup {ReloadTask})
  BY DEF SettingsTypeOK
<1> QED
  BY <1>1, LenProperties

-----------------------------------------------------------------------------
(* What the steps of one process leave alone in another. *)

Memory(n) ==
    <<settings[n], modified[n], writeQueue[n], errors[n], loadError[n], asked[n], due[n]>>

MemoryInv(n) == WasAsked(n) /\ \A s \in Scopes : MarkedAt(n, s) /\ KnownAt(n, s)

LEMMA MemoryKept ==
    ASSUME NEW n \in Managers, MemoryInv(n), UNCHANGED Memory(n)
    PROVE  MemoryInv(n)'
<1>1. /\ settings'[n] = settings[n] /\ modified'[n] = modified[n] /\ writeQueue'[n] = writeQueue[n]
      /\ errors'[n] = errors[n] /\ loadError'[n] = loadError[n] /\ asked'[n] = asked[n]
      /\ due'[n] = due[n]
  BY DEF Memory
<1>2. \A s, p, v : OnItsWay(n, s, p, v)' <=> OnItsWay(n, s, p, v)
  BY <1>1 DEF OnItsWay
<1>3. WasAsked(n)'
  BY <1>1 DEF MemoryInv, WasAsked
<1>4. \A s \in Scopes : MarkedAt(n, s)'
  BY <1>1, <1>2 DEF MemoryInv, MarkedAt
<1>5. \A s \in Scopes : KnownAt(n, s)'
  BY <1>1, <1>2 DEF MemoryInv, KnownAt, Known
<1> QED
  BY <1>3, <1>4, <1>5 DEF MemoryInv

LEMMA WritesKept ==
    ASSUME NEW n \in Managers, Writes(n), writing'[n] = writing[n], n \in alive => n \in alive',
           writeQueue[n] # <<>> => writeQueue'[n] # <<>> /\ Head(writeQueue'[n]) = Head(writeQueue[n]),
           writing[n].on /\ writing[n].held =>
               LET s == Current(n).scope IN lock'[s] = lock[s] /\ disk'[s] = disk[s]
    PROVE  Writes(n)'
<1>1. CASE writing[n].on
  <2>1. HasTask(n, "write") /\ writeQueue[n] # <<>>
    BY <1>1 DEF Writes, HasTask
  <2>2. Current(n)' = Current(n)
    BY <2>1 DEF Current
  <2> QED
    BY <1>1, <2>1, <2>2 DEF Writes, HasTask
<1>2. CASE ~writing[n].on
  BY <1>2 DEF Writes
<1> QED
  BY <1>1, <1>2

LEMMA RestsKept ==
    ASSUME NEW n \in Managers, Rests(n), UNCHANGED Memory(n), writing'[n] = writing[n]
    PROVE  Rests(n)'
BY DEF Rests, Memory

LEMMA InvOfParts ==
    ASSUME SettingsTypeOK'
    PROVE  SettingsInv' <=> \A n \in Managers :
               MemoryInv(n)' /\ Writes(n)' /\ (n \notin alive' => Rests(n)')
BY DEF SettingsInv, WritesWhatItRead, OnlyAsked, MarkedIsQueued, Reported, MemoryInv

LEMMA PartsOfInv ==
    ASSUME SettingsInv
    PROVE  /\ SettingsTypeOK
           /\ \A n \in Managers : MemoryInv(n) /\ Writes(n) /\ (n \notin alive => Rests(n))
BY DEF SettingsInv, WritesWhatItRead, OnlyAsked, MarkedIsQueued, Reported, MemoryInv


(* A step of m leaves to n what n has, and the file that n is writing. *)
Leaves(n) ==
    /\ UNCHANGED Memory(n) /\ writing'[n] = writing[n] /\ (n \in alive' <=> n \in alive)
    /\ writing[n].on /\ writing[n].held =>
           LET s == Current(n).scope IN lock'[s] = lock[s] /\ disk'[s] = disk[s]

LEMMA OneMoves ==
    ASSUME SettingsInv, SettingsTypeOK', NEW m \in Managers,
           \A n \in Managers \ {m} : Leaves(n),
           MemoryInv(m)', Writes(m)', m \notin alive' => Rests(m)'
    PROVE  SettingsInv'
<1>1. ASSUME NEW n \in Managers, Leaves(n)
      PROVE  MemoryInv(n)' /\ Writes(n)' /\ (n \notin alive' => Rests(n)')
  <2>1. /\ MemoryInv(n) /\ Writes(n) /\ (n \notin alive => Rests(n))
        /\ UNCHANGED Memory(n) /\ writing'[n] = writing[n] /\ (n \in alive' <=> n \in alive)
        /\ writeQueue'[n] = writeQueue[n]
    BY <1>1, PartsOfInv DEF Leaves, Memory
  <2>2. MemoryInv(n)'
    BY <2>1, MemoryKept
  <2>3. Writes(n)'
    BY <1>1, <2>1, WritesKept DEF Leaves
  <2>4. n \notin alive' => Rests(n)'
    BY <2>1, RestsKept
  <2> QED
    BY <2>2, <2>3, <2>4
<1> QED
  BY <1>1, InvOfParts

LEMMA StartInv ==
    ASSUME SettingsInv, SettingsTypeOK', NEW m \in Managers, Start(m)
    PROVE  SettingsInv'
<1>1. SettingsTypeOK /\ Writes(m) /\ Rests(m)
  BY PartsOfInv DEF Start
<1>2. \A n \in Managers \ {m} : Leaves(n)
  BY <1>1 DEF Leaves, Memory, Start, SettingsTypeOK
<1>3. writeQueue' = writeQueue /\ modified' = modified /\ due' = due /\ writing' = writing
  BY DEF Start
<1>4. Writes(m)'
  BY <1>1, <1>3 DEF Rests, NotWriting, Writes
<1>5. MemoryInv(m)'
  <2>1. /\ writeQueue'[m] = <<>> /\ Len(writeQueue'[m]) = 0
        /\ \A s \in Scopes : modified'[m][s] = {} /\ due'[m][s] = {}
    BY <1>1, <1>3, EmptySeq DEF Rests
  <2>2. WasAsked(m)'
    BY <2>1 DEF WasAsked, Changes
  <2>3. ASSUME NEW s \in Scopes PROVE MarkedAt(m, s)'
    <3>1. errors'[m][s] = "none" => s \notin loadError'[m]
      BY <1>1 DEF Start, SettingsTypeOK
    <3> QED
      BY <2>1, <3>1 DEF MarkedAt
  <2>4. \A s \in Scopes : KnownAt(m, s)'
    BY <2>1 DEF KnownAt
  <2> QED
    BY <2>2, <2>3, <2>4 DEF MemoryInv
<1>6. m \in alive'
  BY DEF Start
<1> QED
  BY <1>2, <1>4, <1>5, <1>6, OneMoves

LEMMA SetInv ==
    ASSUME SettingsInv, SettingsTypeOK', NEW m \in Managers, NEW s \in Scopes, NEW p \in Paths,
           NEW v \in Values, SetScoped(m, s, p, v)
    PROVE  SettingsInv'
<1> DEFINE c     == [settings[m][s] EXCEPT ![p] = v]
           marks == modified[m][s] \cup {p}
           w     == QueuedWrite(m, s, c, marks)
           q     == writeQueue[m]
<1>1. /\ SettingsTypeOK /\ MemoryInv(m) /\ Writes(m) /\ m \in alive /\ m \in alive'
      /\ writing' = writing /\ errors' = errors /\ loadError' = loadError
      /\ lock' = lock /\ disk' = disk /\ alive' = alive
  BY PartsOfInv DEF SetScoped
<1>2. \A n \in Managers \ {m} : Leaves(n)
  BY <1>1 DEF Leaves, Memory, SetScoped, SettingsTypeOK
<1>3. /\ settings'[m][s] = c /\ \A t \in Scopes \ {s} : settings'[m][t] = settings[m][t]
      /\ modified'[m][s] = marks /\ \A t \in Scopes \ {s} : modified'[m][t] = modified[m][t]
      /\ asked'[m][s] = asked[m][s] \cup {<<Home(p), v>>}
      /\ \A t \in Scopes \ {s} : asked'[m][t] = asked[m][t]
      /\ due'[m][s] = {d \in due[m][s] : d[1] # p} \cup {<<p, v>>}
      /\ \A t \in Scopes \ {s} : due'[m][t] = due[m][t]
      /\ writeQueue'[m] = IF s \in loadError[m] THEN q ELSE Append(q, w)
  BY <1>1 DEF SetScoped, SettingsTypeOK
<1>4. /\ c[p] = v /\ \A r \in Paths \ {p} : c[r] = settings[m][s][r]
      /\ marks \subseteq Paths /\ c \in Content
  BY <1>1, ContentOfPlaces DEF SettingsTypeOK, Content
<1>5. /\ w \in Task /\ w.kind = "write" /\ w.scope = s /\ w.marks = marks /\ w.snapshot = c
      /\ w \in Task \cup {ReloadTask}
  BY <1>4 DEF QueuedWrite, Task
<1>6. q \in Seq(Task \cup {ReloadTask})
  BY <1>1, QueueType
<1>7. /\ Len(Append(q, w)) = Len(q) + 1 /\ Len(q) \in Nat
      /\ \A k \in 1 .. Len(q) : Append(q, w)[k] = q[k]
      /\ Append(q, w)[Len(q) + 1] = w
      /\ Append(q, w) # <<>>
      /\ q # <<>> => Head(Append(q, w)) = Head(q)
  BY <1>5, <1>6, QueueAppended
<1> HIDE DEF c, marks, w
<1>8. Writes(m)'
  BY <1>1, <1>3, <1>7, WritesKept DEF Leaves
<1>9. /\ Len(writeQueue'[m]) \in Nat /\ Len(q) \in Nat /\ Len(q) <= Len(writeQueue'[m])
      /\ \A k \in 1 .. Len(q) : k \in 1 .. Len(writeQueue'[m]) /\ writeQueue'[m][k] = q[k]
      /\ \A k \in 1 .. Len(writeQueue'[m]) : k \in 1 .. Len(q) \/ writeQueue'[m][k] = w
      /\ s \notin loadError[m] => \E k \in 1 .. Len(writeQueue'[m]) : writeQueue'[m][k] = w
  BY <1>3, <1>7
<1>10. \A t, r, x : OnItsWay(m, t, r, x) => OnItsWay(m, t, r, x)'
  BY <1>9 DEF OnItsWay
<1>11. Changes(marks, c) \subseteq asked'[m][s]
  <2>1. Changes(modified[m][s], settings[m][s]) \subseteq asked[m][s]
    BY <1>1 DEF MemoryInv, WasAsked
  <2>2. ASSUME NEW r \in marks PROVE <<Home(r), c[r]>> \in asked'[m][s]
    <3>1. CASE r = p
      BY <1>3, <1>4, <3>1
    <3>2. CASE r # p
      BY <1>3, <1>4, <2>1, <3>2 DEF Changes, marks
    <3> QED
      BY <3>1, <3>2
  <2> QED
    BY <2>2 DEF Changes
<1>12. WasAsked(m)'
  <2>1. \A t \in Scopes : Changes(modified'[m][t], settings'[m][t]) \subseteq asked'[m][t]
    BY <1>1, <1>3, <1>11 DEF MemoryInv, WasAsked
  <2>2. ASSUME NEW k \in 1 .. Len(writeQueue'[m]), writeQueue'[m][k].kind = "write"
        PROVE  /\ writeQueue'[m][k].marks # {}
               /\ Changes(writeQueue'[m][k].marks, writeQueue'[m][k].snapshot)
                      \subseteq asked'[m][writeQueue'[m][k].scope]
    <3>1. CASE writeQueue'[m][k] = w
      <4>1. marks # {}
        BY DEF marks
      <4> QED
        BY <1>5, <1>11, <3>1, <4>1
    <3>2. CASE k \in 1 .. Len(q) /\ writeQueue'[m][k] = q[k]
      <4>1. /\ q[k].marks # {} /\ Changes(q[k].marks, q[k].snapshot) \subseteq asked[m][q[k].scope]
            /\ q[k] \in Task \cup {ReloadTask}
        BY <1>1, <2>2, <3>2, QueueType DEF MemoryInv, WasAsked
      <4>2. q[k].scope \in Scopes
        BY <2>2, <3>2, <4>1 DEF Task, ReloadTask
      <4>3. asked[m][q[k].scope] \subseteq asked'[m][q[k].scope]
        BY <1>3, <4>2
      <4> QED
        BY <3>2, <4>1, <4>3
    <3> QED
      BY <1>9, <2>2, <3>1, <3>2
  <2> QED
    BY <2>1, <2>2 DEF WasAsked
<1>13. ASSUME NEW t \in Scopes PROVE MarkedAt(m, t)'
  <2>1. CASE t # s
    BY <1>1, <1>3, <1>10, <2>1 DEF MemoryInv, MarkedAt
  <2>2. CASE t = s
    <3> SUFFICES ASSUME errors[m][s] = "none"
                 PROVE  /\ s \notin loadError[m]
                        /\ \A r \in marks : \A x : x = c[r] => OnItsWay(m, s, r, x)'
      BY <1>1, <1>3, <2>2 DEF MarkedAt
    <3>1. s \notin loadError[m]
      BY <1>1 DEF MemoryInv, MarkedAt
    <3>2. \A r \in marks : \A x : x = c[r] => OnItsWay(m, s, r, x)'
      BY <1>5, <1>9, <3>1 DEF OnItsWay
    <3> QED
      BY <3>1, <3>2
  <2> QED
    BY <2>1, <2>2
<1>14. ASSUME NEW t \in Scopes PROVE KnownAt(m, t)'
  <2> SUFFICES ASSUME NEW d \in due'[m][t] PROVE Known(m, t, d[1], d[2])'
    BY DEF KnownAt
  <2>1. CASE t # s
    BY <1>1, <1>3, <1>10, <2>1 DEF MemoryInv, KnownAt, Known
  <2>2. CASE t = s /\ d = <<p, v>>
    BY <1>3, <1>4, <2>2 DEF Known, marks
  <2>3. CASE t = s /\ d \in due[m][s] /\ d[1] # p
    <3>1. Known(m, s, d[1], d[2]) /\ d[1] \in Paths
      BY <1>1, <2>3 DEF MemoryInv, KnownAt, SettingsTypeOK
    <3>2. d[1] \in modified[m][s] => d[1] \in modified'[m][s] /\ settings'[m][s][d[1]] = settings[m][s][d[1]]
      BY <1>3, <1>4, <2>3, <3>1 DEF marks
    <3> QED
      BY <1>1, <1>10, <2>3, <3>1, <3>2 DEF Known
  <2> QED
    BY <1>3, <2>1, <2>2, <2>3
<1>15. MemoryInv(m)'
  BY <1>12, <1>13, <1>14 DEF MemoryInv
<1> QED
  BY <1>1, <1>2, <1>8, <1>15, OneMoves


(* What is locked by one is written by nobody else. *)
LEMMA LockExcludes ==
    ASSUME SettingsInv, NEW m \in Managers, NEW n \in Managers \ {m}, NEW s \in Scopes,
           lock[s] \in {m, Nobody, Dead}, writing[n].on, writing[n].held
    PROVE  Current(n).scope # s /\ Current(n).scope \in Scopes /\ writeQueue[n] # <<>>
           /\ lock[Current(n).scope] = n
BY PartsOfInv, SettingsAssumption DEF Writes, HasTask

LEMMA ReadInv ==
    ASSUME SettingsInv, SettingsTypeOK', NEW m \in Managers, ReadCurrent(m)
    PROVE  SettingsInv'
<1> DEFINE s == Current(m).scope
<1>1. /\ SettingsTypeOK /\ MemoryInv(m) /\ HasTask(m, "write") /\ s \in Scopes
  BY PartsOfInv, TaskType DEF ReadCurrent, HasTask
<1>2. /\ UNCHANGED <<disk, alive, settings, modified, loadError, writeQueue, errors, asked, due>>
      /\ lock' = IF disk[s].kind = "absent" THEN lock ELSE [lock EXCEPT ![s] = m]
      /\ writing'[m] = [on |-> TRUE, base |-> Loaded(s).content, held |-> disk[s].kind # "absent"]
      /\ \A n \in Managers \ {m} : writing'[n] = writing[n]
      /\ disk[s].kind = "absent" \/ lock[s] = Nobody
      /\ disk[s].kind # "invalid"
  BY <1>1 DEF ReadCurrent, SettingsTypeOK, Readable
<1>3. ASSUME NEW n \in Managers \ {m} PROVE Leaves(n)
  <2>1. ASSUME writing[n].on, writing[n].held
        PROVE  LET t == Current(n).scope IN lock'[t] = lock[t]
    <3>1. CASE disk[s].kind = "absent"
      BY <1>2, <3>1
    <3>2. CASE disk[s].kind # "absent"
      <4>1. Current(n).scope # s /\ Current(n).scope \in Scopes
        BY <1>1, <1>2, <2>1, <3>2, LockExcludes
      <4> QED
        BY <1>1, <1>2, <4>1 DEF SettingsTypeOK
    <3> QED
      BY <3>1, <3>2
  <2> QED
    BY <1>2, <2>1 DEF Leaves, Memory
<1>4. MemoryInv(m)'
  BY <1>1, <1>2, MemoryKept DEF Memory
<1>5. Writes(m)'
  <2>1. disk[s].kind \in {"absent", "json", "invalid"}
    BY <1>1 DEF SettingsTypeOK, File
  <2>2. Current(m)' = Current(m) /\ HasTask(m, "write")'
    BY <1>1, <1>2 DEF Current, HasTask
  <2>3. /\ writing'[m].on /\ writing'[m].held = (disk[s].kind # "absent")
        /\ writing'[m].base = Loaded(s).content
    BY <1>2
  <2>4. ~writing'[m].held => writing'[m].base = Nothing
    BY <2>3 DEF Loaded
  <2>5. writing'[m].held => /\ lock'[s] = m /\ disk'[s].kind = "json"
                            /\ writing'[m].base = Migrate(disk'[s].at)
    BY <1>1, <1>2, <2>1, <2>3 DEF Loaded, Readable, SettingsTypeOK
  <2> QED
    BY <1>1, <2>2, <2>3, <2>4, <2>5 DEF Writes
<1>6. m \in alive'
  BY <1>1, <1>2 DEF HasTask
<1> QED
  BY <1>3, <1>4, <1>5, <1>6, OneMoves

(* A task is done: what is on its way in a later one still is. *)
LEMMA LaterOnItsWay ==
    ASSUME SettingsTypeOK, NEW m \in Managers, writeQueue[m] # <<>>,
           writeQueue'[m] = Tail(writeQueue[m])
    PROVE  \A s, p, v : OnItsWay(m, s, p, v) =>
               \/ OnItsWay(m, s, p, v)'
               \/ Current(m).scope = s /\ p \in Current(m).marks /\ Current(m).snapshot[p] = v
<1> SUFFICES ASSUME NEW s, NEW p, NEW v, NEW k \in 1 .. Len(writeQueue[m]),
                    writeQueue[m][k].scope = s, p \in writeQueue[m][k].marks,
                    writeQueue[m][k].snapshot[p] = v
             PROVE  \/ OnItsWay(m, s, p, v)'
                    \/ Current(m).scope = s /\ p \in Current(m).marks /\ Current(m).snapshot[p] = v
  BY DEF OnItsWay
<1>1. CASE k = 1
  BY <1>1, QueueMovesOn
<1>2. CASE k # 1
  <2>1. k \in 2 .. Len(writeQueue[m])
    BY <1>2, QueueMovesOn
  <2>2. k - 1 \in 1 .. Len(writeQueue'[m]) /\ writeQueue'[m][k - 1] = writeQueue[m][k]
    BY <2>1, QueueMovesOn
  <2> QED
    BY <2>2 DEF OnItsWay
<1> QED
  BY <1>1, <1>2

(* ... and what later writes would store has still been asked for, if what *)
(* was asked for is forgotten only in scopes without later writes.         *)
LEMMA LaterAsked ==
    ASSUME SettingsTypeOK, NEW m \in Managers, WasAsked(m), writeQueue[m] # <<>>,
           writeQueue'[m] = Tail(writeQueue[m]),
           \A s \in Scopes : asked'[m][s] = asked[m][s] \/ (Later(m, s) = {} /\ asked'[m][s] = {}),
           \A s \in Scopes : modified'[m][s] = {}
                             \/ (modified'[m][s] = modified[m][s] /\ settings'[m][s] = settings[m][s]
                                 /\ asked'[m][s] = asked[m][s])
    PROVE  WasAsked(m)'
<1>1. \A s \in Scopes : Changes(modified'[m][s], settings'[m][s]) \subseteq asked'[m][s]
  BY DEF WasAsked, Changes
<1>2. ASSUME NEW k \in 1 .. Len(writeQueue'[m]), writeQueue'[m][k].kind = "write"
      PROVE  /\ writeQueue'[m][k].marks # {}
             /\ Changes(writeQueue'[m][k].marks, writeQueue'[m][k].snapshot)
                    \subseteq asked'[m][writeQueue'[m][k].scope]
  <2>1. k + 1 \in 2 .. Len(writeQueue[m]) /\ writeQueue'[m][k] = writeQueue[m][k + 1]
        /\ k + 1 \in 1 .. Len(writeQueue[m])
    BY QueueMovesOn
  <2> DEFINE t == writeQueue[m][k + 1]
  <2>2. t \in Task \cup {ReloadTask} /\ t.kind = "write"
        /\ t.marks # {} /\ Changes(t.marks, t.snapshot) \subseteq asked[m][t.scope]
    BY <1>2, <2>1, QueueType DEF WasAsked
  <2>3. t.scope \in Scopes
    BY <2>2 DEF Task, ReloadTask
  <2>4. Later(m, t.scope) # {}
    BY <2>1 DEF Later
  <2> QED
    BY <2>1, <2>2, <2>3, <2>4
<1> QED
  BY <1>1, <1>2 DEF WasAsked

(* The write that m is at: what it has, and that nobody else is at its file. *)
LEMMA WritingFacts ==
    ASSUME SettingsInv, NEW m \in Managers, MayWrite(m)
    PROVE  LET t == Current(m) IN
           /\ t \in Task /\ t.scope \in Scopes /\ t.snapshot \in Content /\ t.marks \subseteq Paths
           /\ t.marks # {} /\ Changes(t.marks, t.snapshot) \subseteq asked[m][t.scope]
           /\ writeQueue[m] # <<>> /\ m \in alive /\ t.kind = "write"
           /\ lock[t.scope] \in {m, Nobody}
           /\ writing[m].held => /\ lock[t.scope] = m /\ disk[t.scope].kind = "json"
                                 /\ writing[m].base = Migrate(disk[t.scope].at)
           /\ ~writing[m].held => writing[m].base = Nothing
<1>1. SettingsTypeOK /\ MemoryInv(m) /\ Writes(m) /\ HasTask(m, "write") /\ writeQueue[m] # <<>>
      /\ writing[m].on
  BY PartsOfInv DEF MayWrite, HasTask
<1>2. Current(m) = writeQueue[m][1] /\ 1 \in 1 .. Len(writeQueue[m])
  BY <1>1, QueueMovesOn
<1>3. Current(m) \in Task /\ Current(m).scope \in Scopes /\ Current(m).snapshot \in Content
      /\ Current(m).marks \subseteq Paths /\ Current(m).kind = "write"
  BY <1>1, TaskType DEF HasTask
<1> QED
  BY <1>1, <1>2, <1>3 DEF MemoryInv, WasAsked, Writes, MayWrite, HasTask

LEMMA WriteInv ==
    ASSUME SettingsInv, SettingsTypeOK', NEW m \in Managers, WriteMerged(m)
    PROVE  SettingsInv'
<1> DEFINE t == Current(m)
           s == Current(m).scope
<1>1. /\ SettingsTypeOK /\ MemoryInv(m) /\ s \in Scopes /\ writeQueue[m] # <<>>
      /\ lock[s] \in {m, Nobody} /\ m \in alive
  BY PartsOfInv, WritingFacts DEF WriteMerged
<1>2. /\ UNCHANGED <<alive, settings, loadError, errors>>
      /\ modified' = [modified EXCEPT ![m][s] = {}]
      /\ writeQueue' = [writeQueue EXCEPT ![m] = Tail(@)]
      /\ writing' = [writing EXCEPT ![m] = NotWriting]
      /\ asked' = [asked EXCEPT ![m][s] = SettledAfter(m, s)]
      /\ due' = [due EXCEPT ![m][s] = @ \ {<<p, t.snapshot[p]>> : p \in t.marks}]
      /\ \A r \in Scopes \ {s} : disk'[r] = disk[r] /\ lock'[r] = lock[r]
  BY <1>1 DEF WriteMerged, TaskDone, SettingsTypeOK
<1>3. ASSUME NEW n \in Managers \ {m} PROVE Leaves(n)
  <2>1. UNCHANGED Memory(n) /\ writing'[n] = writing[n]
    BY <1>1, <1>2 DEF Memory, SettingsTypeOK
  <2>2. writing[n].on /\ writing[n].held => Current(n).scope \in Scopes \ {s}
    BY <1>1, LockExcludes
  <2> QED
    BY <1>2, <2>1, <2>2 DEF Leaves
<1>4. /\ settings'[m] = settings[m] /\ errors'[m] = errors[m] /\ loadError'[m] = loadError[m]
      /\ modified'[m][s] = {} /\ \A r \in Scopes \ {s} : modified'[m][r] = modified[m][r]
      /\ writeQueue'[m] = Tail(writeQueue[m]) /\ writing'[m] = NotWriting
      /\ asked'[m][s] = SettledAfter(m, s) /\ \A r \in Scopes \ {s} : asked'[m][r] = asked[m][r]
      /\ due'[m][s] = due[m][s] \ {<<p, t.snapshot[p]>> : p \in t.marks}
      /\ \A r \in Scopes \ {s} : due'[m][r] = due[m][r]
  BY <1>1, <1>2 DEF SettingsTypeOK
<1>5. WasAsked(m)'
  <2>1. \A r \in Scopes : asked'[m][r] = asked[m][r] \/ (Later(m, r) = {} /\ asked'[m][r] = {})
    BY <1>4 DEF SettledAfter
  <2>2. WasAsked(m)
    BY <1>1 DEF MemoryInv
  <2> QED
    BY <1>1, <1>4, <2>1, <2>2, LaterAsked
<1>6. \A r, p, v : OnItsWay(m, r, p, v) =>
          OnItsWay(m, r, p, v)' \/ (s = r /\ p \in t.marks /\ t.snapshot[p] = v)
  BY <1>1, <1>4, LaterOnItsWay
<1>7. ASSUME NEW r \in Scopes PROVE MarkedAt(m, r)'
  <2>1. CASE r = s
    BY <1>1, <1>4, <2>1 DEF MarkedAt, MemoryInv
  <2>2. CASE r # s
    BY <1>1, <1>4, <1>6, <2>2 DEF MarkedAt, MemoryInv
  <2> QED
    BY <2>1, <2>2
<1>8. ASSUME NEW r \in Scopes PROVE KnownAt(m, r)'
  <2> SUFFICES ASSUME NEW d \in due'[m][r], errors[m][r] = "none"
               PROVE  Known(m, r, d[1], d[2])'
    BY <1>4 DEF KnownAt, Known
  <2>1. d \in due[m][r] /\ Known(m, r, d[1], d[2])
    BY <1>1, <1>4 DEF MemoryInv, KnownAt
  <2>2. CASE r # s
    BY <1>4, <1>6, <2>1, <2>2 DEF Known
  <2>3. CASE r = s
    <3>1. OnItsWay(m, s, d[1], d[2])
      BY <1>1, <2>1, <2>3 DEF Known, MemoryInv, MarkedAt
    <3>2. ~(d[1] \in t.marks /\ t.snapshot[d[1]] = d[2])
      <4>1. d = <<d[1], d[2]>>
        BY <1>1, <2>1 DEF SettingsTypeOK
      <4> QED
        BY <1>4, <2>3, <4>1
    <3> QED
      BY <1>6, <2>3, <3>1, <3>2 DEF Known
  <2> QED
    BY <2>2, <2>3
<1>9. Writes(m)' /\ m \in alive'
  BY <1>1, <1>2, <1>4 DEF Writes, NotWriting
<1> QED
  BY <1>3, <1>5, <1>7, <1>8, <1>9, OneMoves DEF MemoryInv


LEMMA FailInv ==
    ASSUME SettingsInv, SettingsTypeOK', NEW m \in Managers, WriteFails(m)
    PROVE  SettingsInv'
<1> DEFINE s == Current(m).scope
<1>1. /\ SettingsTypeOK /\ MemoryInv(m) /\ Writes(m) /\ s \in Scopes /\ writeQueue[m] # <<>>
      /\ m \in alive
  BY PartsOfInv, TaskType DEF WriteFails, HasTask
<1>2. /\ UNCHANGED <<alive, settings, modified, loadError, asked, due>>
      /\ writeQueue' = [writeQueue EXCEPT ![m] = Tail(@)]
      /\ writing' = [writing EXCEPT ![m] = NotWriting]
      /\ errors' = [errors EXCEPT ![m] = [r \in Scopes |-> IF r \in {s} THEN "recorded" ELSE @[r]]]
      /\ lock' = IF writing[m].held THEN [lock EXCEPT ![s] = Nobody] ELSE lock
      /\ disk' = disk \/ (MayWrite(m) /\ disk' \in DamagedFiles(s))
  BY DEF WriteFails, TaskDone, Recorded
<1>3. /\ MayWrite(m) => lock[s] \in {m, Nobody}
      /\ writing[m].held => lock[s] = m
      /\ \A r \in Scopes \ {s} : disk'[r] = disk[r] /\ lock'[r] = lock[r]
  <2>1. \A f \in DamagedFiles(s) : \A r \in Scopes \ {s} : f[r] = disk[r]
    BY <1>1 DEF DamagedFiles, SettingsTypeOK
  <2>2. MayWrite(m) => lock[s] \in {m, Nobody}
    BY WritingFacts
  <2> QED
    BY <1>1, <1>2, <2>1, <2>2 DEF Writes, SettingsTypeOK
<1>4. ASSUME NEW n \in Managers \ {m} PROVE Leaves(n)
  <2>1. UNCHANGED Memory(n) /\ writing'[n] = writing[n]
    BY <1>1, <1>2 DEF Memory, SettingsTypeOK
  <2>2. ASSUME writing[n].on, writing[n].held
        PROVE  LET r == Current(n).scope IN lock'[r] = lock[r] /\ disk'[r] = disk[r]
    <3>1. Current(n).scope \in Scopes /\ lock[Current(n).scope] = n
      BY <2>2, PartsOfInv DEF Writes
    <3>2. CASE Current(n).scope # s
      BY <1>3, <3>1, <3>2
    <3>3. CASE Current(n).scope = s
      <4>1. ~MayWrite(m) /\ ~writing[m].held
        BY <1>3, <3>1, <3>3, SettingsAssumption
      <4> QED
        BY <1>2, <4>1
    <3> QED
      BY <3>2, <3>3
  <2> QED
    BY <1>2, <2>1, <2>2 DEF Leaves
<1>5. /\ settings'[m] = settings[m] /\ loadError'[m] = loadError[m] /\ modified'[m] = modified[m]
      /\ asked'[m] = asked[m] /\ due'[m] = due[m]
      /\ writeQueue'[m] = Tail(writeQueue[m]) /\ writing'[m] = NotWriting
      /\ errors'[m][s] = "recorded" /\ \A r \in Scopes \ {s} : errors'[m][r] = errors[m][r]
  BY <1>1, <1>2 DEF SettingsTypeOK
<1>6. WasAsked(m)'
  BY <1>1, <1>5, LaterAsked DEF MemoryInv
<1>7. \A r, p, v : OnItsWay(m, r, p, v) /\ r # s => OnItsWay(m, r, p, v)'
  BY <1>1, <1>5, LaterOnItsWay
<1>8. \A r \in Scopes : MarkedAt(m, r)'
  BY <1>1, <1>5, <1>7 DEF MarkedAt, MemoryInv
<1>9. \A r \in Scopes : KnownAt(m, r)'
  BY <1>1, <1>5, <1>7 DEF KnownAt, Known, MemoryInv
<1>10. Writes(m)' /\ m \in alive'
  BY <1>1, <1>2, <1>5 DEF Writes, NotWriting
<1> QED
  BY <1>4, <1>6, <1>8, <1>9, <1>10, OneMoves DEF MemoryInv

LEMMA LoadInv ==
    ASSUME SettingsInv, SettingsTypeOK', NEW m \in Managers, LoadAgain(m)
    PROVE  SettingsInv'
<1>1. /\ SettingsTypeOK /\ MemoryInv(m) /\ Writes(m) /\ Current(m) = ReloadTask /\ writeQueue[m] # <<>>
      /\ m \in alive
  BY PartsOfInv, TaskType DEF LoadAgain, HasTask
<1>2. PICK failed \in SUBSET Scopes :
        /\ loadError' = [loadError EXCEPT ![m] = failed]
        /\ errors' = [errors EXCEPT ![m] = [r \in Scopes |-> IF r \in failed THEN "recorded" ELSE @[r]]]
  BY DEF LoadAgain, Recorded
<1>3. /\ UNCHANGED <<disk, lock, alive, due>>
      /\ modified' = [modified EXCEPT ![m] = [s \in Scopes |-> {}]]
      /\ writeQueue' = [writeQueue EXCEPT ![m] = Tail(@)]
      /\ writing' = [writing EXCEPT ![m] = NotWriting]
      /\ asked' = [asked EXCEPT ![m] = [s \in Scopes |-> SettledAfter(m, s)]]
      /\ \A n \in Managers \ {m} : settings'[n] = settings[n]
  BY DEF LoadAgain, TaskDone, SettingsTypeOK
<1>4. ASSUME NEW n \in Managers \ {m} PROVE Leaves(n)
  BY <1>1, <1>2, <1>3 DEF Leaves, Memory, SettingsTypeOK
<1>5. /\ due'[m] = due[m] /\ \A s \in Scopes : modified'[m][s] = {}
      /\ \A s \in Scopes : asked'[m][s] = SettledAfter(m, s)
      /\ \A s \in Scopes : errors'[m][s] = "none" => errors[m][s] = "none" /\ s \notin loadError'[m]
      /\ writeQueue'[m] = Tail(writeQueue[m]) /\ writing'[m] = NotWriting
  BY <1>1, <1>2, <1>3 DEF SettingsTypeOK
<1>6. WasAsked(m)'
  <2>1. \A s \in Scopes : asked'[m][s] = asked[m][s] \/ (Later(m, s) = {} /\ asked'[m][s] = {})
    BY <1>5 DEF SettledAfter
  <2>2. WasAsked(m)
    BY <1>1 DEF MemoryInv
  <2> QED
    BY <1>1, <1>5, <2>1, <2>2, LaterAsked
<1>7. \A r, p, v : OnItsWay(m, r, p, v) => OnItsWay(m, r, p, v)'
  BY <1>1, <1>5, LaterOnItsWay DEF ReloadTask
<1>8. \A s \in Scopes : MarkedAt(m, s)'
  BY <1>5 DEF MarkedAt
<1>9. ASSUME NEW s \in Scopes PROVE KnownAt(m, s)'
  <2> SUFFICES ASSUME NEW d \in due[m][s], errors'[m][s] = "none" PROVE Known(m, s, d[1], d[2])'
    BY <1>5 DEF KnownAt, Known
  <2>1. Known(m, s, d[1], d[2]) /\ errors[m][s] = "none" /\ MarkedAt(m, s)
    BY <1>1, <1>5 DEF MemoryInv, KnownAt
  <2>2. OnItsWay(m, s, d[1], d[2])
    BY <2>1 DEF Known, MarkedAt
  <2> QED
    BY <1>7, <2>2 DEF Known
<1>10. Writes(m)' /\ m \in alive'
  BY <1>1, <1>3, <1>5 DEF Writes, NotWriting
<1> QED
  BY <1>4, <1>6, <1>8, <1>9, <1>10, OneMoves DEF MemoryInv

LEMMA KillInv ==
    ASSUME SettingsInv, SettingsTypeOK', NEW m \in Managers, Kill(m)
    PROVE  SettingsInv'
<1>1. SettingsTypeOK
  BY PartsOfInv
<1>2. /\ alive' = alive \ {m}
      /\ settings' = [settings EXCEPT ![m] = [t \in Scopes |-> Nothing]]
      /\ modified' = [modified EXCEPT ![m] = [t \in Scopes |-> {}]]
      /\ loadError' = [loadError EXCEPT ![m] = {}]
      /\ writeQueue' = [writeQueue EXCEPT ![m] = <<>>]
      /\ writing' = [writing EXCEPT ![m] = NotWriting]
      /\ errors' = [errors EXCEPT ![m] = [t \in Scopes |-> "none"]]
      /\ asked' = [asked EXCEPT ![m] = [t \in Scopes |-> {}]]
      /\ due' = [due EXCEPT ![m] = [t \in Scopes |-> {}]]
  BY DEF Kill
<1>3. ASSUME NEW n \in Managers \ {m}, writing[n].on, writing[n].held
      PROVE  LET r == Current(n).scope IN lock'[r] = lock[r] /\ disk'[r] = disk[r]
  <2>1. Current(n).scope \in Scopes /\ lock[Current(n).scope] = n
    BY <1>3, PartsOfInv DEF Writes
  <2>2. CASE lock' = [t \in Scopes |-> IF lock[t] = m THEN Dead ELSE lock[t]] /\ UNCHANGED disk
    BY <2>1, <2>2
  <2>3. CASE MayWrite(m) /\ lock' = [lock EXCEPT ![Current(m).scope] = Dead]
             /\ disk' \in DamagedFiles(Current(m).scope)
    <3>1. Current(n).scope # Current(m).scope /\ Current(m).scope \in Scopes
      BY <2>1, <2>3, WritingFacts, SettingsAssumption
    <3> QED
      BY <1>1, <2>1, <2>3, <3>1 DEF DamagedFiles, SettingsTypeOK
  <2> QED
    BY <2>2, <2>3 DEF Kill
<1>4. ASSUME NEW n \in Managers \ {m} PROVE Leaves(n)
  BY <1>1, <1>2, <1>3 DEF Leaves, Memory, SettingsTypeOK
<1>5. /\ modified'[m] = [t \in Scopes |-> {}] /\ due'[m] = [t \in Scopes |-> {}]
      /\ writeQueue'[m] = <<>> /\ Len(writeQueue'[m]) = 0 /\ writing'[m] = NotWriting
      /\ loadError'[m] = {}
  BY <1>1, <1>2, EmptySeq DEF SettingsTypeOK
<1>6. MemoryInv(m)'
  BY <1>5 DEF MemoryInv, WasAsked, Changes, MarkedAt, KnownAt
<1>7. Writes(m)' /\ Rests(m)'
  BY <1>5 DEF Writes, Rests, NotWriting
<1> QED
  BY <1>4, <1>6, <1>7, OneMoves

LEMMA ReloadInv ==
    ASSUME SettingsInv, SettingsTypeOK', NEW m \in Managers, Reload(m)
    PROVE  SettingsInv'
<1> DEFINE q == writeQueue[m]
<1>1. /\ SettingsTypeOK /\ MemoryInv(m) /\ Writes(m) /\ m \in alive /\ m \in alive'
      /\ UNCHANGED <<disk, lock, alive, settings, modified, loadError, writing, errors, asked, due>>
      /\ writeQueue' = [writeQueue EXCEPT ![m] = Append(@, ReloadTask)]
  BY PartsOfInv DEF Reload
<1>2. \A n \in Managers \ {m} : Leaves(n)
  BY <1>1 DEF Leaves, Memory, SettingsTypeOK
<1>3. writeQueue'[m] = Append(q, ReloadTask) /\ q \in Seq(Task \cup {ReloadTask})
  BY <1>1 DEF SettingsTypeOK
<1>4. /\ Len(Append(q, ReloadTask)) = Len(q) + 1 /\ Len(q) \in Nat
      /\ \A k \in 1 .. Len(q) : Append(q, ReloadTask)[k] = q[k]
      /\ Append(q, ReloadTask)[Len(q) + 1] = ReloadTask
      /\ Append(q, ReloadTask) # <<>>
      /\ q # <<>> => Head(Append(q, ReloadTask)) = Head(q)
  BY <1>3, QueueAppended
<1>5. Writes(m)'
  BY <1>1, <1>3, <1>4, WritesKept
<1>6. \A s, p, v : OnItsWay(m, s, p, v) => OnItsWay(m, s, p, v)'
  BY <1>3, <1>4 DEF OnItsWay
<1>7. WasAsked(m)'
  <2>1. \A k \in 1 .. Len(writeQueue'[m]) : writeQueue'[m][k].kind = "write" =>
            k \in 1 .. Len(q) /\ writeQueue'[m][k] = q[k]
    BY <1>3, <1>4 DEF ReloadTask
  <2> QED
    BY <1>1, <2>1 DEF MemoryInv, WasAsked
<1>8. \A s \in Scopes : MarkedAt(m, s)' /\ KnownAt(m, s)'
  BY <1>1, <1>6 DEF MemoryInv, MarkedAt, KnownAt, Known
<1> QED
  BY <1>1, <1>2, <1>5, <1>7, <1>8, OneMoves DEF MemoryInv

LEMMA DrainInv ==
    ASSUME SettingsInv, SettingsTypeOK', NEW m \in Managers, DrainErrors(m)
    PROVE  SettingsInv'
<1>1. /\ SettingsTypeOK /\ MemoryInv(m) /\ Writes(m) /\ m \in alive /\ m \in alive'
      /\ UNCHANGED <<disk, lock, alive, settings, modified, loadError, writeQueue, writing, asked, due>>
      /\ errors' = [errors EXCEPT ![m] = [s \in Scopes |-> IF @[s] = "recorded" THEN "drained" ELSE @[s]]]
  BY PartsOfInv DEF DrainErrors
<1>2. \A n \in Managers \ {m} : Leaves(n)
  BY <1>1 DEF Leaves, Memory, SettingsTypeOK
<1>3. \A s \in Scopes : errors'[m][s] = "none" <=> errors[m][s] = "none"
  BY <1>1 DEF SettingsTypeOK
<1>4. Writes(m)'
  BY <1>1, WritesKept
<1>5. \A s, p, v : OnItsWay(m, s, p, v) <=> OnItsWay(m, s, p, v)'
  BY <1>1 DEF OnItsWay
<1>6. WasAsked(m)'
  BY <1>1 DEF MemoryInv, WasAsked
<1>7. \A s \in Scopes : MarkedAt(m, s)' /\ KnownAt(m, s)'
  BY <1>1, <1>3, <1>5 DEF MemoryInv, MarkedAt, KnownAt, Known
<1> QED
  BY <1>1, <1>2, <1>4, <1>6, <1>7, OneMoves DEF MemoryInv

(* The steps outside the processes do not touch a file that is locked by   *)
(* one of them.                                                            *)
LEMMA OutsideInv ==
    ASSUME SettingsInv, SettingsTypeOK',
           (\E s \in Scopes : StaleLockRemoved(s) \/ EditFile(s)) \/ UNCHANGED settingsVars
    PROVE  SettingsInv'
<1>1. SettingsTypeOK
  BY PartsOfInv
<1>2. UNCHANGED <<alive, settings, modified, loadError, writeQueue, writing, errors, asked, due>>
  BY DEF StaleLockRemoved, EditFile, settingsVars
<1>3. ASSUME NEW n \in Managers, writing[n].on, writing[n].held
      PROVE  LET r == Current(n).scope IN lock'[r] = lock[r] /\ disk'[r] = disk[r]
  <2>1. Current(n).scope \in Scopes /\ lock[Current(n).scope] = n
    BY <1>3, PartsOfInv DEF Writes
  <2>2. lock[Current(n).scope] \notin {Nobody, Dead}
    BY <2>1, SettingsAssumption
  <2>3. ASSUME NEW s \in Scopes, StaleLockRemoved(s)
        PROVE  LET r == Current(n).scope IN lock'[r] = lock[r] /\ disk'[r] = disk[r]
    BY <1>1, <2>1, <2>2, <2>3 DEF StaleLockRemoved, SettingsTypeOK
  <2>4. ASSUME NEW s \in Scopes, EditFile(s)
        PROVE  LET r == Current(n).scope IN lock'[r] = lock[r] /\ disk'[r] = disk[r]
    BY <1>1, <2>1, <2>2, <2>4 DEF EditFile, SettingsTypeOK
  <2> QED
    BY <2>3, <2>4 DEF settingsVars
<1>4. ASSUME NEW n \in Managers PROVE Leaves(n)
  BY <1>2, <1>3 DEF Leaves, Memory
<1>5. ASSUME NEW n \in Managers
      PROVE  MemoryInv(n)' /\ Writes(n)' /\ (n \notin alive' => Rests(n)')
  BY <1>2, <1>4, PartsOfInv, MemoryKept, WritesKept, RestsKept DEF Leaves
<1> QED
  BY <1>5, InvOfParts

LEMMA SettingsInvNext == SettingsInv /\ [SettingsNext]_settingsVars => SettingsInv'
<1> SUFFICES ASSUME SettingsInv, [SettingsNext]_settingsVars PROVE SettingsInv'
  OBVIOUS
<1>1. SettingsTypeOK'
  BY SettingsTypes DEF SettingsInv
<1>2. ASSUME NEW m \in Managers, Work(m) PROVE SettingsInv'
  BY <1>1, <1>2, ReadInv, WriteInv, FailInv, LoadInv DEF Work
<1>3. ASSUME NEW m \in Managers, Start(m) \/ Reload(m) \/ DrainErrors(m) \/ Kill(m)
      PROVE  SettingsInv'
  BY <1>1, <1>3, StartInv, ReloadInv, DrainInv, KillInv
<1>4. ASSUME NEW m \in Managers, NEW s \in Scopes, NEW p \in Paths, NEW v \in Values,
             SetScoped(m, s, p, v)
      PROVE  SettingsInv'
  BY <1>1, <1>4, SetInv
<1> QED
  BY <1>1, <1>2, <1>3, <1>4, OutsideInv DEF SettingsNext

LEMMA SettingsInvInit == SettingsInit => SettingsInv
<1> SUFFICES ASSUME SettingsInit PROVE SettingsInv
  OBVIOUS
<1>1. SettingsTypeOK
  BY SettingsTypesInit
<1>2. \A m \in Managers :
        /\ writeQueue[m] = <<>> /\ writing[m] = NotWriting /\ loadError[m] = {}
        /\ \A s \in Scopes : modified[m][s] = {} /\ due[m][s] = {}
  BY DEF SettingsInit, PerScope, Each
<1>3. ASSUME NEW m \in Managers PROVE Writes(m) /\ Rests(m)
  <2>1. ~NotWriting.on /\ ~NotWriting.held
    BY DEF NotWriting
  <2>2. writing[m] = NotWriting
    BY <1>2
  <2>3. Rests(m)
    BY <1>2 DEF Rests
  <2> QED
    BY <2>1, <2>2, <2>3 DEF Writes
<1>4. ASSUME NEW m \in Managers PROVE MemoryInv(m)
  <2>1. Len(writeQueue[m]) = 0
    BY <1>2, EmptySeq
  <2> QED
    BY <1>2, <2>1 DEF MemoryInv, WasAsked, Changes, MarkedAt, KnownAt
<1> QED
  BY <1>1, <1>3, <1>4
     DEF SettingsInv, WritesWhatItRead, OnlyAsked, MarkedIsQueued, Reported, MemoryInv


-----------------------------------------------------------------------------
(* What the session of a process keeps has the types it is declared with,  *)
(* whatever the processes, the user and failures do.                       *)
THEOREM SettingsTypesCorrect == SettingsSpec => []SettingsTypeOK
<1>1. SettingsInit => SettingsTypeOK
  BY SettingsTypesInit
<1> QED
  BY <1>1, SettingsTypes, PTL DEF SettingsSpec

(* No change is lost silently: what was set and is not in the file is on   *)
(* its way there or marked for the next write, or an error of its file was *)
(* recorded (setScoped, persistScopedSettings, reload, recordError).       *)
THEOREM SettingsLossesReported == SettingsSpec => []LossesReported
<1>1. SettingsInv => LossesReported
  BY DEF SettingsInv, Reported, KnownAt, Known, OnItsWay, LossesReported
<1> QED
  BY <1>1, SettingsInvInit, SettingsInvNext, PTL DEF SettingsSpec

-----------------------------------------------------------------------------
(* The refinement. *)

Stored == [s \in Scopes |-> [kind |-> disk[s].kind, at |-> Migrate(disk[s].at)]]

LEMMA NothingMigrated == Migrate(Nothing) = Nothing
<1>1. \A p \in Places : Nothing[p] = Unset
  BY DEF Nothing
<1> QED
  BY <1>1, ContentOfPlaces DEF Migrate, Nothing

(* The marked settings change at their homes, and nothing else does. *)
LEMMA WithChanges ==
    ASSUME NEW t \in Task, NEW c, NEW w, w = Shared!With(c, Changes(t.marks, t.snapshot))
    PROVE  /\ w = [p \in Places |-> w[p]]
           /\ \A q \in t.marks : w[Home(q)] = t.snapshot[q]
           /\ \A p \in Places : (\A q \in t.marks : Home(q) # p) => w[p] = c[p]
<1> DEFINE ds == Changes(t.marks, t.snapshot)
           v(p) == IF \E d \in ds : d[1] = p THEN (CHOOSE d \in ds : d[1] = p)[2] ELSE c[p]
<1>0. t.marks \subseteq Paths
  BY DEF Task
<1>1. w = [p \in Places |-> v(p)]
  BY Zenon DEF Shared!With
<1>2. ASSUME NEW q \in t.marks PROVE v(Home(q)) = t.snapshot[q]
  <2>1. <<Home(q), t.snapshot[q]>> \in ds /\ <<Home(q), t.snapshot[q]>>[1] = Home(q)
    BY DEF Changes
  <2>2. (CHOOSE d \in ds : d[1] = Home(q)) \in ds /\ (CHOOSE d \in ds : d[1] = Home(q))[1] = Home(q)
    BY <2>1
  <2>3. \A d \in ds : d[1] = Home(q) => d[2] = t.snapshot[q]
    BY <1>0, HomesDiffer DEF Changes
  <2> QED
    BY <2>1, <2>2, <2>3
<1>3. ASSUME NEW p \in Places, \A q \in t.marks : Home(q) # p PROVE v(p) = c[p]
  <2>1. \A d \in ds : d[1] # p
    BY <1>3 DEF Changes
  <2> QED
    BY <2>1
<1>4. \A q \in t.marks : Home(q) \in Places
  BY <1>0, HomesDiffer
<1>5. w = [p \in Places |-> w[p]]
  BY <1>1
<1>6. \A p \in Places : w[p] = v(p)
  BY <1>1
<1> HIDE DEF v
<1>7. /\ \A q \in t.marks : w[Home(q)] = t.snapshot[q]
      /\ \A p \in Places : (\A q \in t.marks : Home(q) # p) => w[p] = c[p]
  BY <1>2, <1>3, <1>4, <1>6
<1> QED
  BY <1>5, <1>7

(* What a write puts into a file changes what it read at the homes of the  *)
(* marked settings only, as the file is migrated when it is read again.    *)
LEMMA MergedMigrated ==
    ASSUME NEW c \in Content, NEW t \in Task, \A p \in t.marks : t.snapshot[p] # Unset
    PROVE  Migrate(Merged(Migrate(c), t)) = Shared!With(Migrate(c), Changes(t.marks, t.snapshot))
<1> DEFINE d == Migrate(c)
           r == Merged(d, t)
           w == Shared!With(d, Changes(t.marks, t.snapshot))
           moves(o) == r[o] # Unset /\ (o \in Budgets \/ r[Moved[o]] = Unset)
           into(p)  == {o \in DOMAIN Moved : Moved[o] = p /\ moves(o)}
           v(p) == IF into(p) # {} THEN r[CHOOSE o \in into(p) : TRUE]
                   ELSE IF p \in DOMAIN Moved /\ moves(p) THEN Unset ELSE r[p]
<1>1. t.marks \subseteq Paths /\ t.marks \in SUBSET Paths
  BY DEF Task
<1>2. \A p \in Places : r[p] = IF p \in t.marks THEN t.snapshot[p] ELSE d[p]
  BY DEF Merged
<1>3. /\ w = [p \in Places |-> w[p]]
      /\ \A q \in t.marks : w[Home(q)] = t.snapshot[q]
      /\ \A p \in Places : (\A q \in t.marks : Home(q) # p) => w[p] = d[p]
  <2>1. PICK e, u : e = d /\ u = Shared!With(e, Changes(t.marks, t.snapshot))
    OBVIOUS
  <2>2. u = [p \in Places |-> u[p]]
    BY <2>1, WithChanges, SMTT(30)
  <2>3. \A q \in t.marks : u[Home(q)] = t.snapshot[q]
    BY <2>1, WithChanges, SMTT(30)
  <2>4. \A p \in Places : (\A q \in t.marks : Home(q) # p) => u[p] = e[p]
    BY <2>1, WithChanges
  <2>5. u = w
    BY <2>1
  <2> QED
    BY <2>1, <2>2, <2>3, <2>4, <2>5
<1>4. Migrate(r) = [p \in Places |-> v(p)]
  BY Zenon DEF Migrate
<1>5. /\ \A o \in Budgets : d[o] = Unset
      /\ \A o \in DOMAIN Moved : d[o] # Unset => d[Moved[o]] # Unset
  BY Migrated
<1>6. /\ Budgets \subseteq DOMAIN Moved /\ \A o \in DOMAIN Moved : o \in Places /\ Moved[o] \in Places
      /\ \A o \in DOMAIN Moved : Moved[o] \notin DOMAIN Moved
      /\ \A p \in t.marks : p \in DOMAIN Moved => p \in Budgets
  BY <1>1, ContentOfPlaces, SettingsAssumption
<1> HIDE DEF d, r, w
<1>7. ASSUME NEW o \in DOMAIN Moved PROVE moves(o) <=> o \in t.marks
  <2>1. CASE o \in Budgets
    BY <1>2, <1>5, <1>6, <2>1
  <2>2. CASE o \notin Budgets
    <3>1. o \notin t.marks /\ r[o] = d[o]
      BY <1>2, <1>6, <2>2
    <3>2. d[o] # Unset => r[Moved[o]] # Unset
      BY <1>2, <1>5, <1>6
    <3> QED
      BY <2>2, <3>1, <3>2
  <2> QED
    BY <2>1, <2>2
<1>8. \A p \in Places : into(p) = {o \in t.marks \cap DOMAIN Moved : Moved[o] = p}
  BY <1>7
<1> HIDE DEF moves
<1>9. ASSUME NEW p \in Places PROVE v(p) = w[p]
  <2>1. CASE into(p) # {}
    <3>1. PICK o \in into(p) : o = CHOOSE x \in into(p) : TRUE
      BY <2>1
    <3>2. o \in t.marks /\ o \in Budgets /\ Home(o) = p
      BY <1>6, <1>8, <3>1 DEF Home
    <3>3. v(p) = t.snapshot[o]
      BY <1>2, <1>6, <2>1, <3>1, <3>2
    <3> QED
      BY <1>3, <3>2, <3>3
  <2>2. CASE into(p) = {} /\ p \in t.marks /\ p \in Budgets
    <3>1. \A q \in t.marks : Home(q) # p
      BY <1>1, <2>2, HomesDiffer
    <3>2. w[p] = Unset
      BY <1>3, <1>5, <2>2, <3>1
    <3> QED
      BY <1>6, <1>7, <2>2, <3>2
  <2>3. CASE into(p) = {} /\ p \in t.marks /\ p \notin Budgets
    <3>1. Home(p) = p /\ p \notin DOMAIN Moved
      BY <1>6, <2>3 DEF Home
    <3>2. v(p) = t.snapshot[p]
      BY <1>2, <2>3, <3>1
    <3> QED
      BY <1>3, <2>3, <3>1, <3>2
  <2>4. CASE into(p) = {} /\ p \notin t.marks
    <3>1. \A q \in t.marks : Home(q) # p
      BY <1>6, <1>8, <2>4 DEF Home
    <3>2. v(p) = r[p]
      BY <1>7, <2>4
    <3> QED
      BY <1>2, <1>3, <2>4, <3>1, <3>2
  <2> QED
    BY <2>1, <2>2, <2>3, <2>4
<1> HIDE DEF v, into
<1>10. Migrate(r) = w
  BY <1>3, <1>4, <1>9
<1> QED
  BY <1>10 DEF r, d, w

LEMMA StoredWritten ==
    ASSUME SettingsTypeOK, NEW s \in Scopes, NEW f \in File, disk' = [disk EXCEPT ![s] = f]
    PROVE  Stored' = [Stored EXCEPT ![s] = [kind |-> f.kind, at |-> Migrate(f.at)]]
<1>1. \A r \in Scopes : disk'[r] = IF r = s THEN f ELSE disk[r]
  BY DEF SettingsTypeOK
<1> QED
  BY <1>1 DEF Stored

LEMMA StoredDamaged ==
    ASSUME SettingsTypeOK, NEW s \in Scopes, disk' \in DamagedFiles(s)
    PROVE  Stored' \in {[Stored EXCEPT ![s] = [kind |-> k, at |-> Shared!Nothing]] : k \in {"invalid", "json"}}
<1>1. PICK k \in {"invalid", "json"} : disk' = [disk EXCEPT ![s] = [kind |-> k, at |-> Nothing]]
  BY DEF DamagedFiles
<1>2. [kind |-> k, at |-> Nothing] \in File
  BY ContentOfPlaces DEF File
<1>3. Stored' = [Stored EXCEPT ![s] = [kind |-> k, at |-> Migrate(Nothing)]]
  BY <1>1, <1>2, StoredWritten
<1>4. Shared!Nothing = Nothing
  BY DEF Shared!Nothing, Nothing
<1> QED
  BY <1>3, <1>4, NothingMigrated

(* Who writes without a lock, as far as one process changes it. *)
LEMMA BlindOthers ==
    ASSUME NEW m \in Managers,
           \A n \in Managers \ {m} : writing'[n] = writing[n] /\ writeQueue'[n] = writeQueue[n]
    PROVE  \A n \in Managers \ {m}, s \in Scopes : <<n, s>> \in Blind' <=> <<n, s>> \in Blind
BY DEF Blind, WritesBlind, Current

LEMMA BlindNow ==
    ASSUME NEW m \in Managers, NEW s \in Scopes
    PROVE  <<m, s>> \in Blind <=> WritesBlind(m, s)
BY DEF Blind

LEMMA BlindDone ==
    ASSUME SettingsTypeOK, NEW m \in Managers, writing' = [writing EXCEPT ![m] = NotWriting],
           \A n \in Managers \ {m} : writeQueue'[n] = writeQueue[n]
    PROVE  /\ Blind' = Blind \ ({m} \X Scopes)
           /\ \A s \in Scopes : s = Current(m).scope => Blind' = Blind \ {<<m, s>>}
           /\ ~writing[m].on \/ writing[m].held => Blind' = Blind
<1>1. /\ ~writing'[m].on
      /\ \A n \in Managers \ {m} : writing'[n] = writing[n]
  BY DEF SettingsTypeOK, NotWriting
<1>2. ASSUME NEW n \in Managers, NEW s \in Scopes
      PROVE  <<n, s>> \in Blind' <=> n # m /\ <<n, s>> \in Blind
  <2>1. CASE n = m
    BY <1>1, <2>1 DEF Blind, WritesBlind
  <2>2. CASE n # m
    BY <1>1, <2>2, BlindOthers
  <2> QED
    BY <2>1, <2>2
<1>3. \A s \in Scopes : <<m, s>> \in Blind =>
          s = Current(m).scope /\ writing[m].on /\ ~writing[m].held
  BY DEF Blind, WritesBlind
<1>4. Blind \subseteq Managers \X Scopes /\ Blind' \subseteq Managers \X Scopes
  BY DEF Blind
<1> HIDE DEF Blind
<1>5. ASSUME NEW x \in Managers \X Scopes
      PROVE  /\ x \in Blind' <=> x[1] # m /\ x \in Blind
             /\ x \in Blind /\ x[1] = m => x[2] = Current(m).scope /\ writing[m].on /\ ~writing[m].held
             /\ x \in {m} \X Scopes <=> x[1] = m
  <2>1. x = <<x[1], x[2]>> /\ x[1] \in Managers /\ x[2] \in Scopes
    OBVIOUS
  <2> QED
    BY <1>2, <1>3, <2>1
<1>6. Blind' = Blind \ ({m} \X Scopes)
  BY <1>4, <1>5
<1>7. ASSUME NEW s \in Scopes, s = Current(m).scope PROVE Blind' = Blind \ {<<m, s>>}
  <2>1. \A x \in Managers \X Scopes : x = <<m, s>> <=> x[1] = m /\ x[2] = s
    OBVIOUS
  <2> QED
    BY <1>4, <1>5, <1>7, <2>1
<1>8. ~writing[m].on \/ writing[m].held => Blind' = Blind
  BY <1>4, <1>5
<1> QED
  BY <1>6, <1>7, <1>8


LEMMA SettlesScope ==
    ASSUME SettingsTypeOK, NEW m \in Managers, NEW s \in Scopes,
           asked' = [asked EXCEPT ![m][s] = SettledAfter(m, s)]
    PROVE  Shared!Settle(m, s)
<1>1. CASE Later(m, s) = {}
  BY <1>1 DEF SettledAfter, Shared!Settle
<1>2. CASE Later(m, s) # {}
  BY <1>2 DEF SettledAfter, Shared!Settle, SettingsTypeOK
<1> QED
  BY <1>1, <1>2

LEMMA NothingGivenUp ==
    ASSUME SettingsTypeOK, NEW m \in Managers, UNCHANGED <<asked, disk>>,
           events' \in {events, events + 1}, Blind' \in {Blind, Blind \ ({m} \X Scopes)}
    PROVE  Shared!GiveUp(m)
<1>1. asked' = [asked EXCEPT ![m] = [s \in Scopes |-> IF s \in {} THEN {} ELSE @[s]]]
  BY DEF SettingsTypeOK
<1>2. Stored' = Stored
  BY DEF Stored
<1> QED
  BY <1>1, <1>2 DEF Shared!GiveUp, Stored

LEMMA ReadShared ==
    ASSUME SettingsInv, NEW m \in Managers, ReadCurrent(m)
    PROVE  [Shared!SharedNext]_Shared!sharedVars
<1>0. PICK s \in Scopes : s = Current(m).scope
  BY PartsOfInv, TaskType DEF ReadCurrent, HasTask
<1>1. /\ SettingsTypeOK /\ writeQueue' = writeQueue
      /\ UNCHANGED <<disk, asked, events>> /\ ~writing[m].on
      /\ writing'[m] = [on |-> TRUE, base |-> Loaded(s).content, held |-> disk[s].kind # "absent"]
      /\ \A n \in Managers \ {m} : writing'[n] = writing[n]
  BY <1>0, PartsOfInv DEF ReadCurrent, SettingsTypeOK
<1>2. Stored' = Stored
  BY <1>1 DEF Stored
<1>3. \A n \in Managers \ {m}, r \in Scopes : <<n, r>> \in Blind' <=> <<n, r>> \in Blind
  BY <1>1, BlindOthers
<1>4. \A r \in Scopes : <<m, r>> \notin Blind
  BY <1>1 DEF Blind, WritesBlind
<1>5. \A r \in Scopes : <<m, r>> \in Blind' <=> disk[s].kind = "absent" /\ r = s
  <2>1. Current(m)' = Current(m)
    BY <1>1 DEF Current
  <2>2. \A r \in Scopes : WritesBlind(m, r)' <=> disk[s].kind = "absent" /\ r = s
    <3>1. writing'[m].on /\ (writing'[m].held <=> disk[s].kind # "absent")
      <4>1. writing'[m] = [on |-> TRUE, base |-> Loaded(s).content, held |-> disk[s].kind # "absent"]
        BY <1>1, Zenon
      <4>2. writing'[m].on = TRUE
        BY <4>1
      <4>3. writing'[m].held = (disk[s].kind # "absent")
        BY <4>1
      <4> QED
        BY <4>2, <4>3
    <3>2. (Current(m).scope = s)'
      BY <1>0, <2>1
    <3> QED
      BY <3>1, <3>2 DEF WritesBlind
  <2> QED
    BY <2>2 DEF Blind
<1>6. Blind \subseteq Managers \X Scopes /\ Blind' \subseteq Managers \X Scopes
  BY DEF Blind
<1> HIDE DEF Blind
<1>7. Blind' = Blind \cup (IF disk[s].kind = "absent" THEN {<<m, s>>} ELSE {})
  <2>1. ASSUME NEW x \in Managers \X Scopes
        PROVE  x \in Blind' <=> x \in Blind \/ (disk[s].kind = "absent" /\ x = <<m, s>>)
    <3>1. x = <<x[1], x[2]>> /\ x[1] \in Managers /\ x[2] \in Scopes
      OBVIOUS
    <3>2. CASE x[1] = m
      BY <1>4, <1>5, <3>1, <3>2
    <3>3. CASE x[1] # m
      BY <1>3, <3>1, <3>3
    <3> QED
      BY <3>2, <3>3
  <2> QED
    BY <1>1, <1>6, <2>1
<1>8. CASE disk[s].kind = "absent"
  <2>1. Stored[s].kind = "absent"
    BY <1>1, <1>8 DEF Stored
  <2>2. Shared!FindNone(m, s)
    BY <1>1, <1>2, <1>7, <1>8, <2>1 DEF Shared!FindNone, Stored
  <2> QED
    BY <1>1, <2>2 DEF Shared!SharedNext
<1>9. CASE disk[s].kind # "absent"
  BY <1>1, <1>2, <1>7, <1>9 DEF Shared!sharedVars, Stored
<1> QED
  BY <1>8, <1>9

LEMMA WriteShared ==
    ASSUME SettingsInv, NEW m \in Managers, WriteMerged(m)
    PROVE  Shared!SharedNext
<1>a. PICK t \in Task, s \in Scopes : t = Current(m) /\ s = Current(m).scope
  BY WritingFacts DEF WriteMerged
<1>b. PICK b : b = writing[m].base
  OBVIOUS
<1> DEFINE ds == Changes(t.marks, t.snapshot)
<1>1. /\ ds \subseteq asked[m][s] /\ t.marks \subseteq Paths
      /\ writing[m].held => disk[s].kind = "json" /\ b = Migrate(disk[s].at)
      /\ ~writing[m].held => b = Nothing
      /\ SettingsTypeOK /\ writing[m].on
  BY <1>a, <1>b, WritingFacts, PartsOfInv DEF WriteMerged, MayWrite
<1>2. /\ disk' = [disk EXCEPT ![s] = [kind |-> "json", at |-> Merged(b, t)]]
      /\ writing' = [writing EXCEPT ![m] = NotWriting]
      /\ \A n \in Managers \ {m} : writeQueue'[n] = writeQueue[n]
      /\ asked' = [asked EXCEPT ![m][s] = SettledAfter(m, s)]
      /\ UNCHANGED events
  BY <1>a, <1>b, <1>1 DEF WriteMerged, TaskDone, SettingsTypeOK
<1>3. \A p \in t.marks : t.snapshot[p] # Unset
  <2>1. \A p \in t.marks : <<Home(p), t.snapshot[p]>> \in Places \X Values
    BY <1>1 DEF Changes, SettingsTypeOK
  <2>2. \A p \in t.marks : t.snapshot[p] \in Values
    BY <2>1
  <2> QED
    BY <2>2, SettingsAssumption
<1>4. PICK c \in Content : b = Migrate(c) /\ (writing[m].held => c = disk[s].at)
  <2>1. disk[s].at \in Content
    BY <1>1 DEF SettingsTypeOK, File
  <2> QED
    BY <1>1, <2>1, NothingMigrated, ContentOfPlaces
<1>5. b \in Content /\ Merged(b, t) \in Content /\ Migrate(Merged(b, t)) = Shared!With(b, ds)
  BY <1>1, <1>3, <1>4, MigrateType, MergedType, MergedMigrated
<1>6. Stored' = [Stored EXCEPT ![s] = [kind |-> "json", at |-> Shared!With(b, ds)]]
  <2>1. [kind |-> "json", at |-> Merged(b, t)] \in File
    BY <1>5 DEF File
  <2> QED
    BY <1>1, <1>2, <1>5, <2>1, StoredWritten
<1>8. Shared!Settle(m, s)
  BY <1>1, <1>2, SettlesScope
<1>9. CASE writing[m].held
  <2>1. Stored[s].kind = "json" /\ Stored[s].at = b
    BY <1>1, <1>9 DEF Stored
  <2>2. Blind' = Blind
    BY <1>1, <1>2, <1>9, BlindDone
  <2>3. Stored' = [Stored EXCEPT ![s] = [kind |-> "json", at |-> Shared!With(@.at, ds)]]
    BY <1>6, <2>1
  <2>4. Shared!Store(m, s)
    BY <1>1, <1>2, <1>8, <2>1, <2>2, <2>3 DEF Shared!Store, Stored
  <2> QED
    BY <1>1, <2>4 DEF Shared!SharedNext
<1>10. CASE ~writing[m].held
  <2>1. <<m, s>> \in Blind
    BY <1>a, <1>b, <1>1, <1>10 DEF Blind, WritesBlind
  <2>2. Blind' = Blind \ {<<m, s>>}
    BY <1>a, <1>b, <1>1, <1>2, BlindDone
  <2>3. Stored' = [Stored EXCEPT ![s] = [kind |-> "json", at |-> Shared!With(Shared!Nothing, ds)]]
    BY <1>1, <1>6, <1>10 DEF Shared!Nothing, Nothing
  <2>4. Shared!Create(m, s)
    BY <1>1, <1>2, <1>8, <2>1, <2>2, <2>3 DEF Shared!Create, Stored
  <2> QED
    BY <1>1, <2>4 DEF Shared!SharedNext
<1> QED
  BY <1>9, <1>10


(* What m was asked for may be given up, all at once. *)
LEMMA DamageShared ==
    ASSUME SettingsInv, NEW m \in Managers, MayWrite(m), events' = events + 1,
           disk' \in DamagedFiles(Current(m).scope), writing' = [writing EXCEPT ![m] = NotWriting],
           \A n \in Managers \ {m} : writeQueue'[n] = writeQueue[n],
           asked' \in {asked, [asked EXCEPT ![m] = [t \in Scopes |-> {}]]}
    PROVE  Shared!SharedNext
<1>1. PICK s \in Scopes : s = Current(m).scope
  BY WritingFacts
<1>2. SettingsTypeOK /\ asked[m][s] # {}
  <2>1. Changes(Current(m).marks, Current(m).snapshot) \subseteq asked[m][s] /\ Current(m).marks # {}
    BY <1>1, WritingFacts
  <2> QED
    BY <2>1, PartsOfInv DEF Changes
<1>3. Stored' \in {[Stored EXCEPT ![s] = [kind |-> k, at |-> Shared!Nothing]] : k \in {"invalid", "json"}}
  BY <1>1, <1>2, StoredDamaged
<1>4. Blind' = Blind \ {<<m, s>>}
  BY <1>1, <1>2, BlindDone
<1>5. Shared!Damage(m, s)
  BY <1>2, <1>3, <1>4 DEF Shared!Damage, Stored
<1> QED
  BY <1>5 DEF Shared!SharedNext

LEMMA FailShared ==
    ASSUME SettingsInv, NEW m \in Managers, WriteFails(m)
    PROVE  Shared!SharedNext
<1>1. /\ SettingsTypeOK /\ UNCHANGED asked
      /\ writing' = [writing EXCEPT ![m] = NotWriting]
      /\ \A n \in Managers \ {m} : writeQueue'[n] = writeQueue[n]
  BY PartsOfInv DEF WriteFails, TaskDone, SettingsTypeOK
<1>2. Blind' = Blind \ ({m} \X Scopes)
  BY <1>1, BlindDone
<1>3. CASE UNCHANGED <<disk, events>>
  BY <1>1, <1>2, <1>3, NothingGivenUp DEF Shared!SharedNext
<1>4. CASE MayWrite(m) /\ Event /\ disk' \in {disk} \cup DamagedFiles(Current(m).scope)
  <2>1. events' = events + 1
    BY <1>4 DEF Event
  <2>2. CASE disk' = disk
    BY <1>1, <1>2, <2>1, <2>2, NothingGivenUp DEF Shared!SharedNext
  <2>3. CASE disk' \in DamagedFiles(Current(m).scope)
    BY <1>1, <1>4, <2>1, <2>3, DamageShared
  <2> QED
    BY <1>4, <2>2, <2>3
<1> QED
  BY <1>3, <1>4 DEF WriteFails

LEMMA KillShared ==
    ASSUME SettingsInv, NEW m \in Managers, Kill(m)
    PROVE  Shared!SharedNext
<1>1. /\ SettingsTypeOK /\ events' = events + 1
      /\ writing' = [writing EXCEPT ![m] = NotWriting]
      /\ \A n \in Managers \ {m} : writeQueue'[n] = writeQueue[n]
      /\ asked' = [asked EXCEPT ![m] = [t \in Scopes |-> {}]]
  BY PartsOfInv DEF Kill, Event, SettingsTypeOK
<1>2. CASE UNCHANGED disk
  <2>1. Blind' = Blind \ ({m} \X Scopes)
    BY <1>1, BlindDone
  <2>2. asked' = [asked EXCEPT ![m] = [s \in Scopes |-> IF s \in Scopes THEN {} ELSE @[s]]]
    BY <1>1 DEF SettingsTypeOK
  <2>3. Stored' = Stored
    BY <1>2 DEF Stored
  <2>4. Shared!GiveUp(m)
    BY <1>1, <2>1, <2>2, <2>3 DEF Shared!GiveUp, Stored
  <2> QED
    BY <2>4 DEF Shared!SharedNext
<1>3. CASE MayWrite(m) /\ disk' \in DamagedFiles(Current(m).scope)
  BY <1>1, <1>3, DamageShared
<1> QED
  BY <1>2, <1>3 DEF Kill

LEMMA LoadShared ==
    ASSUME SettingsInv, NEW m \in Managers, LoadAgain(m)
    PROVE  Shared!SharedNext
<1>1. /\ SettingsTypeOK /\ UNCHANGED <<disk, events>>
      /\ writing' = [writing EXCEPT ![m] = NotWriting]
      /\ \A n \in Managers \ {m} : writeQueue'[n] = writeQueue[n]
      /\ asked' = [asked EXCEPT ![m] = [s \in Scopes |-> SettledAfter(m, s)]]
      /\ ~writing[m].on
  BY PartsOfInv DEF LoadAgain, TaskDone, SettingsTypeOK, Writes, HasTask
<1>2. Blind' = Blind /\ Stored' = Stored
  BY <1>1, BlindDone DEF Stored
<1>3. PICK S \in SUBSET Scopes : \A s \in Scopes : s \in S <=> Later(m, s) = {}
  <2>1. {s \in Scopes : Later(m, s) = {}} \in SUBSET Scopes
    OBVIOUS
  <2> QED
    BY <2>1
<1>4. asked' = [asked EXCEPT ![m] = [s \in Scopes |-> IF s \in S THEN {} ELSE @[s]]]
  BY <1>1, <1>3 DEF SettledAfter, SettingsTypeOK
<1>5. Shared!GiveUp(m)
  BY <1>1, <1>2, <1>4 DEF Shared!GiveUp, Stored
<1> QED
  BY <1>5 DEF Shared!SharedNext

LEMMA SetShared ==
    ASSUME SettingsInv, NEW m \in Managers, NEW s \in Scopes, NEW p \in Paths, NEW v \in Values,
           SetScoped(m, s, p, v)
    PROVE  Shared!SharedNext
<1>1. /\ SettingsTypeOK /\ Writes(m) /\ UNCHANGED <<disk, events, writing>>
      /\ asked' = [asked EXCEPT ![m][s] = @ \cup {<<Home(p), v>>}]
      /\ Home(p) \in Places
  BY PartsOfInv, HomesDiffer DEF SetScoped
<1>2. Stored' = Stored
  BY <1>1 DEF Stored
<1>3. \A n \in Managers : writing[n].on => Current(n)' = Current(n)
  <2>1. \A n \in Managers \ {m} : writeQueue'[n] = writeQueue[n]
    BY <1>1 DEF SetScoped, SettingsTypeOK
  <2>2. ASSUME writing[m].on PROVE Head(writeQueue'[m]) = Head(writeQueue[m])
    <3>1. writeQueue[m] # <<>> /\ writeQueue[m] \in Seq(Task \cup {ReloadTask})
      BY <1>1, <2>2, QueueType DEF Writes, HasTask
    <3>2. PICK w \in Task : writeQueue'[m] = writeQueue[m] \/ writeQueue'[m] = Append(writeQueue[m], w)
      <4> DEFINE w == QueuedWrite(m, s, [settings[m][s] EXCEPT ![p] = v], modified[m][s] \cup {p})
      <4>1. w \in Task
        BY <1>1, ContentOfPlaces DEF SettingsTypeOK, Content, QueuedWrite, Task
      <4> HIDE DEF w
      <4>2. writeQueue' = IF s \in loadError[m] THEN writeQueue
                          ELSE [writeQueue EXCEPT ![m] = Append(@, w)]
        BY DEF SetScoped, w
      <4> QED
        BY <1>1, <4>1, <4>2 DEF SettingsTypeOK
    <3> HIDE DEF Task, ReloadTask
    <3> QED
      BY <3>1, <3>2, QueueAppended
  <2> QED
    BY <2>1, <2>2 DEF Current
<1>4. Blind' = Blind
  BY <1>1, <1>3 DEF Blind, WritesBlind
<1>5. Shared!Ask(m, s)
  BY <1>1, <1>2, <1>4 DEF Shared!Ask, Stored
<1> QED
  BY <1>5 DEF Shared!SharedNext

LEMMA ReloadShared ==
    ASSUME SettingsInv, NEW m \in Managers, Reload(m)
    PROVE  Shared!SharedNext
<1>1. /\ SettingsTypeOK /\ Writes(m) /\ UNCHANGED <<disk, asked, writing>> /\ events' = events + 1
      /\ writeQueue' = [writeQueue EXCEPT ![m] = Append(@, ReloadTask)]
  BY PartsOfInv DEF Reload, Event
<1>2. \A n \in Managers : writing[n].on => Current(n)' = Current(n)
  <2>1. \A n \in Managers \ {m} : writeQueue'[n] = writeQueue[n]
    BY <1>1 DEF SettingsTypeOK
  <2>2. ASSUME writing[m].on PROVE Head(writeQueue'[m]) = Head(writeQueue[m])
    <3>1. writeQueue[m] # <<>> /\ writeQueue[m] \in Seq(Task \cup {ReloadTask})
      BY <1>1, <2>2, QueueType DEF Writes, HasTask
    <3>2. writeQueue'[m] = Append(writeQueue[m], ReloadTask)
      BY <1>1 DEF SettingsTypeOK
    <3> QED
      BY <3>1, <3>2, QueueAppended
  <2> QED
    BY <2>1, <2>2 DEF Current
<1>3. Blind' = Blind
  BY <1>1, <1>2 DEF Blind, WritesBlind
<1> QED
  BY <1>1, <1>3, NothingGivenUp DEF Shared!SharedNext

LEMMA EditShared ==
    ASSUME SettingsInv, NEW s \in Scopes, EditFile(s)
    PROVE  Shared!SharedNext
<1>1. /\ SettingsTypeOK /\ UNCHANGED <<asked, writing, writeQueue>> /\ events' = events + 1
  BY PartsOfInv DEF EditFile, Event
<1>2. Blind' = Blind
  BY <1>1 DEF Blind, WritesBlind, Current
<1>3. PICK f \in File : /\ disk' = [disk EXCEPT ![s] = f]
                        /\ f.kind = "json" \/ f = [kind |-> "invalid", at |-> Nothing]
  <2>1. \A p \in Paths, v \in Values : [kind |-> "json", at |-> [disk[s].at EXCEPT ![p] = v]] \in File
    <3>1. disk[s].at \in Content
      BY <1>1 DEF SettingsTypeOK, File
    <3>2. \A p \in Paths, v \in Values : [disk[s].at EXCEPT ![p] = v] \in Content
      BY <3>1, ContentOfPlaces DEF Content
    <3> QED
      BY <3>2 DEF File
  <2>2. [kind |-> "invalid", at |-> Nothing] \in File
    BY ContentOfPlaces DEF File
  <2> QED
    BY <2>1, <2>2 DEF EditFile
<1>4. Stored' = [Stored EXCEPT ![s] = [kind |-> f.kind, at |-> Migrate(f.at)]] /\ Migrate(f.at) \in Content
  BY <1>1, <1>3, StoredWritten, MigrateType DEF File
<1>5. CASE f.kind = "json"
  <2>1. \E c \in [Places -> Values \cup {Unset}] : Stored' = [Stored EXCEPT ![s] = [kind |-> "json", at |-> c]]
    BY <1>4, <1>5 DEF Content
  <2>2. Shared!Edit(s)
    BY <1>1, <1>2, <2>1 DEF Shared!Edit, Stored
  <2> QED
    BY <2>2 DEF Shared!SharedNext
<1>6. CASE f = [kind |-> "invalid", at |-> Nothing]
  <2>1. Stored' = [Stored EXCEPT ![s] = [kind |-> "invalid", at |-> Shared!Nothing]]
    BY <1>4, <1>6, NothingMigrated DEF Shared!Nothing, Nothing
  <2>2. Shared!Edit(s)
    BY <1>1, <1>2, <2>1 DEF Shared!Edit, Stored
  <2> QED
    BY <2>2 DEF Shared!SharedNext
<1> QED
  BY <1>3, <1>5, <1>6

LEMMA SharedStutters ==
    ASSUME \/ \E m \in Managers : Start(m) \/ DrainErrors(m)
           \/ \E s \in Scopes : StaleLockRemoved(s)
           \/ UNCHANGED settingsVars
    PROVE  UNCHANGED Shared!sharedVars
<1>1. UNCHANGED <<disk, writing, writeQueue, asked, events>>
  BY DEF Start, DrainErrors, StaleLockRemoved, settingsVars
<1> QED
  BY <1>1 DEF Shared!sharedVars, Blind, WritesBlind, Current

LEMMA SharedStep ==
    ASSUME SettingsInv, [SettingsNext]_settingsVars
    PROVE  [Shared!SharedNext]_Shared!sharedVars
<1>1. ASSUME NEW m \in Managers, Work(m) PROVE [Shared!SharedNext]_Shared!sharedVars
  BY <1>1, ReadShared, WriteShared, FailShared, LoadShared DEF Work
<1>2. ASSUME NEW m \in Managers, Reload(m) \/ Kill(m) PROVE Shared!SharedNext
  BY <1>2, ReloadShared, KillShared
<1>3. ASSUME NEW m \in Managers, NEW s \in Scopes, NEW p \in Paths, NEW v \in Values,
             SetScoped(m, s, p, v)
      PROVE  Shared!SharedNext
  BY <1>3, SetShared
<1>4. ASSUME NEW s \in Scopes, EditFile(s) PROVE Shared!SharedNext
  BY <1>4, EditShared
<1> QED
  BY <1>1, <1>2, <1>3, <1>4, SharedStutters DEF SettingsNext

LEMMA SharedStart == SettingsInit => Shared!SharedInit
<1> SUFFICES ASSUME SettingsInit PROVE Shared!SharedInit
  OBVIOUS
<1>1. SettingsTypeOK
  BY SettingsTypesInit
<1>2. Stored \in [Scopes -> [kind: {"absent", "json", "invalid"}, at: [Places -> Values \cup {Unset}]]]
  <2>1. \A s \in Scopes : disk[s].kind \in {"absent", "json", "invalid"} /\ Migrate(disk[s].at) \in Content
    BY <1>1, MigrateType DEF SettingsTypeOK, File
  <2> QED
    BY <2>1 DEF Stored, Content
<1>3. Blind = {}
  BY DEF SettingsInit, Blind, WritesBlind, Each, NotWriting
<1> QED
  BY <1>2, <1>3 DEF SettingsInit, PerScope, Each, Shared!SharedInit, Stored

(* The processes share each settings file as SharedSettings says, whatever *)
(* they, the user and failures do: a write changes what its process was    *)
(* asked to change and nothing else (persistScopedSettings, withLock); a   *)
(* thinking budget counts as changed where it is moved to.                 *)
THEOREM SettingsAreShared == SettingsSpec => ImplementsShared
<1>1. SettingsInv /\ [SettingsNext]_settingsVars => [Shared!SharedNext]_Shared!sharedVars
  BY SharedStep
<1> QED
  BY <1>1, SharedStart, SettingsInvInit, SettingsInvNext, PTL
     DEF SettingsSpec, ImplementsShared, Shared!SharedSpec

-----------------------------------------------------------------------------
(***************************************************************************)
(* One token refresh at a time, for any number of processes, calls,        *)
(* providers, tokens and changes.                                          *)
(*                                                                         *)
(* As long as no lock is taken away from its holder, a call that talks to  *)
(* the provider holds the lock, and nobody else changes the file it has    *)
(* read.  As long as nothing at all goes wrong, the token in the file is   *)
(* one the provider accepts, but between a call's answer and its write.    *)
(***************************************************************************)

-----------------------------------------------------------------------------
(* Types. *)

LEMMA CredTypes ==
    /\ None \in Cred /\ ApiKey \in Cred
    /\ \A t \in Tokens : Token(t) \in Cred
BY DEF None, ApiKey, Token, Cred

LEMMA InitTypes == AuthInit => AuthTypeOK
<1>. SUFFICES ASSUME AuthInit PROVE AuthTypeOK
  OBVIOUS
<1>1. 1 \in Tokens /\ {0, 1} \subseteq 0 .. MaxToken
  BY AuthAssumption DEF Tokens
<1>2. authFile \in Creds
  BY <1>1, CredTypes DEF AuthInit, Creds
<1>. QED BY <1>1, <1>2, CredTypes DEF AuthInit, AuthTypeOK, Creds, Stages

LEMMA ReloadTypes ==
    ASSUME AuthTypeOK, NEW m \in Processes, ReloadCredentials(m)
    PROVE  data' \in [Processes -> Creds] /\ failedLoad' \subseteq Processes
<1>1. CASE SyncLocked
  <2>1. data' = [data EXCEPT ![m] = authFile] /\ failedLoad' = failedLoad \ {m}
    BY <1>1 DEF ReloadCredentials
  <2>. QED BY <2>1 DEF AuthTypeOK
<1>2. CASE ~SyncLocked
  <2>1. data' = data /\ failedLoad' = failedLoad \cup {m}
    BY <1>2 DEF ReloadCredentials
  <2>. QED BY <2>1 DEF AuthTypeOK
<1>. QED BY <1>1, <1>2

LEMMA TornTypes ==
    ASSUME AuthTypeOK, WriteTorn
    PROVE  authFile' \in Creds /\ readable' \in BOOLEAN
<1>1. authFile' = authFile \/ authFile' = [p \in Providers |-> None]
  BY Zenon DEF WriteTorn
<1>2. authFile' \in Creds
  BY <1>1, CredTypes DEF Creds, AuthTypeOK
<1>3. readable' \in {readable, TRUE, FALSE}
  BY Zenon DEF WriteTorn
<1>. QED BY <1>2, <1>3, Zenon DEF AuthTypeOK

LEMMA NextTypes == AuthTypeOK /\ [AuthNext]_authVars => AuthTypeOK'
<1>. SUFFICES ASSUME AuthTypeOK, [AuthNext]_authVars PROVE AuthTypeOK'
  OBVIOUS
<1>. USE DEF AuthTypeOK
<1>1. ASSUME NEW m \in Processes, NEW p \in Providers, NEW cred \in Cred, Change(m, p, cred),
             live' \subseteq Tokens, issued' \in Tokens
      PROVE AuthTypeOK'
  <2>1. authFile' \in Creds /\ readable' \in BOOLEAN
    <3>1. \/ /\ authFile' = [authFile EXCEPT ![p] = cred] \/ authFile' = authFile
             /\ readable' = readable
          \/ WriteTorn
      BY <1>1, Zenon DEF Change, Persist
    <3>2. CASE /\ authFile' = [authFile EXCEPT ![p] = cred] \/ authFile' = authFile
               /\ readable' = readable
      BY <1>1, <3>2 DEF Creds
    <3>. QED BY <3>1, <3>2, TornTypes
  <2>2. authFaults' \in Nat
    BY <1>1 DEF Change, Persist, Fault
  <2>. QED BY <1>1, <2>1, <2>2 DEF Change, Creds
<1>2. ASSUME NEW m \in Processes, NEW p \in Providers, SetKey(m, p) \/ Remove(m, p)
      PROVE AuthTypeOK'
  BY <1>1, <1>2, CredTypes DEF SetKey, Remove
<1>3. ASSUME NEW m \in Processes, Login(m) PROVE AuthTypeOK'
  <2>1. issued' \in Tokens /\ live' \subseteq Tokens
    BY <1>3, AuthAssumption DEF Login, Tokens
  <2>. QED BY <1>1, <1>3, <2>1, CredTypes, AuthAssumption DEF Login
<1>4. ASSUME NEW m \in Processes, Reloads(m) PROVE AuthTypeOK'
  <2>1. data' \in [Processes -> Creds] /\ failedLoad' \subseteq Processes
    BY <1>4, ReloadTypes DEF Reloads
  <2>. QED BY <1>4, <2>1 DEF Reloads, Provider
<1>5. ASSUME NEW m \in Processes, KillProcess(m) PROVE AuthTypeOK'
  <2>1. authFile' \in Creds /\ readable' \in BOOLEAN
    <3>1. UNCHANGED <<authFile, readable>> \/ WriteTorn
      BY <1>5, Zenon DEF KillProcess
    <3>. QED BY <3>1, TornTypes
  <2>2. /\ running' \subseteq Processes /\ authFaults' \in Nat
        /\ authLock' \in Calls \cup {Free, Gone}
    BY <1>5 DEF KillProcess, Fault
  <2>3. pc' \in [Calls -> Stages]
    <3>1. PICK mine : pc' = [d \in Calls |-> IF d \in mine THEN "killed" ELSE pc[d]]
      BY <1>5 DEF KillProcess
    <3>. QED BY <3>1 DEF Stages
  <2>. QED BY <1>5, <2>1, <2>2, <2>3 DEF KillProcess, Provider
<1>6. ASSUME NEW c \in Calls, GetApiKey(c) \/ NotLocked(c) \/ OnCompromised(c)
      PROVE AuthTypeOK'
  BY <1>6 DEF GetApiKey, NotLocked, OnCompromised, To, Stages, Provider
<1>7. ASSUME NEW c \in Calls, Locked(c) PROVE AuthTypeOK'
  <2>1. data' \in [Processes -> Creds] /\ failedLoad' \subseteq Processes
    BY <1>7, AuthAssumption DEF Locked, ReadUnderLock
  <2>2. /\ authLock' \in Calls \cup {Free, Gone}
        /\ base' \in [Calls -> Creds]
        /\ pc' \in [Calls -> Stages]
    BY <1>7 DEF Locked, ReadUnderLock, To, Stages
  <2>. QED BY <1>7, <2>1, <2>2 DEF Locked, Provider
<1>8. ASSUME NEW c \in Calls, ProviderAnswers(c) PROVE AuthTypeOK'
  <2>1. /\ issued' \in Tokens /\ live' \subseteq Tokens
        /\ answer' \in [Calls -> Cred]
    <3>1. \/ UNCHANGED <<issued, live, answer>>
          \/ /\ issued < MaxToken /\ issued' = issued + 1
             /\ live' \subseteq live \cup {issued'}
             /\ answer' = answer \/ answer' = [answer EXCEPT ![c] = Token(issued')]
      BY <1>8 DEF ProviderAnswers
    <3>2. issued' \in Tokens
      BY <3>1, AuthAssumption DEF Tokens
    <3>. QED BY <3>1, <3>2, CredTypes
  <2>2. /\ pc' \in [Calls -> Stages] /\ authFaults' \in Nat
        /\ authLock' \in Calls \cup {Free, Gone}
    BY <1>8 DEF ProviderAnswers, To, Stages, Released, Fault
  <2>3. \/ rejected' = rejected
        \/ rejected' = TRUE
    BY <1>8, Zenon DEF ProviderAnswers
  <2>4. rejected' \in BOOLEAN
    BY <2>3, Zenon
  <2>. QED BY <1>8, <2>1, <2>2, <2>4 DEF ProviderAnswers
<1>9. ASSUME NEW c \in Calls, Finish(c) PROVE AuthTypeOK'
  <2>1. Refreshed(c) \in Creds
    <3>1. base[c] \in [Providers -> Cred] /\ answer[c] \in Cred
      BY DEF Creds
    <3>. QED BY <3>1 DEF Refreshed, Creds
  <2>2. data' \in [Processes -> Creds] /\ failedLoad' \subseteq Processes
    BY <1>9, <2>1, AuthAssumption DEF Finish
  <2>3. pc' \in [Calls -> Stages] /\ authFaults' \in Nat
    <3>1. /\ To(c, "failed") \/ To(c, "returned")
          /\ authFaults' = authFaults \/ authFaults' = authFaults + 1
      BY <1>9 DEF Finish, Save, Fault
    <3>. QED BY <3>1 DEF To, Stages
  <2>6. authFile' \in Creds /\ readable' \in BOOLEAN
    <3>1. \/ UNCHANGED <<authFile, readable>>
          \/ authFile' = Refreshed(c) /\ readable' = TRUE
          \/ WriteTorn
      BY <1>9, Zenon DEF Finish, Save
    <3>. QED BY <2>1, <3>1, TornTypes, Zenon
  <2>4. authLock' \in Calls \cup {Free, Gone}
    BY <1>9 DEF Finish, Released
  <2>. QED BY <1>9, <2>2, <2>3, <2>4, <2>6 DEF Finish, Provider
<1>10. ASSUME NEW c \in Calls, Recover(c) PROVE AuthTypeOK'
  <2>1. data' \in [Processes -> Creds] /\ failedLoad' \subseteq Processes
    BY <1>10, ReloadTypes, AuthAssumption DEF Recover
  <2>. QED BY <1>10, <2>1 DEF Recover, To, Stages, Provider
<1>11. ASSUME NEW c \in Calls, LockTakenAway(c) PROVE AuthTypeOK'
  BY <1>11 DEF LockTakenAway, Fault, Provider
<1>12. CASE TokensExpire \/ LockGoesStale
  <2>1. /\ expired' \in 0 .. MaxToken
        /\ authLock' \in Calls \cup {Free, Gone}
    BY <1>12 DEF TokensExpire, LockGoesStale, Tokens, Provider
  <2>. QED BY <1>12, <2>1 DEF TokensExpire, LockGoesStale, Provider
<1>13. CASE UNCHANGED authVars
  BY <1>13 DEF authVars
<1>. QED
  BY <1>2, <1>3, <1>4, <1>5, <1>6, <1>7, <1>8, <1>9, <1>10, <1>11, <1>12, <1>13
     DEF AuthNext, CallStep

(* The variables of the credential store keep their types (AuthStorage's   *)
(* fields, the lock, the file).                                            *)
THEOREM AuthTypeCorrect == AuthSpec => []AuthTypeOK
BY InitTypes, NextTypes, PTL DEF AuthSpec

-----------------------------------------------------------------------------
(* The lock.                                                               *)

AtProvider(c) == pc[c] \in {"requesting", "answered"}

(* While no lock is taken away: whoever talks to the provider holds the    *)
(* lock, and the file is as it has read it.                                *)
LockHeld ==
    ~broken => \A c \in Calls : AtProvider(c) => authLock = c /\ base[c] = authFile

(* While nothing has gone wrong.  The holder's token is the one the        *)
(* provider accepts until it answers, and the answer is from then on.      *)
Undisturbed ==
    authFaults = 0 =>
        /\ ~broken /\ ~rejected /\ flagged = {}
        /\ authLock \in {Free} \cup {c \in Calls : AtProvider(c)}
        /\ \A c \in Calls :
              /\ pc[c] = "requesting" => base[c][OAuth].token \in live
              /\ pc[c] = "answered" => answer[c].token \in live
        /\ \/ \E c \in Calls : pc[c] = "answered"
           \/ authFile[OAuth].kind = "oauth" => authFile[OAuth].token \in live

AuthInv == AuthTypeOK /\ LockHeld /\ Undisturbed

(* With the lock in the hands of a call, set, remove and login leave the   *)
(* file alone.                                                             *)
LEMMA ChangeUnderLock ==
    ASSUME NEW m \in Processes, NEW p \in Providers, NEW cred, Change(m, p, cred),
           authLock \in Calls
    PROVE  authFile' = authFile
<1>1. ~SyncLocked
  BY AuthAssumption DEF SyncLocked
<1>. QED BY <1>1 DEF Change, Persist, MayPersist

(* Nor does a process that is killed touch it while another one's call has *)
(* the lock.                                                               *)
LEMMA KillUnderLock ==
    ASSUME LockHeld, ~broken, NEW m \in Processes, KillProcess(m),
           NEW c \in Calls, AtProvider(c), ProcessOf[c] # m
    PROVE  authFile' = authFile /\ authLock' = c
<1>1. authLock = c /\ ~SyncLocked
  BY AuthAssumption DEF LockHeld, SyncLocked
<1>2. ~\E d \in Calls : ProcessOf[d] = m /\ pc[d] = "answered"
  BY <1>1 DEF LockHeld, AtProvider
<1>. QED BY <1>1, <1>2 DEF KillProcess, MayPersist

LEMMA InitInv == AuthInit => AuthInv
<1>. SUFFICES ASSUME AuthInit PROVE AuthInv
  OBVIOUS
<1>1. LockHeld
  BY DEF AuthInit, LockHeld, AtProvider
<1>2. Undisturbed
  <2>1. authFile[OAuth].kind = "oauth" => authFile[OAuth].token \in live
    <3>1. authFile[OAuth] = IF readable THEN Token(1) ELSE None
      BY AuthAssumption DEF AuthInit
    <3>. QED BY <3>1 DEF AuthInit, Token, None
  <2>. QED BY <2>1 DEF AuthInit, Undisturbed
<1>. QED BY <1>1, <1>2, InitTypes DEF AuthInv

LEMMA LockHeldNext == AuthTypeOK /\ LockHeld /\ [AuthNext]_authVars => LockHeld'
<1>. SUFFICES ASSUME AuthTypeOK, LockHeld, [AuthNext]_authVars, ~broken',
                     NEW c \in Calls, AtProvider(c)'
              PROVE  authLock' = c /\ base'[c] = authFile'
  BY DEF LockHeld, AtProvider
<1>. USE DEF AtProvider
<1>1. ~broken => (AtProvider(c) => authLock = c /\ base[c] = authFile)
  BY DEF LockHeld
<1>2. CASE UNCHANGED <<authFile, authLock, pc, base, broken>>
  BY <1>1, <1>2
<1>3. ASSUME NEW m \in Processes, NEW p \in Providers, NEW cred, Change(m, p, cred)
      PROVE  authLock' = c /\ base'[c] = authFile'
  <2>1. UNCHANGED <<authLock, pc, base, broken>>
    BY <1>3 DEF Change
  <2>2. authLock = c /\ base[c] = authFile
    BY <1>1, <2>1
  <2>3. authFile' = authFile
    BY <1>3, <2>2, ChangeUnderLock
  <2>. QED BY <2>1, <2>2, <2>3
<1>4. ASSUME NEW m \in Processes, KillProcess(m)
      PROVE  authLock' = c /\ base'[c] = authFile'
  <2>1. ProcessOf[c] # m /\ pc'[c] = pc[c]
    BY <1>4 DEF KillProcess
  <2>2. ~broken /\ base' = base /\ AtProvider(c)
    BY <1>4, <2>1 DEF KillProcess
  <2>3. authFile' = authFile /\ authLock' = c
    BY <1>4, <2>1, <2>2, KillUnderLock
  <2>. QED BY <1>1, <2>2, <2>3
<1>5. ASSUME NEW d \in Calls, Locked(d)
      PROVE  authLock' = c /\ base'[c] = authFile'
  <2>1. c = d
    BY <1>1, <1>5, AuthAssumption DEF Locked, To
  <2>2. pc'[d] \in {"failed", "requesting", "returned"}
    BY <1>5 DEF Locked, To, AuthTypeOK
  <2>. QED BY <1>5, <2>1, <2>2 DEF Locked, To, ReadUnderLock, AuthTypeOK
<1>6. ASSUME NEW d \in Calls, GetApiKey(d) \/ NotLocked(d) \/ Recover(d) \/ OnCompromised(d)
      PROVE  authLock' = c /\ base'[c] = authFile'
  <2>1. UNCHANGED <<authLock, base, authFile, broken>>
    BY <1>6 DEF GetApiKey, NotLocked, Recover, OnCompromised
  <2>2. AtProvider(c)
    BY <1>6 DEF GetApiKey, NotLocked, Recover, OnCompromised, To, AuthTypeOK, Stages
  <2>. QED BY <1>1, <2>1, <2>2
<1>7. ASSUME NEW d \in Calls, ProviderAnswers(d)
      PROVE  authLock' = c /\ base'[c] = authFile'
  <2>1. UNCHANGED <<base, authFile, broken>>
    BY <1>7 DEF ProviderAnswers
  <2>2. AtProvider(c)
    BY <1>7 DEF ProviderAnswers, To, At, AuthTypeOK, Stages
  <2>3. CASE c = d
    BY <1>1, <1>7, <2>1, <2>2, <2>3 DEF ProviderAnswers, To, AuthTypeOK
  <2>4. CASE c # d
    BY <1>1, <1>7, <2>1, <2>2, <2>4 DEF ProviderAnswers, Released
  <2>. QED BY <2>3, <2>4
<1>8. ASSUME NEW d \in Calls, Finish(d)
      PROVE  authLock' = c /\ base'[c] = authFile'
  <2>1. c # d /\ AtProvider(c) /\ UNCHANGED broken
    BY <1>8 DEF Finish, Save, To, AuthTypeOK, Stages
  <2>2. AtProvider(d)
    BY <1>8 DEF Finish, At
  <2>. QED BY <2>1, <2>2 DEF LockHeld
<1>9. ASSUME NEW d \in Calls, LockTakenAway(d)
      PROVE  authLock' = c /\ base'[c] = authFile'
  BY <1>9 DEF LockTakenAway
<1>10. CASE LockGoesStale
  BY <1>1, <1>10, AuthAssumption DEF LockGoesStale
<1>11. CASE TokensExpire \/ UNCHANGED authVars \/ \E m \in Processes : Reloads(m)
  BY <1>2, <1>11 DEF TokensExpire, Reloads, authVars
<1>12. ASSUME NEW m \in Processes,
              Login(m) \/ \E p \in Providers : SetKey(m, p) \/ Remove(m, p)
       PROVE  authLock' = c /\ base'[c] = authFile'
  BY <1>3, <1>12, AuthAssumption DEF Login, SetKey, Remove
<1>. QED
  BY <1>4, <1>5, <1>6, <1>7, <1>8, <1>9, <1>10, <1>11, <1>12 DEF AuthNext, CallStep

(* Whoever may not have the lock is not at the provider.                   *)
LEMMA NobodyAtProvider ==
    ASSUME LockHeld, ~broken, authLock \notin Calls, NEW c \in Calls
    PROVE  ~AtProvider(c)
BY DEF LockHeld

(* The parts of Undisturbed that are about one step: what was said of      *)
(* calls and file stays true when nobody's place changes and the provider  *)
(* forgets no token.                                                       *)
LEMMA UndisturbedKept ==
    ASSUME Undisturbed, authFaults' = 0 => authFaults = 0,
           UNCHANGED <<authFile, authLock, broken, rejected, flagged, base, answer>>,
           live \subseteq live',
           \A c \in Calls : AtProvider(c) \/ AtProvider(c)' => pc'[c] = pc[c]
    PROVE  Undisturbed'
BY DEF Undisturbed, AtProvider

LEMMA UndisturbedChange ==
    ASSUME AuthTypeOK, LockHeld, Undisturbed,
           NEW m \in Processes, NEW p \in Providers, NEW cred, Change(m, p, cred),
           live \subseteq live',
           p = OAuth /\ cred.kind = "oauth" => cred.token \in live'
    PROVE  Undisturbed'
<1>1. UNCHANGED <<authLock, pc, base, answer, flagged, broken, rejected>>
  BY DEF Change
<1>2. CASE authFile' = authFile /\ authFaults' = authFaults
  BY <1>1, <1>2, UndisturbedKept DEF AtProvider
<1>3. CASE authFile' # authFile /\ authFaults' = authFaults /\ authFaults = 0
  <2>1. authFile' = [authFile EXCEPT ![p] = cred]
    BY <1>3 DEF Change, Persist, Fault, AuthTypeOK
  <2>2. ~\E c \in Calls : AtProvider(c)
    BY <1>3, ChangeUnderLock, NobodyAtProvider DEF Undisturbed
  <2>3. authFile'[OAuth].kind = "oauth" => authFile'[OAuth].token \in live'
    <3>1. authFile'[OAuth] = IF p = OAuth THEN cred ELSE authFile[OAuth]
      BY <2>1, AuthAssumption DEF AuthTypeOK, Creds
    <3>. QED BY <1>3, <2>2, <3>1 DEF Undisturbed, AtProvider
  <2>. QED BY <1>1, <1>3, <2>2, <2>3 DEF Undisturbed, AtProvider
<1>4. CASE authFaults' # 0
  BY <1>4 DEF Undisturbed
<1>5. authFaults' = authFaults \/ authFaults' # 0
  BY DEF Change, Persist, Fault, AuthTypeOK
<1>. QED BY <1>2, <1>3, <1>4, <1>5

LEMMA UndisturbedLocked ==
    ASSUME AuthTypeOK, LockHeld, Undisturbed, NEW c \in Calls, Locked(c)
    PROVE  Undisturbed'
<1>1. SUFFICES ASSUME authFaults = 0 PROVE Undisturbed'
  BY DEF Locked, Undisturbed
<1>2. /\ authFaults' = 0 /\ ~broken' /\ ~rejected' /\ flagged' = {}
      /\ UNCHANGED <<authFile, live, answer>>
  BY <1>1 DEF Locked, Undisturbed, Provider
<1>3. ~\E d \in Calls : AtProvider(d)
  BY <1>1, NobodyAtProvider, AuthAssumption DEF Locked, Undisturbed
<1>4. authFile[OAuth].kind = "oauth" => authFile[OAuth].token \in live
  BY <1>1, <1>3 DEF Undisturbed, AtProvider
<1>5. \A d \in Calls : pc'[d] # "answered" /\ (pc'[d] = "requesting" => d = c)
  BY <1>3 DEF Locked, To, AuthTypeOK, AtProvider
<1>6. CASE pc'[c] = "requesting"
  <2>1. /\ authFile[OAuth].kind = "oauth" /\ authLock' = c
        /\ base' = [base EXCEPT ![c] = authFile]
    BY <1>6 DEF Locked, ReadUnderLock, To, AuthTypeOK
  <2>2. base'[c] = authFile
    BY <2>1 DEF AuthTypeOK
  <2>. QED BY <1>2, <1>4, <1>5, <1>6, <2>1, <2>2 DEF Undisturbed, AtProvider
<1>7. CASE pc'[c] # "requesting"
  <2>1. authLock' = Free
    BY <1>7 DEF Locked, ReadUnderLock, To, AuthTypeOK
  <2>. QED BY <1>2, <1>4, <1>5, <1>7, <2>1 DEF Undisturbed, AtProvider
<1>. QED BY <1>6, <1>7

(* The provider takes the token of the call that holds the lock.           *)
LEMMA UndisturbedProvider ==
    ASSUME AuthTypeOK, LockHeld, Undisturbed, NEW c \in Calls, ProviderAnswers(c)
    PROVE  Undisturbed'
<1>1. SUFFICES ASSUME authFaults' = 0 PROVE Undisturbed'
  BY DEF Undisturbed
<1>2. /\ authFaults = 0
      /\ UNCHANGED <<authFile, base, flagged, broken>>
  BY <1>1 DEF ProviderAnswers, Fault, AuthTypeOK
<1>3. pc[c] = "requesting" /\ base[c][OAuth].token \in live
  BY <1>2 DEF ProviderAnswers, At, Undisturbed
<1>4. /\ live' = (live \ {base[c][OAuth].token}) \cup {issued'}
      /\ answer' = [answer EXCEPT ![c] = Token(issued')]
      /\ To(c, "answered")
      /\ UNCHANGED <<authLock, rejected>>
  BY <1>1, <1>2, <1>3 DEF ProviderAnswers, Fault, AuthTypeOK
<1>5. authLock = c /\ \A d \in Calls \ {c} : ~AtProvider(d)
  BY <1>2, <1>3 DEF LockHeld, Undisturbed, AtProvider
<1>6. pc'[c] = "answered" /\ \A d \in Calls \ {c} : pc'[d] = pc[d]
  BY <1>4 DEF To, AuthTypeOK
<1>7. answer'[c].token \in live'
  BY <1>4 DEF AuthTypeOK, Token
<1>. QED BY <1>1, <1>2, <1>4, <1>5, <1>6, <1>7 DEF Undisturbed, AtProvider

(* Its answer is written before the lock is given back.                    *)
LEMMA UndisturbedFinish ==
    ASSUME AuthTypeOK, LockHeld, Undisturbed, NEW c \in Calls, Finish(c)
    PROVE  Undisturbed'
<1>1. SUFFICES ASSUME authFaults' = 0 PROVE Undisturbed'
  BY DEF Undisturbed
<1>2. /\ authFaults = 0 /\ flagged = {}
      /\ UNCHANGED <<base, answer, flagged, broken, live, rejected>>
  <2>1. authFaults' = authFaults \/ authFaults' = authFaults + 1
    BY DEF Finish, Save, Fault
  <2>2. authFaults = 0
    BY <1>1, <2>1 DEF AuthTypeOK
  <2>. QED BY <2>2 DEF Finish, Undisturbed, Provider
<1>3. pc[c] = "answered" /\ answer[c].token \in live
  BY <1>2 DEF Finish, At, Undisturbed
<1>4. authFile' = Refreshed(c) /\ To(c, "returned")
  BY <1>1, <1>2 DEF Finish, Save, Fault, AuthTypeOK
<1>5. authLock = c /\ \A d \in Calls \ {c} : ~AtProvider(d)
  BY <1>2, <1>3 DEF LockHeld, Undisturbed, AtProvider
<1>6. authLock' = Free
  BY <1>5 DEF Finish, Released
<1>7. \A d \in Calls : ~AtProvider(d)'
  BY <1>4, <1>5 DEF To, AtProvider, AuthTypeOK
<1>8. authFile'[OAuth] = answer[c]
  BY <1>4, AuthAssumption DEF Refreshed, AuthTypeOK, Creds
<1>. QED BY <1>1, <1>2, <1>3, <1>6, <1>7, <1>8 DEF Undisturbed, AtProvider

LEMMA UndisturbedNext ==
    AuthTypeOK /\ LockHeld /\ Undisturbed /\ [AuthNext]_authVars => Undisturbed'
<1>. SUFFICES ASSUME AuthTypeOK, LockHeld, Undisturbed, [AuthNext]_authVars PROVE Undisturbed'
  OBVIOUS
<1>1. ASSUME NEW m \in Processes, NEW p \in Providers, SetKey(m, p) \/ Remove(m, p)
      PROVE  Undisturbed'
  BY <1>1, UndisturbedChange DEF SetKey, Remove, ApiKey, None
<1>2. ASSUME NEW m \in Processes, Login(m) PROVE Undisturbed'
  BY <1>2, UndisturbedChange, AuthAssumption DEF Login, Token
<1>3. ASSUME NEW c \in Calls, GetApiKey(c) \/ NotLocked(c) \/ Recover(c) PROVE Undisturbed'
  <2>1. \A d \in Calls : AtProvider(d) \/ AtProvider(d)' => pc'[d] = pc[d]
    BY <1>3 DEF GetApiKey, NotLocked, Recover, To, At, AtProvider, AuthTypeOK, Stages
  <2>. QED BY <1>3, <2>1, UndisturbedKept DEF GetApiKey, NotLocked, Recover, Provider
<1>4. CASE TokensExpire \/ UNCHANGED authVars \/ \E m \in Processes : Reloads(m)
  <2>1. UNCHANGED <<authFile, authLock, pc, base, answer, flagged, live, rejected, broken,
                    authFaults>>
    BY <1>4 DEF TokensExpire, Reloads, authVars, Provider
  <2>. QED BY <2>1, UndisturbedKept
<1>5. ASSUME NEW c \in Calls, OnCompromised(c) PROVE Undisturbed'
  <2>1. AtProvider(c) /\ authLock # c
    BY <1>5 DEF OnCompromised, AtProvider
  <2>2. authFaults' # 0
    BY <1>5, <2>1 DEF LockHeld, Undisturbed, OnCompromised
  <2>. QED BY <2>2 DEF Undisturbed
<1>6. CASE \/ \E m \in Processes : KillProcess(m)
           \/ \E c \in Calls : LockTakenAway(c)
  BY <1>6 DEF KillProcess, LockTakenAway, Fault, AuthTypeOK, Undisturbed
<1>7. CASE LockGoesStale
  <2>1. authFaults' # 0
    BY <1>7, AuthAssumption DEF LockGoesStale, Undisturbed, Free, Gone
  <2>. QED BY <2>1 DEF Undisturbed
<1>. QED
  BY <1>1, <1>2, <1>3, <1>4, <1>5, <1>6, <1>7, UndisturbedLocked, UndisturbedProvider,
     UndisturbedFinish
     DEF AuthNext, CallStep

LEMMA AuthInvariant == AuthSpec => []AuthInv
<1>1. AuthInv /\ [AuthNext]_authVars => AuthInv'
  BY NextTypes, LockHeldNext, UndisturbedNext DEF AuthInv
<1>. QED BY <1>1, InitInv, PTL DEF AuthSpec

-----------------------------------------------------------------------------
(* However many processes and calls find a token expired, its refresh      *)
(* token is used once (refreshOAuthTokenWithLock): the provider rejects    *)
(* none unless a lock was taken away, a process killed, or an answer or a  *)
(* write lost.                                                             *)
THEOREM RefreshedOnce == AuthSpec => []NeverRejected
<1>1. AuthInv => NeverRejected
  BY DEF AuthInv, AuthTypeOK, Undisturbed, NeverRejected
<1>. QED BY <1>1, AuthInvariant, PTL

(* Without such a fault the file holds a token that the provider accepts   *)
(* whenever nobody holds its lock.                                         *)
THEOREM StoredTokenWorks == AuthSpec => []StoredTokenAccepted
<1>1. AuthInv => StoredTokenAccepted
  <2>. SUFFICES ASSUME AuthInv, authFaults = 0, authLock = Free, authFile[OAuth].kind = "oauth"
                PROVE  authFile[OAuth].token \in live
    BY DEF StoredTokenAccepted
  <2>1. \A c \in Calls : ~AtProvider(c)
    BY AuthAssumption, NobodyAtProvider DEF AuthInv, Undisturbed
  <2>. QED BY <2>1 DEF AuthInv, Undisturbed, AtProvider
<1>. QED BY <1>1, AuthInvariant, PTL

(* A refresh that ends (refreshOAuthTokenWithLock) has dropped nothing     *)
(* that is in the file, although it writes back what it read before it     *)
(* waited for the provider, and its process has in memory what is there.   *)
(* A set or remove that came meanwhile did not reach the file.             *)
THEOREM OthersSurvive == AuthSpec => OthersKept
<1>1. AuthInv /\ [AuthNext]_authVars =>
          [\A c \in Calls : pc[c] = "answered" /\ pc'[c] = "returned" =>
              broken \/ KeepsOthers(c)]_authVars
  <2>. SUFFICES ASSUME AuthInv, [AuthNext]_authVars,
                       NEW c \in Calls, pc[c] = "answered", pc'[c] = "returned", ~broken,
                       NEW p \in Providers \ {OAuth}
                PROVE  authFile'[p] = authFile[p] /\ data'[ProcessOf[c]][p] = authFile[p]
    BY DEF KeepsOthers
  <2>1. authLock = c /\ base[c] = authFile
    BY DEF AuthInv, LockHeld, AtProvider
  <2>2. CASE Finish(c)
    <3>1. Refreshed(c)[p] = authFile[p]
      BY <2>1 DEF Refreshed, AuthInv, AuthTypeOK, Creds
    <3>2. data'[ProcessOf[c]] = Refreshed(c)
      BY <2>2, AuthAssumption DEF Finish, AuthInv, AuthTypeOK
    <3>3. authFile' = Refreshed(c)
      BY <2>2 DEF Finish, Save, To, AuthInv, AuthTypeOK
    <3>. QED BY <3>1, <3>2, <3>3
  <2>3. ASSUME NEW d \in Calls, d # c, CallStep(d) PROVE FALSE
    BY <2>3 DEF CallStep, Locked, NotLocked, ProviderAnswers, Finish, Save, Recover, To,
       AuthInv, AuthTypeOK
  <2>4. CASE CallStep(c)
    BY <2>2, <2>4 DEF CallStep, Locked, NotLocked, ProviderAnswers, Recover, At
  <2>5. ASSUME NEW d \in Calls, GetApiKey(d) \/ LockTakenAway(d) \/ OnCompromised(d) PROVE FALSE
    BY <2>5 DEF GetApiKey, LockTakenAway, OnCompromised, To, At, AuthInv, AuthTypeOK
  <2>6. ASSUME NEW m \in Processes,
               \/ Login(m) \/ Reloads(m) \/ KillProcess(m)
               \/ \E q \in Providers : SetKey(m, q) \/ Remove(m, q)
        PROVE  FALSE
    BY <2>6 DEF Login, Reloads, KillProcess, SetKey, Remove, Change
  <2>7. CASE TokensExpire \/ LockGoesStale \/ UNCHANGED authVars
    BY <2>7 DEF TokensExpire, LockGoesStale, authVars
  <2>. QED BY <2>3, <2>4, <2>5, <2>6, <2>7 DEF AuthNext
<1>. QED BY <1>1, AuthInvariant, PTL DEF AuthSpec, OthersKept
=============================================================================
