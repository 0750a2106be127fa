--------------------------- MODULE SessionManager ---------------------------
(***************************************************************************)
(* The session store of the coding agent                                   *)
(* (packages/coding-agent/src/core/session-manager.ts).                    *)
(*                                                                         *)
(* A session is an append-only tree of entries kept in memory by a         *)
(* SessionManager and, line by line, in a JSONL file.  The module models   *)
(* one process that owns one SessionManager at a time, every operation     *)
(* that changes its state, and the files it writes, with the process       *)
(* killed or a write failing between (or inside) two lines of a file.      *)
(*                                                                         *)
(* Abstractions.  An entry's id is a number handed out in increasing order *)
(* (the code draws 8 hex digits of a random UUID and checks them against   *)
(* byId).  Message text, timestamps, names and directories are left out.   *)
(* A file is the sequence of its parseable lines plus the state of its     *)
(* end: a malformed line is skipped by the loader and never read again.    *)
(***************************************************************************)
EXTENDS Integers, Sequences, FiniteSets

CONSTANTS
    MaxId,          \* bound: entries handed out over the whole behaviour
    MaxFile,        \* bound: session files 1 .. MaxFile
    Labels,         \* label texts a user may set
    Roles,          \* bound: which roles messages have; "user" stands for all but assistant
    AppendedTypes,  \* bound: which types of entry are appended
    MemoryOnly,     \* bound: whether sessions without a file are started too
    Precreated,     \* files the user created empty before starting the program
    Faults,         \* what may interrupt a write: "kill" and/or "throw"
    TornWrites      \* whether an interrupted write may stop in the middle of a line

SettingTypes   == {"thinking_level_change", "model_change"}
ExtensionTypes == {"custom", "session_info", "custom_message"}
Types == {"message", "compaction", "branch_summary", "label"}
             \cup SettingTypes \cup ExtensionTypes

ASSUME BoundsAssumption == MaxId \in Nat /\ MaxFile \in Nat
ASSUME InputAssumption ==
    /\ Labels \subseteq STRING /\ "none" \notin Labels
    /\ Roles \subseteq {"user", "assistant"}
    /\ AppendedTypes \subseteq Types
    /\ Precreated \subseteq 1 .. MaxFile /\ MemoryOnly \in BOOLEAN
ASSUME FaultAssumption == Faults \subseteq {"kill", "throw"} /\ TornWrites \in BOOLEAN

Ids     == 1 .. MaxId
Files   == 1 .. MaxFile
Null    == 0            \* null / undefined for ids
NoFile  == 0            \* sessionFile of an in-memory session
NoLabel == "none"

(* One record shape for every entry: ref is the entry a compaction keeps   *)
(* from, a label is put on or a branch summary starts at; val is the role  *)
(* of a message or the text of a label.                                    *)
Entry == {e \in [id: Ids, parentId: Ids \cup {Null}, type: Types,
                 ref: Ids \cup {Null}, val: Roles \cup Labels \cup {NoLabel}] :
             e.type = "label" => e.val \in Labels \cup {NoLabel}}

Header  == [id |-> Null, parentId |-> Null, type |-> "session", ref |-> Null, val |-> "none"]
NoEntry == [id |-> Null, parentId |-> Null, type |-> "none", ref |-> Null, val |-> "none"]
Line    == Entry \cup {Header}

-----------------------------------------------------------------------------
(* Session files.                                                          *)

(* "clean": the file ends in a newline; "unterminated": its last line is   *)
(* complete but for the newline; "fragment": it ends in a piece of a line. *)
Tails   == {"clean", "unterminated", "fragment"}
Absent  == [exists |-> FALSE, lines |-> <<>>, tail |-> "clean"]
Empty   == [exists |-> TRUE, lines |-> <<>>, tail |-> "clean"]
Content == [exists: {TRUE}, lines: Seq(Line), tail: Tails] \cup {Absent}

(* What an append leaves of the lines already there: text added right      *)
(* after a complete line without newline makes that line unparseable.      *)
Keep(c) == IF c.tail = "unterminated"
             THEN SubSeq(c.lines, 1, Len(c.lines) - 1) ELSE c.lines

(* Mutant of AppendLines: the file is rewritten with the new lines only. *)
RewriteWithLines(c, ls) ==
    IF ls = <<>> THEN c ELSE [exists |-> TRUE, tail |-> "clean", lines |-> ls]

(* appendFileSync of whole lines, one after the other. *)
AppendLines(c, ls) ==
    IF ls = <<>> THEN c
    ELSE [exists |-> TRUE, tail |-> "clean",
          lines |-> Keep(c) \o (IF c.tail = "clean" THEN ls ELSE Tail(ls))]

(* appendFileSync of line l stopped after some of its bytes. *)
TornLine(c, l) ==
    {[exists |-> TRUE, tail |-> "fragment", lines |-> Keep(c)]}
      \cup (IF c.tail = "clean"
              THEN {[exists |-> TRUE, tail |-> "unterminated", lines |-> Append(c.lines, l)]}
              ELSE {})

(* Writing ls stopped before its end. *)
Interrupted(c, ls) ==
    UNION {LET written == AppendLines(c, SubSeq(ls, 1, n))
           IN  {written} \cup IF TornWrites THEN TornLine(written, ls[n + 1]) ELSE {} :
           n \in 0 .. Len(ls) - 1}

(* What writing the lines ls after content c can come to. *)
Outcomes(c, ls) ==
    {[content |-> AppendLines(c, ls), end |-> "ok"]}
      \cup [content: Interrupted(c, ls), end: Faults]

(* loadEntriesFromFile: nothing unless the first parseable line is a header. *)
LoadEntriesFromFile(c) ==
    IF c.lines # <<>> /\ c.lines[1] = Header THEN c.lines ELSE <<>>

-----------------------------------------------------------------------------
(* The indexes _buildIndex computes from the entries of a file, in file    *)
(* order: a later line overrides an earlier one.                           *)

MaxOf(S) == CHOOSE m \in S : \A n \in S : n <= m

EntryAt(es) == {k \in 1 .. Len(es) : es[k].type # "session"}

IndexOf(es) ==
    [i \in Ids |->
        LET at == {k \in EntryAt(es) : es[k].id = i}
        IN  IF at = {} THEN NoEntry ELSE es[MaxOf(at)]]

LabelsOf(es) ==
    [i \in Ids |->
        LET at == {k \in EntryAt(es) : es[k].type = "label" /\ es[k].ref = i}
        IN  IF at = {} THEN NoLabel ELSE es[MaxOf(at)].val]

LastId(es) == IF EntryAt(es) = {} THEN Null ELSE es[MaxOf(EntryAt(es))].id

(* The entries of es in order, without any header. *)
WithoutHeaders(es) ==
    LET at      == EntryAt(es)
        nth(k)  == {p \in at : Cardinality({q \in at : q <= p}) = k}
    IN  [k \in 1 .. Cardinality(at) |-> IF nth(k) = {} THEN Header ELSE es[MaxOf(nth(k))]]

HasAssistant(es) ==
    \E k \in 1 .. Len(es) : es[k].type = "message" /\ es[k].val = "assistant"

-----------------------------------------------------------------------------
VARIABLES
    sessionFile,    \* the file of the manager, NoFile when it is in memory only
    flushed,        \* whether the file holds what the manager believes it holds
    fileEntries,    \* header and entries; <<>> when no manager is alive
    byId,           \* id -> entry, NoEntry when there is none
    labelsById,     \* id -> label, NoLabel when there is none
    leafId,         \* the current position in the tree
    disk,           \* file -> content
    nextId,         \* the next id handed out
    usedFiles,      \* file names taken
    damaged         \* history: files that had a write fail or stop inside a line

mem  == <<sessionFile, flushed, fileEntries, byId, labelsById, leafId>>
vars == <<sessionFile, flushed, fileEntries, byId, labelsById, leafId, disk, nextId, usedFiles,
          damaged>>

Alive      == fileEntries # <<>>
Persisting == sessionFile # NoFile
Known(i)   == i \in Ids /\ byId[i] # NoEntry
Fresh(f)   == f \in Files \ usedFiles

NoIndex  == [i \in Ids |-> NoEntry]
NoLabels == [i \in Ids |-> NoLabel]

(* The process is gone and the manager with it. *)
Exit ==
    /\ sessionFile' = NoFile /\ flushed' = FALSE /\ fileEntries' = <<>>
    /\ byId' = NoIndex /\ labelsById' = NoLabels /\ leafId' = Null

-----------------------------------------------------------------------------
(* Walks: the paths parent pointers can spell.  A parent is always handed  *)
(* out before its children (ParentsPrecede), so a walk from the root is an *)
(* increasing sequence of ids.                                             *)
IdSequences == {w : w \in UNION {[1 .. n -> Ids] : n \in 0 .. MaxId}}

Increasing(w) == \A j, k \in 1 .. Len(w) : j < k => w[j] < w[k]

Walks == {w : w \in {v \in IdSequences : Increasing(v)}}

IsWalk(ix, leaf, w) ==
    /\ w # <<>> /\ w[Len(w)] = leaf
    /\ \A k \in 1 .. Len(w) : ix[w[k]] # NoEntry
    /\ \A k \in 2 .. Len(w) : ix[w[k]].parentId = w[k - 1]
    /\ LET root == ix[w[1]].parentId IN root = Null \/ ix[root] = NoEntry

(* getBranch(leaf): the ids on the way from the root to leaf. *)
GetBranch(ix, leaf) ==
    CHOOSE w \in Walks :
        IF w = <<>> THEN \A v \in Walks : ~IsWalk(ix, leaf, v) ELSE IsWalk(ix, leaf, w)

(* The members of a set of ids in the order of a walk. *)
InOrder(S) ==
    LET spells(w) == {w[k] : k \in 1 .. Len(w)} = S
    IN  IF \E w \in Walks : spells(w) THEN CHOOSE w \in Walks : spells(w) ELSE <<>>

-----------------------------------------------------------------------------
(* Appending.                                                              *)

NewEntry(type, parent, ref, val) ==
    [id |-> nextId, parentId |-> parent, type |-> type, ref |-> ref, val |-> val]

(* _persist: the lines an append of entry e writes, es being the entries   *)
(* with e.  Nothing is written before the first assistant message; then    *)
(* the whole session is, unless it was flushed already.                    *)
PersistLines(es, e) ==
    IF ~Persisting \/ ~HasAssistant(es) THEN <<>>
    ELSE IF flushed THEN <<e>> ELSE es

(* Mutant of FlushedAfter: flushed is not reset before an assistant message. *)
FlushedWithoutReset(es) == IF Persisting THEN flushed \/ HasAssistant(es) ELSE flushed

FlushedAfter(es) == IF Persisting THEN HasAssistant(es) ELSE flushed

FileContent(f) == IF f \in Files THEN disk[f] ELSE Absent

(* Outcome o of writing to file f (nothing is written in memory only). *)
WriteFile(f, o) ==
    /\ disk' = IF f \in Files THEN [disk EXCEPT ![f] = o.content] ELSE disk
    /\ damaged' = IF o.end = "throw" \/ o.content.tail # "clean"
                    THEN damaged \cup {f} ELSE damaged

(* _appendEntry, and the update of labelsById that follows it in           *)
(* appendLabelChange.  A write that throws leaves the entry in memory,     *)
(* flushed as it was and the labels untouched.                             *)
AppendEntry(e, labels) ==
    LET es == Append(fileEntries, e) IN
    \E o \in Outcomes(FileContent(sessionFile), PersistLines(es, e)) :
        /\ WriteFile(sessionFile, o)
        /\ \/ o.end = "kill" /\ Exit
           \/ /\ o.end # "kill"
              /\ fileEntries' = es
              /\ byId' = [byId EXCEPT ![e.id] = e]
              /\ leafId' = e.id
              /\ flushed' = IF o.end = "throw" THEN flushed ELSE FlushedAfter(es)
              /\ labelsById' = IF o.end = "throw" THEN labelsById ELSE labels
              /\ UNCHANGED sessionFile
        /\ nextId' = nextId + 1
        /\ UNCHANGED usedFiles

CanAppend == Alive /\ nextId \in Ids

AppendMessage(role) ==
    /\ CanAppend
    /\ AppendEntry(NewEntry("message", leafId, Null, role), labelsById)

AppendSettingsChange(type) ==
    /\ CanAppend
    /\ AppendEntry(NewEntry(type, leafId, Null, "none"), labelsById)

AppendExtensionEntry(type) ==
    /\ CanAppend
    /\ AppendEntry(NewEntry(type, leafId, Null, "none"), labelsById)

(* The caller names the first entry kept; it may have chosen it before the *)
(* leaf moved, so it is any entry of the tree.                             *)
AppendCompaction(firstKept) ==
    /\ CanAppend /\ Known(firstKept)
    /\ AppendEntry(NewEntry("compaction", leafId, firstKept, "none"), labelsById)

(* Mutant of AppendLabelChange: clearing a label does not delete it. *)
AppendLabelWithoutDelete(target, label) ==
    /\ CanAppend /\ Known(target)
    /\ AppendEntry(NewEntry("label", leafId, target, label),
                   IF label = NoLabel THEN labelsById ELSE [labelsById EXCEPT ![target] = label])

AppendLabelChange(target, label) ==
    /\ CanAppend /\ Known(target)
    /\ AppendEntry(NewEntry("label", leafId, target, label),
                   [labelsById EXCEPT ![target] = label])

-----------------------------------------------------------------------------
(* Moving in the tree.                                                     *)

(* Mutant of Branch: what comes after the branch point is dropped. *)
BranchTruncating(from) ==
    /\ Alive /\ Known(from)
    /\ leafId' = from
    /\ fileEntries' = SubSeq(fileEntries, 1,
                             MaxOf({k \in EntryAt(fileEntries) : fileEntries[k].id = from}))
    /\ UNCHANGED <<sessionFile, flushed, byId, labelsById, disk, nextId, usedFiles, damaged>>

Branch(from) ==
    /\ Alive /\ Known(from)
    /\ leafId' = from
    /\ UNCHANGED <<sessionFile, flushed, fileEntries, byId, labelsById, disk, nextId, usedFiles, damaged>>

ResetLeaf ==
    /\ Alive
    /\ leafId' = Null
    /\ UNCHANGED <<sessionFile, flushed, fileEntries, byId, labelsById, disk, nextId, usedFiles, damaged>>

BranchWithSummary(from) ==
    /\ CanAppend /\ (from = Null \/ Known(from))
    /\ AppendEntry(NewEntry("branch_summary", from, from, "none"), labelsById)

-----------------------------------------------------------------------------
(* Starting, opening and forking sessions.                                 *)

(* Mutant of ResetTo: the id index is not cleared. *)
ResetKeepingIndex(f) ==
    /\ fileEntries' = <<Header>> /\ byId' = byId /\ labelsById' = NoLabels
    /\ leafId' = Null /\ flushed' = FALSE /\ sessionFile' = f

(* newSession, with the file f it will write to. *)
ResetTo(f) ==
    /\ fileEntries' = <<Header>> /\ byId' = NoIndex /\ labelsById' = NoLabels
    /\ leafId' = Null /\ flushed' = FALSE /\ sessionFile' = f

NewSession(f) ==
    /\ Fresh(f)
    /\ ResetTo(f)
    /\ usedFiles' = usedFiles \cup {f}
    /\ UNCHANGED <<disk, nextId, damaged>>

InMemory == ResetTo(NoFile) /\ UNCHANGED <<disk, nextId, usedFiles, damaged>>

(* _buildIndex over es. *)
BuildIndex(es) ==
    /\ fileEntries' = es /\ byId' = IndexOf(es) /\ labelsById' = LabelsOf(es)
    /\ leafId' = LastId(es)

(* setSessionFile: load the file, start it over when it holds no session,  *)
(* or take its name for a new session when it does not exist.              *)
SetSessionFile(f) ==
    /\ usedFiles' = usedFiles \cup {f}
    /\ UNCHANGED nextId
    /\ LET es == LoadEntriesFromFile(disk[f]) IN
       \/ /\ disk[f].exists /\ es # <<>>
          /\ BuildIndex(es) /\ sessionFile' = f /\ flushed' = TRUE
          /\ UNCHANGED <<disk, damaged>>
       \/ /\ disk[f].exists /\ es = <<>>
          /\ \E o \in Outcomes(Empty, <<Header>>) :
                /\ WriteFile(f, o)
                /\ \/ o.end # "ok" /\ Exit
                   \/ /\ o.end = "ok"
                      /\ fileEntries' = <<Header>> /\ byId' = NoIndex
                      /\ labelsById' = NoLabels /\ leafId' = Null
                      /\ sessionFile' = f /\ flushed' = TRUE
       \/ ~disk[f].exists /\ ResetTo(f) /\ UNCHANGED <<disk, damaged>>

(* Mutant of ForkLabels: labels are filtered out and not recreated. *)
ForkNoLabels(path) == <<>>

(* Mutant of ForkLabels: ids start one too late. *)
ForkLabelsOffByOne(path) ==
    LET targets == InOrder({i \in {path[k] : k \in 1 .. Len(path)} : labelsById[i] # NoLabel})
        last    == IF path = <<>> THEN Null ELSE path[Len(path)]
    IN  [k \in 1 .. Len(targets) |->
            [id |-> nextId + k, parentId |-> IF k = 1 THEN last ELSE nextId + k - 1,
             type |-> "label", ref |-> targets[k], val |-> labelsById[targets[k]]]]

(* The label entries a fork appends: one for each label of an entry on the *)
(* path, chained after the path's last entry.  (The code takes them in the *)
(* order of its map; here in the order of their targets.)                  *)
ForkLabels(path) ==
    LET kept    == {path[k] : k \in 1 .. Len(path)}
        targets == InOrder({i \in kept : labelsById[i] # NoLabel})
        last    == IF path = <<>> THEN Null ELSE path[Len(path)]
    IN  [k \in 1 .. Len(targets) |->
            [id |-> nextId + k - 1,
             parentId |-> IF k = 1 THEN last ELSE nextId + k - 2,
             type |-> "label", ref |-> targets[k], val |-> labelsById[targets[k]]]]

(* The path without its label entries. *)
WithoutLabels(walk) ==
    InOrder({i \in {walk[k] : k \in 1 .. Len(walk)} : byId[i].type # "label"})

(* Mutant of ForkEntries: the label entries go in front of the path. *)
ForkEntriesLabelsFirst(path, labels) ==
    <<Header>> \o labels \o [k \in 1 .. Len(path) |-> byId[path[k]]]

ForkEntries(path, labels) ==
    <<Header>> \o [k \in 1 .. Len(path) |-> byId[path[k]]] \o labels

(* createBranchedSession(leaf): the manager goes over to a new session     *)
(* that holds the path to leaf; the file is written at once if it has an   *)
(* assistant message, else left to _persist.                               *)
CreateBranchedSession(leaf, f) ==
    /\ Alive /\ Known(leaf) /\ (IF Persisting THEN Fresh(f) ELSE f = NoFile)
    /\ \E walk \in {GetBranch(byId, leaf)} : \E path \in {WithoutLabels(walk)} :
       \E labels \in {ForkLabels(path)} : \E es \in {ForkEntries(path, labels)} :
       /\ walk # <<>>
       /\ nextId + Len(labels) <= MaxId + 1
       /\ \E o \in IF Persisting /\ HasAssistant(es)
                     THEN Outcomes(Empty, es) ELSE Outcomes(FileContent(f), <<>>) :
             /\ WriteFile(f, o)
             /\ \/ o.end = "kill" /\ Exit
                \/ /\ o.end # "kill" /\ BuildIndex(es) /\ sessionFile' = f
                   /\ flushed' = IF o.end = "throw" THEN flushed ELSE FlushedAfter(es)
       /\ nextId' = nextId + Len(labels)
       /\ usedFiles' = IF Persisting THEN usedFiles \cup {f} ELSE usedFiles

(* forkFrom: copy the session in file src, line by line, to a new file and *)
(* open that.                                                              *)
ForkFrom(src, f) ==
    LET es     == LoadEntriesFromFile(disk[src])
        copied == <<Header>> \o WithoutHeaders(es)
    IN
    /\ disk[src].exists /\ es # <<>> /\ Fresh(f)
    /\ \E o \in Outcomes(Absent, copied) :
          /\ WriteFile(f, o)
          /\ \/ o.end # "ok" /\ Exit
             \/ /\ o.end = "ok" /\ BuildIndex(copied)
                /\ sessionFile' = f /\ flushed' = TRUE
    /\ usedFiles' = usedFiles \cup {f}
    /\ UNCHANGED nextId

(* The program ends between two operations. *)
Quit == Alive /\ Exit /\ UNCHANGED <<disk, nextId, usedFiles, damaged>>

-----------------------------------------------------------------------------
Init ==
    /\ sessionFile = NoFile /\ flushed = FALSE /\ fileEntries = <<>>
    /\ byId = NoIndex /\ labelsById = NoLabels /\ leafId = Null
    /\ disk = [f \in Files |-> IF f \in Precreated THEN Empty ELSE Absent]
    /\ nextId = 1
    /\ usedFiles = Precreated
    /\ damaged = {}

Next ==
    \/ "message" \in AppendedTypes /\ \E role \in Roles : AppendMessage(role)
    \/ \E type \in AppendedTypes \cap SettingTypes : AppendSettingsChange(type)
    \/ \E type \in AppendedTypes \cap ExtensionTypes : AppendExtensionEntry(type)
    \/ "compaction" \in AppendedTypes /\ \E i \in Ids : AppendCompaction(i)
    \/ "label" \in AppendedTypes /\
          \E i \in Ids : \E label \in (Labels \cup {NoLabel}) \ {labelsById[i]} :
             AppendLabelChange(i, label)
    \/ "branch_summary" \in AppendedTypes /\ \E i \in Ids \cup {Null} : BranchWithSummary(i)
    \/ \E i \in Ids : Branch(i)
    \/ ResetLeaf
    \/ \E f \in Files : NewSession(f)
    \/ MemoryOnly /\ InMemory
    \/ \E f \in Files : SetSessionFile(f)
    \/ \E i \in Ids, f \in Files \cup {NoFile} : CreateBranchedSession(i, f)
    \/ \E src, f \in Files : ForkFrom(src, f)
    \/ Quit

Spec == Init /\ [][Next]_vars
-----------------------------------------------------------------------------
(* buildSessionContext: the ids of the entries the model sees, in order.   *)
(* After a compaction that is its summary, the messages kept from          *)
(* firstKeptEntryId on, and the messages after it.                         *)
InContext(e) == e.type \in {"message", "custom_message", "branch_summary"}

(* Mutant of ContextOf: the first kept entry itself is left out. *)
ContextAfterFirstKept(ix, path) ==
    LET seen(a, b)  == InOrder({path[k] : k \in {j \in a .. b : InContext(ix[path[j]])}})
        compactions == {k \in 1 .. Len(path) : ix[path[k]].type = "compaction"}
    IN  IF compactions = {} THEN seen(1, Len(path))
        ELSE LET c    == MaxOf(compactions)
                 from == {k \in 1 .. c - 1 : path[k] = ix[path[c]].ref}
             IN  <<path[c]>>
                   \o (IF from = {} THEN <<>> ELSE seen(MaxOf(from) + 1, c - 1))
                   \o seen(c + 1, Len(path))

ContextOf(ix, path) ==
    LET seen(a, b)  == InOrder({path[k] : k \in {j \in a .. b : InContext(ix[path[j]])}})
        compactions == {k \in 1 .. Len(path) : ix[path[k]].type = "compaction"}
    IN  IF compactions = {} THEN seen(1, Len(path))
        ELSE LET c    == MaxOf(compactions)
                 from == {k \in 1 .. c - 1 : path[k] = ix[path[c]].ref}
             IN  <<path[c]>>
                   \o (IF from = {} THEN <<>> ELSE seen(MaxOf(from), c - 1))
                   \o seen(c + 1, Len(path))

BuildSessionContext(ix, leaf) == ContextOf(ix, GetBranch(ix, leaf))

-----------------------------------------------------------------------------
(* Properties.                                                             *)

TypeOK ==
    /\ sessionFile \in Files \cup {NoFile}
    /\ flushed \in BOOLEAN
    /\ fileEntries \in Seq(Line)
    /\ byId \in [Ids -> Entry \cup {NoEntry}]
    /\ labelsById \in [Ids -> Labels \cup {NoLabel}]
    /\ leafId \in Ids \cup {Null}
    /\ disk \in [Files -> Content]
    /\ nextId \in 1 .. MaxId + 1
    /\ usedFiles \subseteq Files
    /\ damaged \subseteq Files

(* The id index built step by step by appends is the one a rebuild from    *)
(* the entries gives, and the leaf is an entry of the tree: whatever the   *)
(* order of appends, forks, failed writes and reloads, getEntry, getBranch *)
(* and the next append's parent agree with the stored entries.             *)
IndexInSync ==
    Alive => /\ byId = IndexOf(fileEntries)
             /\ leafId # Null => byId[leafId] # NoEntry

(* Every parent an entry names is null, or an entry in front of it, or no  *)
(* entry at all (its line was lost, or it was a label a fork left out):    *)
(* never itself or a later one.  So getBranch and buildSessionContext,     *)
(* which follow parents without a visited set, terminate.                  *)
ParentsPrecede ==
    \A k \in EntryAt(fileEntries) :
        LET parent == fileEntries[k].parentId IN
        parent = Null \/ byId[parent] = NoEntry
            \/ \E j \in EntryAt(fileEntries) : j < k /\ fileEntries[j].id = parent

(* getLabel answers what the newest label entry of the session says, both  *)
(* as labels are set and cleared and after forks and reloads (a write that *)
(* throws inside appendLabelChange leaves the entry in, the label out).    *)
LabelsInSync ==
    Alive /\ sessionFile \notin damaged => labelsById = LabelsOf(fileEntries)

(* Once a persisted session holds an assistant message, reopening its file *)
(* gives back every entry and label in memory, although _persist holds     *)
(* entries back, flushes them late and appends one line at a time, and may *)
(* be killed between two lines; not once a write to the file has failed or *)
(* stopped inside a line.                                                  *)
ReopenRestores ==
    Alive /\ Persisting /\ sessionFile \notin damaged /\ HasAssistant(fileEntries) =>
        LET es == LoadEntriesFromFile(disk[sessionFile]) IN
        IndexOf(es) = byId /\ LabelsOf(es) = labelsById

IsPrefix(s, t) == Len(s) <= Len(t) /\ SubSeq(t, 1, Len(s)) = s

(* Files only grow: a step leaves every readable line of every file where  *)
(* it was, but for a last line an earlier interrupted write left without a *)
(* newline, and for a file setSessionFile cannot read as a session at all. *)
FilesOnlyGrow ==
    [][\A f \in Files :
        \/ IsPrefix(Keep(disk[f]), disk'[f].lines)
        \/ LoadEntriesFromFile(disk[f]) = <<>>]_vars

(* Within one session the history is append-only: no operation modifies,   *)
(* reorders or drops an entry, whatever branch it works on; only opening   *)
(* the file again replaces the entries, by those of the file (a new header *)
(* when it holds no session).                                              *)
HistoryAppendOnly ==
    [][(Alive /\ Persisting /\ sessionFile' = sessionFile)
        => \/ IsPrefix(fileEntries, fileEntries')
           \/ \E es \in {LoadEntriesFromFile(disk[sessionFile])} :
                 fileEntries' = IF es = <<>> THEN <<Header>> ELSE es]_vars

(* The step appends a new entry of this type in memory. *)
Appends(type) ==
    /\ Alive /\ nextId' = nextId + 1
    /\ Len(fileEntries') = Len(fileEntries) + 1 /\ IsPrefix(fileEntries, fileEntries')
    /\ fileEntries'[Len(fileEntries')].type = type

(* A compaction that keeps from an entry the context already goes back to  *)
(* only shortens the context: after its summary comes a suffix of what the *)
(* model saw before, so a second compaction never brings back what the     *)
(* first one dropped and loses nothing after firstKeptEntryId.             *)
CompactionKeepsSuffix ==
    [][Appends("compaction") =>
        \A path \in {GetBranch(byId, leafId)}, path2 \in {GetBranch(byId', leafId')} :
        \A before \in {ContextOf(byId, path)}, after \in {ContextOf(byId', path2)} :
        \A k \in 1 .. Len(before) :
            before[k] = byId'[leafId'].ref /\ InContext(byId[before[k]])
              => Tail(after) = SubSeq(before, k, Len(before))]_vars

(* The walks a step forks the session at: it goes to entries that are not  *)
(* an extension of those before, but the fork of the path walk.            *)
ForkedWalks ==
    IF ~Alive \/ fileEntries' = <<>> \/ IsPrefix(fileEntries, fileEntries') THEN {}
    ELSE {walk \in {GetBranch(byId, i) : i \in Ids} \ {<<>>} :
             \E path \in {WithoutLabels(walk)} :
                fileEntries' = ForkEntries(path, ForkLabels(path))}

(* A fork from a path on which no label entry is followed by another entry *)
(* keeps the branch entry for entry, and the label of every entry it keeps. *)
ForkKeepsPath ==
    [][\A walk \in ForkedWalks :
        \A path \in {WithoutLabels(walk)}, fork \in {GetBranch(byId', leafId')} :
            IsPrefix(path, walk) =>
              /\ IsPrefix(path, fork)
              /\ \A k \in 1 .. Len(fork) : k > Len(path) => byId'[fork[k]].type = "label"
              /\ \A k \in 1 .. Len(path) :
                    labelsById'[path[k]] = labelsById[path[k]]]_vars

(* "Create a new session file containing only the path from root to the    *)
(* specified leaf" (createBranchedSession): the fork's leaf has the        *)
(* messages of the path in its context.                                    *)
ForkKeepsContext ==
    [][\A walk \in ForkedWalks :
        BuildSessionContext(byId', leafId') = BuildSessionContext(byId, walk[Len(walk)])]_vars
=============================================================================
