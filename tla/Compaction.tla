----------------------------- MODULE Compaction -----------------------------
(***************************************************************************)
(* Compaction of a session                                                 *)
(* (packages/coding-agent/src/core/compaction/compaction.ts and its use in *)
(* agent-session.ts).                                                      *)
(*                                                                         *)
(* The branch of a session is a path of entries.  A compaction looks at    *)
(* the path, chooses the entry to keep from, has the model summarize what  *)
(* comes before, and appends an entry with the summary.  From then on the  *)
(* model sees the newest summary, the entries kept before it and those     *)
(* after it.  While the summary is written the path goes on growing, and a *)
(* second compaction, asked for by the user, may run next to an automatic  *)
(* one.                                                                    *)
(*                                                                         *)
(* Abstractions.  An entry is its kind and its estimated size.  Of a       *)
(* compaction entry the model also records what the properties ask about:  *)
(* covers, the entries its summary was written from, directly or through   *)
(* the summary it updates; seen, how long the path was when it was         *)
(* prepared; forgets, that a summary was dropped on the way.  When a       *)
(* compaction is triggered is left open, so every trigger of the code is   *)
(* one of the moments considered.  The branch stays the same one: moving   *)
(* to another branch is modelled in SessionManager.                        *)
(***************************************************************************)
EXTENDS Integers, Sequences

CONSTANTS
    MaxLen,     \* bound: entries on the path
    SizesOf,    \* bound: kind of message -> the estimated sizes it may have
    KeepRecent, \* settings.keepRecentTokens
    Slots       \* the compactions that may run at once: one by hand, one automatic

(* "note" stands for custom_message and branch_summary entries, "bash" for *)
(* bashExecution messages, "setting" for entries the model does not see.   *)
MessageKinds == {"user", "assistant", "toolResult", "bash"}
Kinds        == MessageKinds \cup {"note", "setting"}

ASSUME CompactionAssumption ==
    /\ MaxLen \in Nat /\ KeepRecent \in Nat \ {0}
    /\ SizesOf \in [MessageKinds -> SUBSET Nat]

Indexes == 1 .. MaxLen
None    == 0

Entry == [kind: Kinds \cup {"compaction"}, size: Nat, firstKept: Indexes \cup {None},
          covers: SUBSET Indexes, seen: 0 .. MaxLen, forgets: BOOLEAN]

Plain(kind, size) == [kind |-> kind, size |-> size, firstKept |-> None, covers |-> {},
                      seen |-> 0, forgets |-> FALSE]

Preparation == [firstKept: Indexes, toSummarize: SUBSET Indexes, prefix: SUBSET Indexes,
                split: BOOLEAN, previous: Indexes \cup {None}, seen: Indexes]
NoPreparation == [seen |-> None]

VARIABLES
    path,       \* the entries of the branch
    preparing   \* slot -> what a running compaction was prepared with

vars == <<path, preparing>>

MaxOf(S) == CHOOSE m \in S : \A n \in S : n <= m
MinOf(S) == CHOOSE m \in S : \A n \in S : m <= n

IsMessage(e) == e.kind \in MessageKinds

(* getMessageFromEntryForCompaction returns a message. *)
Produces(e) == IsMessage(e) \/ e.kind = "note"

-----------------------------------------------------------------------------
(* Choosing the cut.                                                       *)

(* The estimated size of the messages from each index on. *)
SizeFrom(es) ==
    LET from[i \in 1 .. Len(es) + 1] ==
            IF i = Len(es) + 1 THEN 0
            ELSE from[i + 1] + (IF IsMessage(es[i]) THEN es[i].size ELSE 0)
    IN  from

(* Mutant of CutPoints: at any message. *)
CutAnywhere(es, start) ==
    {i \in start .. Len(es) : es[i].kind \in MessageKinds \cup {"note"}}

(* findValidCutPoints: never at a tool result. *)
CutPoints(es, start) ==
    {i \in start .. Len(es) : es[i].kind \in (MessageKinds \ {"toolResult"}) \cup {"note"}}

(* Where the budget is used up, from the newest message back. *)
Full(es, start) ==
    {i \in start .. Len(es) : IsMessage(es[i]) /\ SizeFrom(es)[i] >= KeepRecent}

(* Mutant of Closest: the last cut point at or before that place. *)
ClosestBefore(es, start) ==
    LET before == {c \in CutPoints(es, start) :
                      Full(es, start) # {} /\ c <= MaxOf(Full(es, start))}
    IN  IF before = {} THEN MinOf(CutPoints(es, start)) ELSE MaxOf(before)

(* The closest cut point at or after that place; the first one when the    *)
(* budget is never used up, or no cut point comes after that place.        *)
Closest(es, start) ==
    LET after == {c \in CutPoints(es, start) :
                     Full(es, start) # {} /\ c >= MaxOf(Full(es, start))}
    IN  MinOf(IF after = {} THEN CutPoints(es, start) ELSE after)

(* Back over the entries in front of it that are no messages. *)
ScanBack(es, start, cut) ==
    MinOf({j \in start .. cut : \A h \in j .. cut - 1 : es[h].kind \in {"setting", "note"}})

(* findCutPoint: firstKeptEntryIndex. *)
FirstKept(es, start) ==
    IF CutPoints(es, start) = {} THEN start ELSE ScanBack(es, start, Closest(es, start))

(* findTurnStartIndex. *)
TurnStarts(es, start, cut) == {i \in start .. cut : es[i].kind \in {"user", "bash", "note"}}

(* findCutPoint: isSplitTurn.  An entry in front of a user message counts  *)
(* as the middle of the turn before.                                       *)
IsSplitTurn(es, start, cut) ==
    /\ CutPoints(es, start) # {} /\ es[cut].kind # "user"
    /\ TurnStarts(es, start, cut) # {}

Compactions(es) == {k \in 1 .. Len(es) : es[k].kind = "compaction"}
Latest(es)      == IF Compactions(es) = {} THEN None ELSE MaxOf(Compactions(es))

(* Mutant of BoundaryStart: from the previous compaction entry on. *)
BoundaryAfterCompaction(es) == Latest(es) + 1

(* Mutant of BoundaryStart: from the beginning, whatever was summarized. *)
BoundaryAtFirst(es) == 1

(* The summarized span starts where the previous compaction kept from. *)
BoundaryStart(es) ==
    IF Latest(es) = None THEN 1
    ELSE IF es[Latest(es)].firstKept \in 1 .. Len(es) THEN es[Latest(es)].firstKept
    ELSE Latest(es) + 1

(* prepareCompaction. *)
PrepareCompaction(es) ==
    LET start == BoundaryStart(es)
        cut   == FirstKept(es, start)
        split == IsSplitTurn(es, start, cut)
        historyEnd == IF split THEN MaxOf(TurnStarts(es, start, cut)) ELSE cut
    IN  [firstKept |-> cut,
         toSummarize |-> {i \in start .. historyEnd - 1 : Produces(es[i])},
         prefix |-> {i \in historyEnd .. cut - 1 : split /\ Produces(es[i])},
         split |-> split, previous |-> Latest(es), seen |-> Len(es)]

-----------------------------------------------------------------------------
(* Summaries.                                                              *)

PreviousCovers(p) == IF p.previous = None THEN {} ELSE path[p.previous].covers

(* The prefix of a split turn is all there is to summarize: compact()      *)
(* writes "No prior history." for the rest and drops the summary before.   *)
NoPriorHistory(p) == p.split /\ p.prefix # {} /\ p.toSummarize = {}

(* What the summary compact() writes is written from. *)
Covers(p) ==
    p.prefix \cup IF NoPriorHistory(p) THEN {} ELSE p.toSummarize \cup PreviousCovers(p)

CompactionAt(p, firstKept) ==
    [kind |-> "compaction", size |-> 0, firstKept |-> firstKept, covers |-> Covers(p),
     seen |-> p.seen,
     forgets |-> p.previous # None /\ (NoPriorHistory(p) \/ path[p.previous].forgets)]

(* Mutant of CompactionEntry: the cut is chosen again when the summary is  *)
(* written.                                                                *)
CompactionEntryCutAgain(p) == CompactionAt(p, PrepareCompaction(path).firstKept)

CompactionEntry(p) == CompactionAt(p, p.firstKept)

-----------------------------------------------------------------------------
Init == path = <<>> /\ preparing = [s \in Slots |-> NoPreparation]

(* A tool result follows its call, or another result of the same answer;   *)
(* in between the session appends settings and compactions only.           *)
MayAnswer(es) ==
    \E j \in 1 .. Len(es) :
        /\ es[j].kind \in {"assistant", "toolResult"}
        /\ \A h \in j + 1 .. Len(es) : es[h].kind \in {"setting", "compaction"}

(* The session appends an entry, whether a compaction is running or not. *)
AppendEntry(kind, size) ==
    /\ Len(path) < MaxLen
    /\ kind = "toolResult" => MayAnswer(path)
    /\ path' = Append(path, Plain(kind, size))
    /\ UNCHANGED preparing

(* A compaction starts: not right behind another one, not on no entries. *)
Prepare(s) ==
    /\ preparing[s] = NoPreparation
    /\ path # <<>> /\ path[Len(path)].kind # "compaction"
    /\ preparing' = [preparing EXCEPT ![s] = PrepareCompaction(path)]
    /\ UNCHANGED path

(* Its summary is written. *)
Finish(s) ==
    /\ preparing[s] # NoPreparation /\ Len(path) < MaxLen
    /\ path' = Append(path, CompactionEntry(preparing[s]))
    /\ preparing' = [preparing EXCEPT ![s] = NoPreparation]

(* It is cancelled, or the model fails. *)
GiveUp(s) ==
    /\ preparing[s] # NoPreparation
    /\ preparing' = [preparing EXCEPT ![s] = NoPreparation]
    /\ UNCHANGED path

Next ==
    \/ \E kind \in MessageKinds : \E size \in SizesOf[kind] : AppendEntry(kind, size)
    \/ \E kind \in {"note", "setting"} : AppendEntry(kind, 0)
    \/ \E s \in Slots : Prepare(s) \/ Finish(s) \/ GiveUp(s)

Spec == Init /\ [][Next]_vars

-----------------------------------------------------------------------------
(* Properties.                                                             *)

(* Types; a compaction keeps from an entry that was there when it was      *)
(* prepared (firstKeptEntryId is chosen before the summary is written).    *)
TypeOK ==
    /\ path \in Seq(Entry) /\ Len(path) <= MaxLen
    /\ preparing \in [Slots -> Preparation \cup {NoPreparation}]
    /\ \A k \in Compactions(path) : path[k].firstKept \in 1 .. path[k].seen /\ path[k].seen < k

(* buildSessionContext: the entries the model sees, besides the summary. *)
InContext ==
    {i \in 1 .. Len(path) :
        /\ Produces(path[i])
        /\ Latest(path) = None \/ i >= path[Latest(path)].firstKept}

(* "passing the previous summary as iterative context when present"        *)
(* (docs/compaction.md): what the model no longer sees, the newest summary *)
(* was written from.                                                       *)
Remembered ==
    Latest(path) # None =>
        \A i \in 1 .. Len(path) :
            Produces(path[i]) => i \in InContext \cup path[Latest(path)].covers

(* The same, once no compaction of the chain dropped the summary before it *)
(* ("No prior history."): over repeated and overlapping compactions, split *)
(* turns and entries that arrive meanwhile, every message is in sight or   *)
(* summarized.                                                             *)
RememberedUnlessDropped ==
    (Latest(path) # None => ~path[Latest(path)].forgets) => Remembered

(* The model never sees a tool result without the call it answers: the cut *)
(* is never between the two, wherever the scan over settings and notes     *)
(* moves it.                                                               *)
NoOrphanResults ==
    \A i \in InContext :
        path[i].kind = "toolResult" =>
            \E j \in InContext :
                /\ j < i /\ path[j].kind = "assistant"
                /\ \A h \in j + 1 .. i - 1 :
                       path[h].kind \in {"toolResult", "setting", "compaction"}

(* And no message is both in sight and summarized: over any sequence of    *)
(* overlapping compactions, one that was prepared before another was       *)
(* appended neither brings back nor repeats what its own summary covers.   *)
NothingTwice == Latest(path) # None => path[Latest(path)].covers \cap InContext = {}

(* A compaction keeps no more than one message beyond the budget of recent *)
(* tokens, unless the tool results behind the last possible cut use up the *)
(* budget alone: then it cuts at the first cut point and keeps it all.     *)
KeptWithinBudget ==
    \A k \in Compactions(path) :
        LET es       == SubSeq(path, 1, path[k].seen)
            cuts     == CutPoints(es, 1)
            kept     == {i \in path[k].firstKept .. Len(es) : IsMessage(es[i])}
            oversize == cuts # {} /\ SizeFrom(es)[MaxOf(cuts) + 1] >= KeepRecent
        IN  kept # {} /\ ~oversize => SizeFrom(es)[MinOf(kept) + 1] < KeepRecent
=============================================================================
