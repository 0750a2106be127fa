------------------------- MODULE Compaction_proofs -------------------------
(***************************************************************************)
(* Proofs about compaction, for paths of any length, messages of any size, *)
(* any budget and any number of compactions at once.                       *)
(***************************************************************************)
EXTENDS Compaction, TLAPS, WellFoundedInduction

-----------------------------------------------------------------------------
(* The first and the last of a set of positions.                           *)

(* MinOf names the least member of a set of naturals. *)
LEMMA MinOfProperties ==
    ASSUME NEW S \in SUBSET Nat, S # {}
    PROVE  MinOf(S) \in S /\ \A k \in S : MinOf(S) <= k
<1> DEFINE R == OpToRel(<, Nat)
<1>1. IsWellFoundedOn(R, Nat)
  BY NatLessThanWellFounded
<1> HIDE DEF R
<1>2. PICK x \in S : \A y \in S : ~(<<y, x>> \in R)
  BY <1>1, WFMin
<1>3. \A y \in S : ~(y < x)
  BY <1>2 DEF R, OpToRel
<1>4. \A y \in S : x <= y
  BY <1>3
<1> QED
  BY <1>4 DEF MinOf

(* MaxOf names the greatest member of a set of positions. *)
LEMMA MaxOfProperties ==
    ASSUME NEW n \in Nat, NEW S \in SUBSET (1 .. n), S # {}
    PROVE  MaxOf(S) \in S /\ \A k \in S : k <= MaxOf(S)
<1> DEFINE T == {n - k : k \in S}
<1>0. PICK s \in S : TRUE
  OBVIOUS
<1>1. T \in SUBSET Nat /\ n - s \in T
  OBVIOUS
<1>2. MinOf(T) \in T /\ \A y \in T : MinOf(T) <= y
  BY <1>1, MinOfProperties
<1>3. PICK m \in S : MinOf(T) = n - m
  BY <1>2
<1>4. \A k \in S : k <= m
  <2> SUFFICES ASSUME NEW k \in S PROVE k <= m
    OBVIOUS
  <2>1. n - m <= n - k
    BY <1>2, <1>3
  <2> QED
    BY <2>1
<1> QED
  BY <1>4 DEF MaxOf

-----------------------------------------------------------------------------
(* The cut.                                                                *)

(* Every cut point is at or behind the start of the span. *)
LEMMA ClosestInSpan ==
    ASSUME NEW es \in Seq(Entry), NEW start \in 1 .. Len(es), CutPoints(es, start) # {}
    PROVE  Closest(es, start) \in start .. Len(es)
<1> DEFINE after == {c \in CutPoints(es, start) :
                        Full(es, start) # {} /\ c >= MaxOf(Full(es, start))}
           S == IF after = {} THEN CutPoints(es, start) ELSE after
<1>1. CutPoints(es, start) \subseteq start .. Len(es)
  BY DEF CutPoints
<1>2. S \subseteq CutPoints(es, start) /\ S # {}
  OBVIOUS
<1> HIDE DEF S
<1>3. S \in SUBSET Nat
  BY <1>1, <1>2
<1>4. MinOf(S) \in S
  BY <1>2, <1>3, MinOfProperties
<1>5. Closest(es, start) = MinOf(S)
  BY DEF Closest, S
<1> QED
  BY <1>1, <1>2, <1>4, <1>5

(* The first entry kept is in the span, however far the scan goes back. *)
LEMMA FirstKeptInSpan ==
    ASSUME NEW es \in Seq(Entry), NEW start \in 1 .. Len(es)
    PROVE  FirstKept(es, start) \in start .. Len(es)
<1>1. CASE CutPoints(es, start) = {}
  BY <1>1 DEF FirstKept
<1>2. CASE CutPoints(es, start) # {}
  <2> DEFINE cut == Closest(es, start)
             S == {j \in start .. cut : \A h \in j .. cut - 1 : es[h].kind \in {"setting", "note"}}
  <2>1. cut \in start .. Len(es)
    BY <1>2, ClosestInSpan
  <2>2. cut \in S /\ S \in SUBSET Nat
    BY <2>1
  <2>3. MinOf(S) \in S
    BY <2>2, MinOfProperties
  <2>4. FirstKept(es, start) = MinOf(S)
    BY <1>2 DEF FirstKept, ScanBack
  <2> QED
    BY <2>1, <2>3, <2>4
<1> QED
  BY <1>1, <1>2

(* The turn that is split starts in the span, at or in front of the cut. *)
LEMMA TurnStartInSpan ==
    ASSUME NEW es \in Seq(Entry), NEW start \in 1 .. Len(es), NEW cut \in start .. Len(es),
           TurnStarts(es, start, cut) # {}
    PROVE  MaxOf(TurnStarts(es, start, cut)) \in start .. cut
<1>1. TurnStarts(es, start, cut) \in SUBSET (1 .. cut)
  BY DEF TurnStarts
<1>2. MaxOf(TurnStarts(es, start, cut)) \in TurnStarts(es, start, cut)
  BY <1>1, MaxOfProperties
<1> QED
  BY <1>2 DEF TurnStarts

(* The newest compaction is one, and none is newer. *)
LEMMA LatestProperties ==
    ASSUME NEW es \in Seq(Entry)
    PROVE  \/ Latest(es) = None /\ Compactions(es) = {}
           \/ Latest(es) \in Compactions(es) /\ \A k \in Compactions(es) : k <= Latest(es)
<1>1. Compactions(es) \in SUBSET (1 .. Len(es)) /\ Len(es) \in Nat
  BY DEF Compactions
<1> QED
  BY <1>1, MaxOfProperties DEF Latest

(* What prepareCompaction hands over: every message of the span in front   *)
(* of the cut is to be summarized, with the history or as the prefix of a  *)
(* split turn, and nothing else is.                                        *)
LEMMA PrepareCompactionProperties ==
    ASSUME NEW es \in Seq(Entry), BoundaryStart(es) \in 1 .. Len(es),
           NEW p, p = PrepareCompaction(es)
    PROVE  /\ p.firstKept \in BoundaryStart(es) .. Len(es)
           /\ p.toSummarize \cup p.prefix =
                {i \in BoundaryStart(es) .. p.firstKept - 1 : Produces(es[i])}
           /\ p.previous = Latest(es) /\ p.seen = Len(es) /\ p.split \in BOOLEAN
           /\ p = [firstKept |-> p.firstKept, toSummarize |-> p.toSummarize,
                   prefix |-> p.prefix, split |-> p.split, previous |-> p.previous,
                   seen |-> p.seen]
<1> DEFINE start == BoundaryStart(es)
           cut   == FirstKept(es, start)
           split == IsSplitTurn(es, start, cut)
           turn  == MaxOf(TurnStarts(es, start, cut))
           historyEnd == IF split THEN turn ELSE cut
<1>1. start \in 1 .. Len(es) /\ cut \in start .. Len(es)
  BY FirstKeptInSpan
<1>2. split \in BOOLEAN
  BY DEF IsSplitTurn
<1>3. historyEnd \in start .. cut /\ (~split => historyEnd = cut)
  <2>1. CASE split
    <3>1. TurnStarts(es, start, cut) # {}
      BY <2>1 DEF IsSplitTurn
    <3> QED
      BY <1>1, <2>1, <3>1, TurnStartInSpan
  <2>2. CASE ~split
    BY <1>1, <2>2
  <2> QED
    BY <2>1, <2>2
<1>4. p = [firstKept |-> cut,
           toSummarize |-> {i \in start .. historyEnd - 1 : Produces(es[i])},
           prefix |-> {i \in historyEnd .. cut - 1 : split /\ Produces(es[i])},
           split |-> split, previous |-> Latest(es), seen |-> Len(es)]
  BY DEF PrepareCompaction
<1> HIDE DEF start, cut, split, turn, historyEnd
<1>5. p.toSummarize \cup p.prefix = {i \in start .. cut - 1 : Produces(es[i])}
  <2>1. \A i \in start .. cut - 1 : i \in start .. historyEnd - 1 \/ i \in historyEnd .. cut - 1
    BY <1>1, <1>3
  <2>2. \A i : i \in start .. historyEnd - 1 \/ i \in historyEnd .. cut - 1 => i \in start .. cut - 1
    BY <1>1, <1>3
  <2>3. ~split => historyEnd .. cut - 1 = {}
    BY <1>1, <1>3
  <2>4. /\ p.toSummarize = {i \in start .. historyEnd - 1 : Produces(es[i])}
        /\ p.prefix = {i \in historyEnd .. cut - 1 : split /\ Produces(es[i])}
    BY <1>4
  <2> QED
    BY <2>1, <2>2, <2>3, <2>4
<1> QED
  BY <1>1, <1>2, <1>4, <1>5 DEF start, cut

-----------------------------------------------------------------------------
(* Summaries.                                                              *)

(* What a summary of everything in front of cut must say, given the        *)
(* entries it was written from: only what is not kept, and all of it.      *)
OnlyBefore(cut, covers) == covers \subseteq 1 .. cut - 1
AllBefore(es, cut, covers) == \A i \in 1 .. cut - 1 : Produces(es[i]) => i \in covers

(* Every compaction on the path covers nothing it keeps and, unless a      *)
(* summary was dropped, everything it does not keep.  This is about all of *)
(* them and not only the newest: one that overlaps with others may start   *)
(* from an older one.                                                      *)
Summaries ==
    \A k \in Compactions(path) :
        /\ OnlyBefore(path[k].firstKept, path[k].covers)
        /\ ~path[k].forgets => AllBefore(path, path[k].firstKept, path[k].covers)

(* The same holds of a compaction under way, of what it is going to        *)
(* summarize and the summary it was given, on the path as it was then.     *)
PreparedFrom(p) ==
    /\ p.seen <= Len(path) /\ p.firstKept \in 1 .. p.seen
    /\ p.previous # None => p.previous \in Compactions(path)
    /\ OnlyBefore(p.firstKept, p.toSummarize \cup p.prefix \cup PreviousCovers(p))
    /\ p.previous = None \/ ~path[p.previous].forgets =>
         AllBefore(path, p.firstKept, p.toSummarize \cup p.prefix \cup PreviousCovers(p))

Prepared == \A s \in Slots : preparing[s] # NoPreparation => PreparedFrom(preparing[s])

IInv == TypeOK /\ Summaries /\ Prepared

(* A preparation is told from none by the length it has seen. *)
LEMMA PreparationType ==
    /\ \A p \in Preparation : p # NoPreparation
    /\ \A p \in Preparation \cup {NoPreparation} : p # NoPreparation => p \in Preparation
<1>1. ASSUME NEW p \in Preparation PROVE p # NoPreparation
  <2>1. p.seen # 0
    BY DEF Preparation, Indexes
  <2>2. NoPreparation.seen = 0
    BY DEF NoPreparation, None
  <2> QED
    BY <2>1, <2>2
<1> QED
  BY <1>1

(* Growing the path by an entry leaves the entries before it in place. *)
LEMMA AppendProperties ==
    ASSUME NEW es \in Seq(Entry), NEW e \in Entry
    PROVE  /\ Append(es, e) \in Seq(Entry) /\ Len(Append(es, e)) = Len(es) + 1
           /\ \A i \in 1 .. Len(es) : Append(es, e)[i] = es[i]
           /\ Append(es, e)[Len(es) + 1] = e
           /\ \A k : k \in Compactions(Append(es, e)) <=>
                       \/ k \in Compactions(es)
                       \/ k = Len(es) + 1 /\ e.kind = "compaction"
<1>1. /\ Append(es, e) \in Seq(Entry) /\ Len(Append(es, e)) = Len(es) + 1
      /\ \A i \in 1 .. Len(es) : Append(es, e)[i] = es[i]
      /\ Append(es, e)[Len(es) + 1] = e
  OBVIOUS
<1>2. \A k : k \in 1 .. Len(Append(es, e)) <=> k \in 1 .. Len(es) \/ k = Len(es) + 1
  BY <1>1
<1> QED
  BY <1>1, <1>2 DEF Compactions

(* A path that only grew: what was known of compactions on it, and of      *)
(* those under way, still is.                                              *)
LEMMA GrowthKeeps ==
    ASSUME IInv, NEW e \in Entry, path' = Append(path, e)
    PROVE  /\ \A k \in Compactions(path) :
                /\ k \in Compactions(path') /\ path'[k] = path[k]
                /\ OnlyBefore(path'[k].firstKept, path'[k].covers)
                /\ ~path'[k].forgets => AllBefore(path', path'[k].firstKept, path'[k].covers)
           /\ \A p \in Preparation : PreparedFrom(p) => PreparedFrom(p)'
<1>1. path \in Seq(Entry) /\ Len(path) \in Nat
  BY DEF IInv, TypeOK
<1>2. /\ path' \in Seq(Entry) /\ Len(path') = Len(path) + 1
      /\ \A i \in 1 .. Len(path) : path'[i] = path[i]
      /\ Compactions(path) \subseteq Compactions(path')
  BY <1>1, AppendProperties
<1>3. Compactions(path) \subseteq 1 .. Len(path)
  BY DEF Compactions
<1>4. ASSUME NEW cut \in 1 .. Len(path), NEW covers, AllBefore(path, cut, covers)
      PROVE  AllBefore(path', cut, covers)
  BY <1>1, <1>2, <1>4 DEF AllBefore
<1>5. ASSUME NEW k \in Compactions(path)
      PROVE  /\ k \in Compactions(path') /\ path'[k] = path[k]
             /\ OnlyBefore(path'[k].firstKept, path'[k].covers)
             /\ ~path'[k].forgets => AllBefore(path', path'[k].firstKept, path'[k].covers)
  <2>1. path'[k] = path[k] /\ k \in Compactions(path')
    BY <1>2, <1>3
  <2>2. path[k].firstKept \in 1 .. Len(path)
    <3>1. path[k] \in Entry
      BY <1>1, <1>3
    <3>2. path[k].seen \in Nat
      BY <3>1, CompactionAssumption DEF Entry
    <3>3. path[k].firstKept \in 1 .. path[k].seen /\ path[k].seen < k
      BY DEF IInv, TypeOK
    <3> QED
      BY <1>1, <1>3, <3>2, <3>3
  <2>3. /\ OnlyBefore(path[k].firstKept, path[k].covers)
        /\ ~path[k].forgets => AllBefore(path, path[k].firstKept, path[k].covers)
    BY DEF IInv, Summaries
  <2> QED
    BY <1>4, <2>1, <2>2, <2>3 DEF OnlyBefore
<1>6. ASSUME NEW p \in Preparation, PreparedFrom(p) PROVE PreparedFrom(p)'
  <2>1. p.previous # None =>
          /\ p.previous \in Compactions(path) /\ p.previous \in Compactions(path')
          /\ path'[p.previous] = path[p.previous]
    BY <1>2, <1>3, <1>6 DEF PreparedFrom
  <2>2. PreviousCovers(p)' = PreviousCovers(p)
    BY <2>1 DEF PreviousCovers
  <2>3. p.seen \in Nat /\ p.seen <= Len(path) /\ p.firstKept \in 1 .. p.seen
    BY <1>6 DEF PreparedFrom, Preparation, Indexes
  <2>4. p.firstKept \in 1 .. Len(path)
    BY <1>1, <2>3
  <2> DEFINE covers == p.toSummarize \cup p.prefix \cup PreviousCovers(p)
  <2>5. /\ OnlyBefore(p.firstKept, covers)
        /\ p.previous = None \/ ~path[p.previous].forgets => AllBefore(path, p.firstKept, covers)
    BY <1>6 DEF PreparedFrom
  <2>6. covers' = covers
    BY <2>2
  <2> HIDE DEF covers
  <2>7. p.previous = None \/ ~path'[p.previous].forgets => AllBefore(path', p.firstKept, covers)
    BY <1>4, <2>1, <2>4, <2>5
  <2>8. p.seen <= Len(path')
    BY <1>1, <1>2, <2>3
  <2> QED
    BY <2>1, <2>3, <2>5, <2>6, <2>7, <2>8 DEF PreparedFrom, covers
<1> QED
  BY <1>5, <1>6

-----------------------------------------------------------------------------
(* Each action.                                                            *)

(* The span to summarize starts in the path: at its beginning, or where    *)
(* the previous compaction kept from.                                      *)
LEMMA BoundaryInPath ==
    ASSUME IInv, path # <<>>
    PROVE  /\ BoundaryStart(path) \in 1 .. Len(path)
           /\ Latest(path) = None => BoundaryStart(path) = 1
           /\ Latest(path) # None =>
                /\ Latest(path) \in Compactions(path)
                /\ BoundaryStart(path) = path[Latest(path)].firstKept
<1>1. path \in Seq(Entry) /\ Len(path) \in Nat \ {0}
  BY DEF IInv, TypeOK
<1>2. \/ Latest(path) = None /\ Compactions(path) = {}
      \/ Latest(path) \in Compactions(path)
  BY <1>1, LatestProperties
<1>3. \A k \in Compactions(path) : k \in 1 .. Len(path)
  BY DEF Compactions
<1>4. CASE Latest(path) = None
  <2>1. BoundaryStart(path) = 1
    BY <1>4 DEF BoundaryStart
  <2> QED
    BY <1>1, <1>4, <2>1
<1>5. CASE Latest(path) # None
  <2> DEFINE k == Latest(path)
  <2>1. k \in Compactions(path) /\ k \in 1 .. Len(path) /\ path[k] \in Entry
    BY <1>1, <1>2, <1>3, <1>5
  <2>2. path[k].seen \in Nat
    BY <2>1, CompactionAssumption DEF Entry
  <2>3. path[k].firstKept \in 1 .. path[k].seen /\ path[k].seen < k
    BY <2>1 DEF IInv, TypeOK
  <2>4. path[k].firstKept \in 1 .. Len(path)
    BY <1>1, <2>1, <2>2, <2>3
  <2>5. BoundaryStart(path) = path[k].firstKept
    BY <1>5, <2>4 DEF BoundaryStart
  <2> QED
    BY <1>5, <2>1, <2>4, <2>5
<1> QED
  BY <1>4, <1>5

(* What a compaction starts with, on the path as it is: the messages of    *)
(* the span are to be summarized, those before it are in the summary of    *)
(* the compaction it goes on from.                                         *)
LEMMA PrepareEstablishes ==
    ASSUME IInv, path # <<>>
    PROVE  LET p == PrepareCompaction(path) IN p \in Preparation /\ PreparedFrom(p)
<1> DEFINE p == PrepareCompaction(path)
           start == BoundaryStart(path)
           new == p.toSummarize \cup p.prefix
           covers == new \cup PreviousCovers(p)
<1>1. path \in Seq(Entry) /\ Len(path) \in 1 .. MaxLen /\ MaxLen \in Nat
  BY CompactionAssumption DEF IInv, TypeOK
<1>2. /\ start \in 1 .. Len(path)
      /\ Latest(path) = None => start = 1
      /\ Latest(path) # None =>
           Latest(path) \in Compactions(path) /\ start = path[Latest(path)].firstKept
  BY BoundaryInPath
<1>3. /\ p.firstKept \in start .. Len(path)
      /\ new = {i \in start .. p.firstKept - 1 : Produces(path[i])}
      /\ p.previous = Latest(path) /\ p.seen = Len(path) /\ p.split \in BOOLEAN
      /\ p = [firstKept |-> p.firstKept, toSummarize |-> p.toSummarize, prefix |-> p.prefix,
              split |-> p.split, previous |-> p.previous, seen |-> p.seen]
  BY <1>1, <1>2, PrepareCompactionProperties
<1> HIDE DEF p, start
<1>4. p \in Preparation
  <2>1. new \subseteq Indexes
    BY <1>1, <1>2, <1>3 DEF Indexes
  <2>2. p.firstKept \in Indexes /\ p.seen \in Indexes
    BY <1>1, <1>2, <1>3 DEF Indexes
  <2>3. p.previous \in Indexes \cup {None}
    <3>1. Compactions(path) \subseteq Indexes
      BY <1>1 DEF Compactions, Indexes
    <3> QED
      BY <1>2, <1>3, <3>1
  <2>4. p.toSummarize \in SUBSET Indexes /\ p.prefix \in SUBSET Indexes
    BY <2>1
  <2> HIDE DEF new
  <2> QED
    BY <1>3, <2>2, <2>3, <2>4 DEF Preparation
<1>5. OnlyBefore(p.firstKept, covers)
  <2>1. new \subseteq 1 .. p.firstKept - 1
    BY <1>1, <1>2, <1>3
  <2>2. PreviousCovers(p) \subseteq 1 .. p.firstKept - 1
    <3>1. CASE Latest(path) = None
      BY <1>3, <3>1 DEF PreviousCovers
    <3>2. CASE Latest(path) # None
      <4>1. PreviousCovers(p) \subseteq 1 .. start - 1
        BY <1>2, <1>3, <3>2 DEF PreviousCovers, IInv, Summaries, OnlyBefore
      <4> QED
        BY <1>1, <1>2, <1>3, <4>1
    <3> QED
      BY <3>1, <3>2
  <2> HIDE DEF new
  <2> QED
    BY <2>1, <2>2 DEF OnlyBefore
<1>6. ASSUME p.previous = None \/ ~path[p.previous].forgets
      PROVE  AllBefore(path, p.firstKept, covers)
  <2> SUFFICES ASSUME NEW i \in 1 .. p.firstKept - 1, Produces(path[i])
               PROVE  i \in covers
    BY DEF AllBefore
  <2>1. CASE i \in start .. p.firstKept - 1
    BY <1>3, <2>1
  <2>2. CASE i \notin start .. p.firstKept - 1
    <3>1. i \in 1 .. start - 1
      BY <1>1, <1>2, <1>3, <2>2
    <3>2. Latest(path) # None
      BY <1>2, <3>1
    <3>3. AllBefore(path, start, PreviousCovers(p))
      BY <1>2, <1>3, <1>6, <3>2 DEF PreviousCovers, IInv, Summaries
    <3> QED
      BY <3>1, <3>3 DEF AllBefore
  <2> QED
    BY <2>1, <2>2
<1> HIDE DEF covers
<1>7. PreparedFrom(p)
  <2>1. p.seen <= Len(path) /\ p.firstKept \in 1 .. p.seen
    BY <1>1, <1>2, <1>3
  <2>2. p.previous # None => p.previous \in Compactions(path)
    BY <1>2, <1>3
  <2> QED
    BY <1>5, <1>6, <2>1, <2>2 DEF PreparedFrom, covers
<1> QED
  BY <1>4, <1>7 DEF p

(* The entry a compaction appends is one of those Summaries is about.      *)
LEMMA CompactionEntryProperties ==
    ASSUME IInv, NEW s \in Slots, preparing[s] # NoPreparation,
           NEW e, e = CompactionEntry(preparing[s])
    PROVE  /\ e \in Entry /\ e.kind = "compaction"
           /\ e.firstKept \in 1 .. e.seen /\ e.seen <= Len(path)
           /\ OnlyBefore(e.firstKept, e.covers)
           /\ ~e.forgets => AllBefore(path, e.firstKept, e.covers)
<1> DEFINE p == preparing[s]
           covers == p.toSummarize \cup p.prefix \cup PreviousCovers(p)
<1>1. p \in Preparation /\ PreparedFrom(p)
  BY PreparationType DEF IInv, TypeOK, Prepared
<1>2. e = [kind |-> "compaction", size |-> 0, firstKept |-> p.firstKept, covers |-> Covers(p),
           seen |-> p.seen,
           forgets |-> p.previous # None /\ (NoPriorHistory(p) \/ path[p.previous].forgets)]
  BY DEF CompactionEntry, CompactionAt
<1>3. Covers(p) \subseteq covers
  BY DEF Covers
<1>4. p.previous = None => PreviousCovers(p) = {}
  BY DEF PreviousCovers
<1>5. ASSUME ~e.forgets
      PROVE  Covers(p) = covers /\ (p.previous = None \/ ~path[p.previous].forgets)
  <2> DEFINE drops == p.previous # None /\ (NoPriorHistory(p) \/ path[p.previous].forgets)
  <2>0. ~drops
    <3>1. e = [kind |-> "compaction", size |-> 0, firstKept |-> p.firstKept,
               covers |-> Covers(p), seen |-> p.seen, forgets |-> drops]
      BY <1>2
    <3> HIDE DEF drops
    <3>2. e.forgets = drops
      BY <3>1
    <3> QED
      BY <1>5, <3>2, Zenon
  <2>1. ~(p.previous # None /\ (NoPriorHistory(p) \/ path[p.previous].forgets))
    BY <2>0
  <2>2. CASE NoPriorHistory(p)
    <3>1. p.previous = None /\ p.toSummarize = {} /\ PreviousCovers(p) = {}
      BY <1>4, <2>1, <2>2 DEF NoPriorHistory
    <3>2. Covers(p) = p.prefix
      BY <2>2 DEF Covers
    <3> QED
      BY <3>1, <3>2
  <2>3. CASE ~NoPriorHistory(p)
    <3>1. Covers(p) = covers
      BY <2>3 DEF Covers
    <3> QED
      BY <2>1, <2>3, <3>1
  <2> QED
    BY <2>2, <2>3
<1>6. /\ p.firstKept \in 1 .. p.seen /\ p.seen <= Len(path)
      /\ OnlyBefore(p.firstKept, covers)
      /\ p.previous = None \/ ~path[p.previous].forgets => AllBefore(path, p.firstKept, covers)
  BY <1>1 DEF PreparedFrom
<1> HIDE DEF covers, p
<1>7. p.firstKept \in Indexes /\ p.seen \in Indexes
  BY <1>1 DEF Preparation
<1>8. e \in Entry
  <2>1. Covers(p) \in SUBSET Indexes
    <3>1. covers \subseteq 1 .. p.firstKept - 1
      BY <1>6 DEF OnlyBefore
    <3>2. 1 .. p.firstKept - 1 \subseteq Indexes
      BY <1>7, CompactionAssumption DEF Indexes
    <3> QED
      BY <1>3, <3>1, <3>2
  <2>2. p.seen \in 0 .. MaxLen
    BY <1>7, CompactionAssumption DEF Indexes
  <2>3. (p.previous # None /\ (NoPriorHistory(p) \/ path[p.previous].forgets)) \in BOOLEAN
    OBVIOUS
  <2> QED
    BY <1>2, <1>7, <2>1, <2>2, <2>3 DEF Entry
<1>9. OnlyBefore(e.firstKept, e.covers)
  <2>1. e.firstKept = p.firstKept /\ e.covers = Covers(p) /\ e.seen = p.seen
    BY <1>2
  <2> QED
    BY <1>3, <1>6, <2>1 DEF OnlyBefore
<1>10. ~e.forgets => AllBefore(path, e.firstKept, e.covers)
  <2>1. e.firstKept = p.firstKept /\ e.covers = Covers(p)
    BY <1>2
  <2> QED
    BY <1>5, <1>6, <2>1
<1> QED
  BY <1>2, <1>6, <1>8, <1>9, <1>10

(* The step appends e and leaves the compactions under way alone, or ends  *)
(* some.                                                                   *)
GrowStep(e) ==
    /\ e \in Entry /\ Len(path) < MaxLen /\ path' = Append(path, e)
    /\ preparing' \in [Slots -> Preparation \cup {NoPreparation}]
    /\ \A s \in Slots : preparing'[s] # NoPreparation => preparing'[s] = preparing[s]

(* Such a step preserves the invariant, if the new entry satisfies it.     *)
LEMMA GrowStepPreserves ==
    ASSUME IInv, NEW e, GrowStep(e),
           e.kind = "compaction" =>
             /\ e.firstKept \in 1 .. e.seen /\ e.seen <= Len(path)
             /\ OnlyBefore(e.firstKept, e.covers)
             /\ ~e.forgets => AllBefore(path, e.firstKept, e.covers)
    PROVE  IInv'
<1> DEFINE n == Len(path) + 1
<1>1. path \in Seq(Entry) /\ Len(path) \in Nat /\ e \in Entry /\ path' = Append(path, e)
  BY DEF IInv, TypeOK, GrowStep
<1>2. /\ path' \in Seq(Entry) /\ Len(path') = n
      /\ \A i \in 1 .. Len(path) : path'[i] = path[i]
      /\ path'[n] = e
      /\ \A k : k \in Compactions(path') <=>
                  \/ k \in Compactions(path)
                  \/ k = n /\ e.kind = "compaction"
  BY <1>1, AppendProperties
<1>3. /\ \A k \in Compactions(path) :
           /\ k \in Compactions(path') /\ path'[k] = path[k]
           /\ OnlyBefore(path'[k].firstKept, path'[k].covers)
           /\ ~path'[k].forgets => AllBefore(path', path'[k].firstKept, path'[k].covers)
      /\ \A p \in Preparation : PreparedFrom(p) => PreparedFrom(p)'
  BY <1>1, GrowthKeeps
<1>4. ASSUME NEW k \in Compactions(path')
      PROVE  /\ path'[k].firstKept \in 1 .. path'[k].seen /\ path'[k].seen < k
             /\ OnlyBefore(path'[k].firstKept, path'[k].covers)
             /\ ~path'[k].forgets => AllBefore(path', path'[k].firstKept, path'[k].covers)
  <2>1. CASE k \in Compactions(path)
    BY <1>3, <2>1 DEF IInv, TypeOK
  <2>2. CASE k = n /\ e.kind = "compaction"
    <3>1. e.seen \in Nat
      BY <1>1, CompactionAssumption DEF Entry
    <3>2. e.seen < n /\ e.firstKept \in 1 .. Len(path)
      BY <1>1, <2>2, <3>1
    <3>3. AllBefore(path, e.firstKept, e.covers) => AllBefore(path', e.firstKept, e.covers)
      BY <1>1, <1>2, <3>2 DEF AllBefore
    <3>4. path'[k] = e
      BY <1>2, <2>2
    <3> QED
      BY <2>2, <3>2, <3>3, <3>4
  <2> QED
    BY <1>2, <1>4, <2>1, <2>2
<1>5. TypeOK'
  <2>1. Len(path') <= MaxLen
    BY <1>1, <1>2, CompactionAssumption DEF GrowStep
  <2> QED
    BY <1>2, <1>4, <2>1 DEF TypeOK, GrowStep
<1>6. Summaries'
  BY <1>4 DEF Summaries
<1>7. Prepared'
  <2> SUFFICES ASSUME NEW s \in Slots, preparing'[s] # NoPreparation
               PROVE  PreparedFrom(preparing[s])' /\ preparing'[s] = preparing[s]
    BY DEF Prepared
  <2>1. preparing'[s] = preparing[s]
    BY DEF GrowStep
  <2>2. preparing[s] \in Preparation /\ PreparedFrom(preparing[s])
    BY <2>1, PreparationType DEF IInv, TypeOK, Prepared
  <2> QED
    BY <1>3, <2>1, <2>2
<1> QED
  BY <1>5, <1>6, <1>7 DEF IInv

(* What the session appends is an entry. *)
LEMMA PlainType ==
    ASSUME NEW kind \in Kinds, NEW size \in Nat
    PROVE  Plain(kind, size) \in Entry /\ Plain(kind, size).kind = kind
<1>1. 0 \in 0 .. MaxLen
  BY CompactionAssumption
<1> QED
  BY <1>1 DEF Plain, Entry, None

(* No step makes the path forget: every action keeps the invariant. *)
LEMMA NextPreserves ==
    ASSUME IInv, [Next]_vars
    PROVE  IInv'
<1>0. /\ path \in Seq(Entry) /\ Len(path) \in Nat
      /\ preparing \in [Slots -> Preparation \cup {NoPreparation}]
  BY DEF IInv, TypeOK
<1>1. ASSUME NEW kind \in MessageKinds \cup {"note", "setting"}, NEW size \in Nat,
             AppendEntry(kind, size)
      PROVE  IInv'
  <2>1. Plain(kind, size) \in Entry /\ Plain(kind, size).kind = kind
    BY PlainType DEF Kinds
  <2>2. Plain(kind, size).kind # "compaction"
    BY <2>1 DEF MessageKinds
  <2>3. GrowStep(Plain(kind, size))
    BY <1>0, <1>1, <2>1 DEF AppendEntry, GrowStep
  <2> QED
    BY <2>2, <2>3, GrowStepPreserves
<1>2. ASSUME NEW s \in Slots, Prepare(s)
      PROVE  IInv'
  <2> DEFINE p == PrepareCompaction(path)
  <2>1. p \in Preparation /\ PreparedFrom(p)
    BY <1>2, PrepareEstablishes DEF Prepare
  <2> HIDE DEF p
  <2>2. path' = path /\ preparing' = [preparing EXCEPT ![s] = p]
    BY <1>2 DEF Prepare, p
  <2>3. TypeOK'
    BY <1>0, <2>1, <2>2 DEF IInv, TypeOK, Compactions
  <2>4. Summaries'
    BY <2>2 DEF IInv, Summaries, Compactions, AllBefore
  <2>5. \A q : PreparedFrom(q)' <=> PreparedFrom(q)
    BY <2>2 DEF PreparedFrom, PreviousCovers, Compactions, AllBefore
  <2>6. \A t \in Slots : preparing'[t] = IF t = s THEN p ELSE preparing[t]
    BY <1>0, <2>2
  <2>7. Prepared'
    BY <2>1, <2>5, <2>6 DEF IInv, Prepared
  <2> QED
    BY <2>3, <2>4, <2>7 DEF IInv
<1>3. ASSUME NEW s \in Slots, Finish(s)
      PROVE  IInv'
  <2> DEFINE e == CompactionEntry(preparing[s])
  <2>1. /\ e \in Entry /\ e.firstKept \in 1 .. e.seen /\ e.seen <= Len(path)
        /\ OnlyBefore(e.firstKept, e.covers)
        /\ ~e.forgets => AllBefore(path, e.firstKept, e.covers)
    BY <1>3, CompactionEntryProperties DEF Finish
  <2>2. GrowStep(e)
    <3>1. /\ Len(path) < MaxLen /\ path' = Append(path, e)
          /\ preparing' = [preparing EXCEPT ![s] = NoPreparation]
      BY <1>3 DEF Finish
    <3> HIDE DEF e
    <3> QED
      BY <1>0, <2>1, <3>1 DEF GrowStep
  <2> HIDE DEF e
  <2> QED
    BY <2>1, <2>2, GrowStepPreserves
<1>4. ASSUME NEW s \in Slots, GiveUp(s)
      PROVE  IInv'
  <2>1. path' = path /\ preparing' = [preparing EXCEPT ![s] = NoPreparation]
    BY <1>4 DEF GiveUp
  <2>2. TypeOK'
    BY <1>0, <2>1 DEF IInv, TypeOK, Compactions
  <2>3. Summaries'
    BY <2>1 DEF IInv, Summaries, Compactions, AllBefore
  <2>4. \A q : PreparedFrom(q)' <=> PreparedFrom(q)
    BY <2>1 DEF PreparedFrom, PreviousCovers, Compactions, AllBefore
  <2>5. Prepared'
    BY <1>0, <2>1, <2>4 DEF IInv, Prepared
  <2> QED
    BY <2>2, <2>3, <2>5 DEF IInv
<1>5. CASE UNCHANGED vars
  BY <1>5 DEF vars, IInv, TypeOK, Summaries, Prepared, PreparedFrom, PreviousCovers,
              Compactions, AllBefore
<1>6. \A kind \in MessageKinds : SizesOf[kind] \subseteq Nat
  BY CompactionAssumption
<1> QED
  BY <1>1, <1>2, <1>3, <1>4, <1>5, <1>6 DEF Next

(* The invariant holds of every state of every behaviour. *)
LEMMA Invariance == Spec => []IInv
<1>1. Init => IInv
  <2> SUFFICES ASSUME Init PROVE IInv
    OBVIOUS
  <2>1. path = <<>> /\ preparing = [s \in Slots |-> NoPreparation]
    BY DEF Init
  <2>2. path \in Seq(Entry) /\ Len(path) = 0 /\ Compactions(path) = {}
    BY <2>1 DEF Compactions
  <2> QED
    BY <2>1, <2>2, CompactionAssumption DEF IInv, TypeOK, Summaries, Prepared
<1>2. IInv /\ [Next]_vars => IInv'
  BY NextPreserves
<1> QED
  BY <1>1, <1>2, PTL DEF Spec

-----------------------------------------------------------------------------
(* Tool results and their calls.                                           *)

CutKinds == (MessageKinds \ {"toolResult"}) \cup {"note"}

(* Behind its call a result has only results of the same answer, settings  *)
(* and compactions.                                                        *)
AnsweredAt(es, i) ==
    \E j \in 1 .. i - 1 :
        /\ es[j].kind = "assistant"
        /\ \A h \in j + 1 .. i - 1 : es[h].kind \in {"toolResult", "setting", "compaction"}

Answered(es) == \A i \in 1 .. Len(es) : es[i].kind = "toolResult" => AnsweredAt(es, i)

(* A place to keep from: the beginning, or a cut point with settings and   *)
(* notes in front of it.                                                   *)
SafeCut(es, f) ==
    f = 1 \/ \E c \in f .. Len(es) :
                /\ es[c].kind \in CutKinds
                /\ \A h \in f .. c - 1 : es[h].kind \in {"setting", "note"}

(* The closest cut point is one. *)
LEMMA ClosestIsCutPoint ==
    ASSUME NEW es \in Seq(Entry), NEW start \in 1 .. Len(es), CutPoints(es, start) # {}
    PROVE  Closest(es, start) \in CutPoints(es, start)
<1> DEFINE after == {c \in CutPoints(es, start) :
                        Full(es, start) # {} /\ c >= MaxOf(Full(es, start))}
           S == IF after = {} THEN CutPoints(es, start) ELSE after
<1>1. S \subseteq CutPoints(es, start) /\ S # {}
  OBVIOUS
<1>2. CutPoints(es, start) \subseteq Nat
  BY DEF CutPoints
<1>3. Closest(es, start) = MinOf(S)
  BY DEF Closest
<1> HIDE DEF S
<1>4. S \in SUBSET Nat
  BY <1>1, <1>2
<1>5. MinOf(S) \in S
  BY <1>1, <1>4, MinOfProperties
<1> QED
  BY <1>1, <1>3, <1>5

(* The scan goes back over settings and notes only. *)
LEMMA ScanBackProperties ==
    ASSUME NEW es, NEW start \in Nat \ {0}, NEW cut \in Nat, start <= cut
    PROVE  /\ ScanBack(es, start, cut) \in start .. cut
           /\ \A h \in ScanBack(es, start, cut) .. cut - 1 : es[h].kind \in {"setting", "note"}
<1> DEFINE S == {j \in start .. cut : \A h \in j .. cut - 1 : es[h].kind \in {"setting", "note"}}
<1>1. cut \in S /\ S \in SUBSET Nat
  OBVIOUS
<1>2. MinOf(S) \in S
  BY <1>1, MinOfProperties
<1>3. ScanBack(es, start, cut) = MinOf(S)
  BY DEF ScanBack
<1> QED
  BY <1>2, <1>3

(* So is the place a compaction chooses, if the one before it was.         *)
LEMMA FirstKeptIsSafe ==
    ASSUME NEW es \in Seq(Entry), NEW start \in 1 .. Len(es), SafeCut(es, start)
    PROVE  SafeCut(es, FirstKept(es, start))
<1>1. CASE CutPoints(es, start) = {}
  BY <1>1 DEF FirstKept
<1>2. CASE CutPoints(es, start) # {}
  <2> DEFINE cut == Closest(es, start)
             f   == ScanBack(es, start, cut)
  <2>1. cut \in CutPoints(es, start)
    BY <1>2, ClosestIsCutPoint
  <2>2. cut \in start .. Len(es) /\ es[cut].kind \in CutKinds
    BY <2>1 DEF CutPoints, CutKinds
  <2>3. f = FirstKept(es, start)
    BY <1>2 DEF FirstKept
  <2> HIDE DEF cut
  <2>4. f \in start .. cut /\ \A h \in f .. cut - 1 : es[h].kind \in {"setting", "note"}
    BY <2>2, ScanBackProperties
  <2> HIDE DEF f
  <2>5. cut \in f .. Len(es)
    BY <2>2, <2>4
  <2> QED
    BY <2>2, <2>3, <2>4, <2>5 DEF SafeCut
<1> QED
  BY <1>1, <1>2

(* A result is never kept without its call. *)
LEMMA SafeCutKeepsCalls ==
    ASSUME NEW es \in Seq(Entry), NEW f \in 1 .. Len(es), SafeCut(es, f), Answered(es),
           NEW i \in f .. Len(es), es[i].kind = "toolResult"
    PROVE  \E j \in f .. i - 1 :
              /\ es[j].kind = "assistant"
              /\ \A h \in j + 1 .. i - 1 : es[h].kind \in {"toolResult", "setting", "compaction"}
<1>1. PICK j \in 1 .. i - 1 :
         /\ es[j].kind = "assistant"
         /\ \A h \in j + 1 .. i - 1 : es[h].kind \in {"toolResult", "setting", "compaction"}
  BY DEF Answered, AnsweredAt
<1>2. j >= f
  <2>1. CASE f = 1
    BY <2>1
  <2>2. CASE f # 1
    <3>1. PICK c \in f .. Len(es) :
             /\ es[c].kind \in CutKinds
             /\ \A h \in f .. c - 1 : es[h].kind \in {"setting", "note"}
      BY <2>2 DEF SafeCut
    <3>2. c < i
      <4>1. c # i
        BY <3>1 DEF CutKinds
      <4>2. ~(i \in f .. c - 1)
        BY <3>1
      <4> QED
        BY <4>1, <4>2
    <3>3. ~(c \in j + 1 .. i - 1)
      BY <1>1, <3>1 DEF CutKinds, MessageKinds
    <3> QED
      BY <3>2, <3>3
  <2> QED
    BY <2>1, <2>2
<1> QED
  BY <1>1, <1>2

(* Growing keeps both. *)
LEMMA GrowthKeepsAnswers ==
    ASSUME NEW es \in Seq(Entry), NEW e \in Entry, Answered(es),
           e.kind = "toolResult" => MayAnswer(es)
    PROVE  /\ Answered(Append(es, e))
           /\ \A f \in 1 .. Len(es) : SafeCut(es, f) => SafeCut(Append(es, e), f)
<1> DEFINE n == Len(es) + 1
           fs == Append(es, e)
<1>1. /\ fs \in Seq(Entry) /\ Len(fs) = n /\ fs[n] = e /\ n \in Nat
      /\ \A i \in 1 .. Len(es) : fs[i] = es[i]
  BY AppendProperties
<1> HIDE DEF fs
<1>2. ASSUME NEW i \in 1 .. Len(es), es[i].kind = "toolResult" PROVE AnsweredAt(fs, i)
  <2>1. AnsweredAt(es, i)
    BY <1>2 DEF Answered
  <2>2. \A h \in 1 .. i - 1 : fs[h] = es[h]
    BY <1>1
  <2> QED
    BY <2>1, <2>2 DEF AnsweredAt
<1>3. ASSUME e.kind = "toolResult" PROVE AnsweredAt(fs, n)
  <2>1. PICK j \in 1 .. Len(es) :
           /\ es[j].kind \in {"assistant", "toolResult"}
           /\ \A h \in j + 1 .. Len(es) : es[h].kind \in {"setting", "compaction"}
    BY <1>3 DEF MayAnswer
  <2>2. CASE es[j].kind = "assistant"
    <3>1. j \in 1 .. n - 1 /\ fs[j].kind = "assistant"
      BY <1>1, <2>2
    <3>2. \A h \in j + 1 .. n - 1 : fs[h].kind \in {"setting", "compaction"}
      BY <1>1, <2>1
    <3> QED
      BY <3>1, <3>2 DEF AnsweredAt
  <2>3. CASE es[j].kind = "toolResult"
    <3>1. PICK m \in 1 .. j - 1 :
             /\ es[m].kind = "assistant"
             /\ \A h \in m + 1 .. j - 1 : es[h].kind \in {"toolResult", "setting", "compaction"}
      BY <2>3 DEF Answered, AnsweredAt
    <3>2. m \in 1 .. n - 1 /\ fs[m].kind = "assistant"
      BY <1>1, <3>1
    <3>3. ASSUME NEW h \in m + 1 .. n - 1
          PROVE  fs[h].kind \in {"toolResult", "setting", "compaction"}
      <4>1. h \in m + 1 .. j - 1 \/ h = j \/ h \in j + 1 .. Len(es)
        OBVIOUS
      <4>2. fs[h] = es[h]
        BY <1>1
      <4> QED
        BY <2>1, <2>3, <3>1, <4>1, <4>2
    <3> QED
      BY <3>2, <3>3 DEF AnsweredAt
  <2> QED
    BY <2>1, <2>2, <2>3
<1>4. Answered(fs)
  <2>1. \A i \in 1 .. Len(fs) : i \in 1 .. Len(es) \/ i = n
    BY <1>1
  <2> QED
    BY <1>1, <1>2, <1>3, <2>1 DEF Answered
<1>5. ASSUME NEW f \in 1 .. Len(es), SafeCut(es, f) PROVE SafeCut(fs, f)
  <2>1. CASE f = 1
    BY <2>1 DEF SafeCut
  <2>2. CASE f # 1
    <3>1. PICK c \in f .. Len(es) :
             /\ es[c].kind \in CutKinds
             /\ \A h \in f .. c - 1 : es[h].kind \in {"setting", "note"}
      BY <1>5, <2>2 DEF SafeCut
    <3>2. c \in f .. Len(fs) /\ fs[c] = es[c] /\ \A h \in f .. c - 1 : fs[h] = es[h]
      BY <1>1
    <3> QED
      BY <3>1, <3>2 DEF SafeCut
  <2> QED
    BY <2>1, <2>2
<1> QED
  BY <1>4, <1>5 DEF fs

-----------------------------------------------------------------------------
(* Sizes.  SizeFrom is defined by recursion from the end of the path; that *)
(* there is such a function is shown for ends of the path of any length.   *)

SizeAt(es, i) == IF IsMessage(es[i]) THEN es[i].size ELSE 0

Sums(es, m, g) ==
    /\ g \in [m .. Len(es) + 1 -> Nat]
    /\ g[Len(es) + 1] = 0
    /\ \A i \in m .. Len(es) : g[i] = g[i + 1] + SizeAt(es, i)

LEMMA SizeAtType ==
    ASSUME NEW es \in Seq(Entry), NEW i \in 1 .. Len(es) PROVE SizeAt(es, i) \in Nat
<1>1. es[i] \in Entry
  OBVIOUS
<1>2. es[i].size \in Nat
  BY <1>1 DEF Entry
<1> QED
  BY <1>2 DEF SizeAt

(* One more entry in front. *)
LEMMA SumsExtend ==
    ASSUME NEW es \in Seq(Entry), NEW m \in 1 .. Len(es), NEW g, Sums(es, m + 1, g)
    PROVE  \E h : Sums(es, m, h)
<1> DEFINE n == Len(es)
           h == [i \in m .. n + 1 |-> IF i = m THEN g[m + 1] + SizeAt(es, m) ELSE g[i]]
<1>1. n \in Nat /\ m \in Nat /\ SizeAt(es, m) \in Nat
  BY SizeAtType
<1>2. \A i \in m .. n + 1 : i = m \/ i \in m + 1 .. n + 1
  BY <1>1
<1>3. g \in [m + 1 .. n + 1 -> Nat] /\ m + 1 \in m + 1 .. n + 1 /\ m # n + 1
  BY <1>1 DEF Sums
<1>4. h \in [m .. n + 1 -> Nat]
  BY <1>1, <1>2, <1>3
<1>5. h[n + 1] = 0
  BY <1>1, <1>3 DEF Sums
<1>6. ASSUME NEW i \in m .. n PROVE h[i] = h[i + 1] + SizeAt(es, i)
  <2>1. i + 1 \in m .. n + 1 /\ i + 1 # m /\ i \in m .. n + 1
    BY <1>1
  <2>2. h[i + 1] = g[i + 1]
    BY <2>1
  <2>3. CASE i = m
    BY <2>1, <2>2, <2>3
  <2>4. CASE i # m
    <3>1. i \in m + 1 .. n
      BY <1>1, <2>4
    <3>2. g[i] = g[i + 1] + SizeAt(es, i)
      BY <3>1 DEF Sums
    <3> QED
      BY <2>1, <2>2, <2>4, <3>2
  <2> QED
    BY <2>3, <2>4
<1> HIDE DEF h
<1> QED
  BY <1>4, <1>5, <1>6 DEF Sums

LEMMA SumsExist ==
    ASSUME NEW es \in Seq(Entry) PROVE \E g : Sums(es, 1, g)
<1> DEFINE n == Len(es)
           T == {k \in 0 .. n : ~\E g : Sums(es, n + 1 - k, g)}
<1>0. n \in Nat
  OBVIOUS
<1>1. CASE T = {}
  <2>1. n \in 0 .. n /\ n + 1 - n = 1
    BY <1>0
  <2> QED
    BY <1>1, <2>1
<1>2. CASE T # {}
  <2>1. T \in SUBSET Nat
    BY <1>0
  <2>2. MinOf(T) \in T /\ \A k \in T : MinOf(T) <= k
    BY <1>2, <2>1, MinOfProperties
  <2>3. PICK k \in 0 .. n : k = MinOf(T) /\ ~\E g : Sums(es, n + 1 - k, g)
    BY <2>2
  <2>4. CASE k = 0
    <3>1. Sums(es, n + 1, [i \in n + 1 .. n + 1 |-> 0])
      BY <1>0 DEF Sums
    <3> QED
      BY <2>3, <2>4, <3>1, n + 1 - 0 = n + 1
  <2>5. CASE k # 0
    <3>1. k - 1 \in 0 .. n /\ k - 1 < k
      BY <1>0, <2>5
    <3>a. k - 1 \notin T
      <4>1. k - 1 \in T => k <= k - 1
        BY <2>2, <2>3
      <4> QED
        BY <3>1, <4>1
    <3>2. PICK g : Sums(es, n + 1 - (k - 1), g)
      BY <3>1, <3>a
    <3>3. n + 1 - (k - 1) = (n + 1 - k) + 1 /\ n + 1 - k \in 1 .. n
      BY <1>0, <2>5
    <3>4. \E h : Sums(es, n + 1 - k, h)
      BY <3>2, <3>3, SumsExtend
    <3> QED
      BY <2>3, <3>4
  <2> QED
    BY <2>4, <2>5
<1> QED
  BY <1>1, <1>2

(* So SizeFrom is the sum its definition says. *)
LEMMA SizeFromSums ==
    ASSUME NEW es \in Seq(Entry) PROVE Sums(es, 1, SizeFrom(es))
<1> DEFINE D == 1 .. Len(es) + 1
           Step(g) == [i \in D |-> IF i = Len(es) + 1 THEN 0 ELSE g[i + 1] + SizeAt(es, i)]
<1>0. Len(es) \in Nat
  OBVIOUS
<1>1. ASSUME NEW g, Sums(es, 1, g) PROVE g = Step(g)
  <2>1. \A i \in D : i = Len(es) + 1 \/ i \in 1 .. Len(es)
    BY <1>0
  <2>2. \A i \in D : g[i] = IF i = Len(es) + 1 THEN 0 ELSE g[i + 1] + SizeAt(es, i)
    BY <1>1, <2>1 DEF Sums
  <2>3. g = [i \in D |-> g[i]]
    BY <1>1 DEF Sums
  <2> QED
    BY <2>2, <2>3
<1>2. \E g : g = Step(g)
  BY <1>1, SumsExist
<1>3. SizeFrom(es) = CHOOSE g : g = Step(g)
  BY DEF SizeFrom, SizeAt
<1>4. SizeFrom(es) = Step(SizeFrom(es))
  BY <1>2, <1>3
<1> DEFINE f == SizeFrom(es)
<1> HIDE DEF f
<1>5. /\ f[Len(es) + 1] = 0
      /\ \A i \in 1 .. Len(es) : f[i] = f[i + 1] + SizeAt(es, i)
  <2>1. \A i \in D : f[i] = IF i = Len(es) + 1 THEN 0 ELSE f[i + 1] + SizeAt(es, i)
    BY <1>4 DEF f
  <2>2. \A i \in 1 .. Len(es) : i \in D /\ i # Len(es) + 1
    BY <1>0
  <2>3. Len(es) + 1 \in D
    BY <1>0
  <2> QED
    BY <2>1, <2>2, <2>3
<1>6. \A i \in D : f[i] \in Nat
  <2> DEFINE T == {i \in D : f[i] \notin Nat}
  <2>1. SUFFICES ASSUME T # {} PROVE FALSE
    OBVIOUS
  <2>2. MaxOf(T) \in T /\ \A k \in T : k <= MaxOf(T)
    <3>1. Len(es) + 1 \in Nat /\ T \in SUBSET (1 .. Len(es) + 1)
      BY <1>0
    <3> HIDE DEF T
    <3> QED
      BY <2>1, <3>1, MaxOfProperties
  <2>3. PICK m \in D : m = MaxOf(T) /\ f[m] \notin Nat
    BY <2>2
  <2>4. m \in 1 .. Len(es)
    BY <1>0, <1>5, <2>3
  <2>5. f[m + 1] \in Nat
    <3>1. m + 1 \in D /\ ~(m + 1 <= m)
      BY <1>0, <2>4
    <3> QED
      BY <2>2, <2>3, <3>1
  <2> QED
    BY <1>5, <2>3, <2>4, <2>5, SizeAtType
<1>7. f = [i \in D |-> f[i]]
  BY <1>4 DEF f
<1>8. f \in [1 .. Len(es) + 1 -> Nat]
  BY <1>6, <1>7
<1> QED
  BY <1>5, <1>8 DEF Sums, f

(* The sums grow towards the front ... *)
LEMMA SizeFromGrows ==
    ASSUME NEW es \in Seq(Entry), NEW i \in 1 .. Len(es) + 1, NEW j \in i .. Len(es) + 1
    PROVE  SizeFrom(es)[j] <= SizeFrom(es)[i]
<1> DEFINE n == Len(es)
           f == SizeFrom(es)
           T == {k \in 1 .. j : ~(f[j] <= f[k])}
<1>0. n \in Nat /\ i \in 1 .. j /\ j \in 1 .. n + 1 /\ j \in Nat
  OBVIOUS
<1>1. /\ \A k \in 1 .. n + 1 : f[k] \in Nat
      /\ \A k \in 1 .. n : f[k] = f[k + 1] + SizeAt(es, k) /\ SizeAt(es, k) \in Nat
  BY SizeFromSums, SizeAtType DEF Sums
<1> HIDE DEF f, n
<1>2. SUFFICES ASSUME T # {} PROVE FALSE
  BY <1>0, <1>1 DEF f
<1>3. MaxOf(T) \in T /\ \A k \in T : k <= MaxOf(T)
  BY <1>0, <1>2, MaxOfProperties
<1>4. PICK k \in 1 .. j : k = MaxOf(T) /\ ~(f[j] <= f[k])
  BY <1>3
<1>5. k # j /\ k \in 1 .. n /\ k + 1 \in 1 .. j /\ k + 1 \in 1 .. n + 1
  BY <1>0, <1>1, <1>4
<1>6. f[j] <= f[k + 1]
  <2>1. ~(k + 1 <= k)
    BY <1>5
  <2> QED
    BY <1>3, <1>4, <1>5, <2>1
<1> QED
  BY <1>0, <1>1, <1>4, <1>5, <1>6, SMTT(30)

(* ... by the messages only: a sum is that of the next message. *)
LEMMA SizeFromMessages ==
    ASSUME NEW es \in Seq(Entry), NEW i \in 1 .. Len(es) + 1
    PROVE  \/ SizeFrom(es)[i] = 0
           \/ \E j \in i .. Len(es) : IsMessage(es[j]) /\ SizeFrom(es)[i] = SizeFrom(es)[j]
<1> DEFINE n == Len(es)
           f == SizeFrom(es)
           Good(k) == f[k] = 0 \/ \E j \in k .. n : IsMessage(es[j]) /\ f[k] = f[j]
           T == {k \in 1 .. n + 1 : ~Good(k)}
<1>0. n \in Nat /\ n + 1 \in Nat
  OBVIOUS
<1>1. /\ \A k \in 1 .. n + 1 : f[k] \in Nat
      /\ f[n + 1] = 0
      /\ \A k \in 1 .. n : f[k] = f[k + 1] + SizeAt(es, k)
  BY SizeFromSums DEF Sums
<1>2. SUFFICES ASSUME T # {} PROVE FALSE
  OBVIOUS
<1> HIDE DEF f, n
<1>3. MaxOf(T) \in T /\ \A k \in T : k <= MaxOf(T)
  BY <1>0, <1>2, MaxOfProperties
<1>4. PICK k \in 1 .. n + 1 : k = MaxOf(T) /\ ~Good(k)
  BY <1>3
<1>5. k \in 1 .. n /\ k + 1 \in 1 .. n + 1 /\ k \in k .. n
  BY <1>0, <1>1, <1>4
<1>6. Good(k + 1)
  <2>1. ~(k + 1 <= k)
    BY <1>5
  <2> QED
    BY <1>3, <1>4, <1>5, <2>1
<1>7. ~IsMessage(es[k])
  BY <1>4, <1>5
<1>8. f[k] = f[k + 1]
  <2>1. SizeAt(es, k) = 0
    BY <1>7 DEF SizeAt
  <2> QED
    BY <1>1, <1>5, <2>1
<1>9. \A j \in k + 1 .. n : j \in k .. n
  BY <1>5
<1> QED
  BY <1>4, <1>6, <1>8, <1>9

(* What KeptWithinBudget says of one compaction. *)
WithinBudget(es, f) ==
    LET cuts     == CutPoints(es, 1)
        kept     == {i \in f .. Len(es) : IsMessage(es[i])}
        oversize == cuts # {} /\ SizeFrom(es)[MaxOf(cuts) + 1] >= KeepRecent
    IN  kept # {} /\ ~oversize => SizeFrom(es)[MinOf(kept) + 1] < KeepRecent

(* Behind the place where the budget is used up it is not used up, nor     *)
(* anywhere in the span if there is no such place.                         *)
LEMMA BehindFull ==
    ASSUME NEW es \in Seq(Entry), NEW start \in 1 .. Len(es), NEW q \in start .. Len(es),
           Full(es, start) # {} => MaxOf(Full(es, start)) <= q
    PROVE  SizeFrom(es)[q + 1] < KeepRecent
<1> DEFINE n == Len(es)
           f == SizeFrom(es)
           F == Full(es, start)
<1>0. n \in Nat /\ q + 1 \in 1 .. n + 1 /\ KeepRecent \in Nat \ {0} /\ f[q + 1] \in Nat
  <2>1. n \in Nat /\ q + 1 \in 1 .. n + 1 /\ KeepRecent \in Nat \ {0}
    BY CompactionAssumption
  <2>2. f \in [1 .. n + 1 -> Nat]
    BY SizeFromSums DEF Sums
  <2> HIDE DEF f, n
  <2> QED
    BY <2>1, <2>2
<1>1. CASE f[q + 1] = 0
  BY <1>0, <1>1
<1>2. CASE f[q + 1] # 0
  <2>1. PICK j \in q + 1 .. n : IsMessage(es[j]) /\ f[q + 1] = f[j]
    BY <1>0, <1>2, SizeFromMessages
  <2>2. j \notin F
    <3>1. F \in SUBSET (1 .. n)
      BY DEF Full
    <3>2. F # {} => \A k \in F : k <= MaxOf(F)
      BY <1>0, <3>1, MaxOfProperties
    <3>3. F # {} => MaxOf(F) \in F
      BY <1>0, <3>1, MaxOfProperties
    <3>4. ~(j <= q)
      BY <1>0
    <3>5. j \in F => j <= MaxOf(F) /\ MaxOf(F) <= q /\ MaxOf(F) \in Nat
      BY <3>1, <3>2, <3>3
    <3> QED
      BY <3>4, <3>5
  <2>3. j \in start .. n
    BY <1>0
  <2>4. ~(f[j] >= KeepRecent)
    BY <2>1, <2>2, <2>3 DEF Full
  <2> QED
    BY <1>0, <2>1, <2>4
<1> QED
  BY <1>1, <1>2

(* The place findCutPoint chooses keeps the budget. *)
LEMMA FirstKeptWithinBudget ==
    ASSUME NEW es \in Seq(Entry), NEW start \in 1 .. Len(es), Answered(es)
    PROVE  WithinBudget(es, FirstKept(es, start))
<1> DEFINE n == Len(es)
           s == SizeFrom(es)
           f == FirstKept(es, start)
           cuts == CutPoints(es, 1)
           here == CutPoints(es, start)
           kept == {i \in f .. n : IsMessage(es[i])}
           F == Full(es, start)
<1>1. /\ n \in Nat /\ f \in start .. n /\ KeepRecent \in Nat \ {0}
      /\ \A i \in 1 .. n + 1 : s[i] \in Nat
  <2>1. n \in Nat /\ f \in start .. n /\ KeepRecent \in Nat \ {0}
    BY FirstKeptInSpan, CompactionAssumption
  <2>2. s \in [1 .. n + 1 -> Nat]
    BY SizeFromSums DEF Sums
  <2> HIDE DEF s, f, n
  <2> QED
    BY <2>1, <2>2
<1>2. SUFFICES ASSUME kept # {}, cuts # {} => ~(s[MaxOf(cuts) + 1] >= KeepRecent)
               PROVE  s[MinOf(kept) + 1] < KeepRecent
  BY DEF WithinBudget
<1> DEFINE q == MinOf(kept)
<1>3. q \in kept /\ q \in f .. n /\ IsMessage(es[q])
  <2>1. kept \in SUBSET Nat
    BY <1>1
  <2>2. MinOf(kept) \in kept
    BY <1>2, <2>1, MinOfProperties
  <2> QED
    BY <2>2
<1>4. /\ cuts \in SUBSET (1 .. n) /\ here = {c \in cuts : c >= start}
      /\ F \in SUBSET (start .. n) /\ F \in SUBSET (1 .. n)
  BY <1>1 DEF CutPoints, Full
<1>5. cuts # {} => MaxOf(cuts) \in cuts /\ \A c \in cuts : c <= MaxOf(cuts)
  BY <1>1, <1>4, MaxOfProperties
<1>6. F # {} => MaxOf(F) \in F /\ \A c \in F : c <= MaxOf(F)
  BY <1>1, <1>4, MaxOfProperties
<1> HIDE DEF n, s, f, cuts, here, kept, F, q
<1>7. CASE here = {}
  <2>1. cuts # {}
    <3>1. CASE es[q].kind = "toolResult"
      <4>1. PICK j \in 1 .. q - 1 : es[j].kind = "assistant"
        BY <1>1, <1>3, <3>1 DEF Answered, AnsweredAt, n
      <4>2. j \in 1 .. n
        BY <1>1, <1>3
      <4> QED
        BY <4>1, <4>2 DEF cuts, CutPoints, MessageKinds, n
    <3>2. CASE es[q].kind # "toolResult"
      <4>1. q \in 1 .. n
        BY <1>1, <1>3
      <4> QED
        BY <1>3, <3>2, <4>1 DEF cuts, CutPoints, IsMessage, n
    <3> QED
      BY <3>1, <3>2
  <2>2. MaxOf(cuts) \in 1 .. n /\ ~(MaxOf(cuts) >= start)
    BY <1>4, <1>5, <1>7, <2>1
  <2>3. MaxOf(cuts) + 1 \in 1 .. n + 1 /\ q + 1 \in MaxOf(cuts) + 1 .. n + 1 /\ q + 1 \in 1 .. n + 1
    BY <1>1, <1>3, <2>2
  <2>4. s[q + 1] <= s[MaxOf(cuts) + 1]
    BY <2>3, SizeFromGrows DEF s, n
  <2> QED
    BY <1>1, <1>2, <2>1, <2>3, <2>4 DEF q
<1>8. CASE here # {}
  <2> DEFINE c == Closest(es, start)
  <2>1. c \in here /\ c \in start .. n
    BY <1>8, ClosestIsCutPoint, ClosestInSpan DEF here, n
  <2>2. f = ScanBack(es, start, c)
    BY <1>8 DEF f, FirstKept, here
  <2>3. \A h \in f .. c - 1 : es[h].kind \in {"setting", "note"}
    <3>1. start \in Nat \ {0} /\ c \in Nat /\ start <= c
      BY <1>1, <2>1
    <3> HIDE DEF c
    <3> QED
      BY <2>2, <3>1, ScanBackProperties
  <2> HIDE DEF c
  <2>4. c <= q
    <3>1. q \notin f .. c - 1
      BY <1>3, <2>3 DEF IsMessage, MessageKinds
    <3> QED
      BY <1>1, <1>3, <2>1, <3>1
  <2>5. F # {} => MaxOf(F) <= c
    <3> SUFFICES ASSUME F # {}, ~(MaxOf(F) <= c) PROVE FALSE
      OBVIOUS
    <3>1. MaxOf(F) \in 1 .. n /\ IsMessage(es[MaxOf(F)]) /\ s[MaxOf(F)] >= KeepRecent
      BY <1>4, <1>6 DEF F, Full, s
    <3> DEFINE after == {d \in here : F # {} /\ d >= MaxOf(F)}
    <3>2. CASE after = {}
      <4>1. cuts # {} /\ MaxOf(cuts) \in cuts /\ MaxOf(cuts) \in 1 .. n /\ MaxOf(cuts) >= start
        <5>1. PICK d \in here : TRUE
          BY <1>8
        <5>2. d \in cuts /\ d >= start
          BY <1>4, <5>1
        <5>3. MaxOf(cuts) \in cuts /\ d <= MaxOf(cuts) /\ MaxOf(cuts) \in 1 .. n /\ d \in 1 .. n
          BY <1>4, <1>5, <5>2
        <5> QED
          BY <5>2, <5>3
      <4>2. MaxOf(cuts) \in here
        BY <1>4, <4>1
      <4>3. ~(MaxOf(cuts) >= MaxOf(F))
        BY <3>2, <4>2
      <4>4. MaxOf(cuts) + 1 \in 1 .. n + 1 /\ MaxOf(F) \in MaxOf(cuts) + 1 .. n + 1
        BY <1>1, <3>1, <4>1, <4>3
      <4>5. s[MaxOf(F)] <= s[MaxOf(cuts) + 1]
        BY <4>4, SizeFromGrows DEF s, n
      <4> QED
        BY <1>1, <1>2, <3>1, <4>1, <4>4, <4>5
    <3>3. CASE after # {}
      <4>1. c = MinOf(after)
        BY <3>3 DEF c, Closest, here, F
      <4>2. after \in SUBSET Nat
        <5>1. \A d \in here : d \in cuts
          BY <1>4
        <5>2. \A d \in cuts : d \in Nat
          BY <1>1, <1>4
        <5> QED
          BY <5>1, <5>2
      <4>3. MinOf(after) \in after
        BY <3>3, <4>2, MinOfProperties
      <4>4. c >= MaxOf(F)
        BY <4>1, <4>3
      <4> QED
        BY <2>1, <3>1, <4>4
    <3> QED
      BY <3>2, <3>3
  <2>6. F # {} => MaxOf(F) <= q
    <3>1. F # {} => MaxOf(F) \in Nat
      BY <1>4, <1>6
    <3> QED
      BY <1>1, <1>3, <2>1, <2>4, <2>5, <3>1
  <2>7. q \in start .. n
    BY <1>1, <1>3
  <2> QED
    BY <2>6, <2>7, BehindFull DEF F, n, s, q
<1> QED
  BY <1>7, <1>8 DEF q

-----------------------------------------------------------------------------
(* The places compactions keep from.                                       *)

(* Place f was chosen when the path was n entries long. *)
GoodCut(es, f, n) == SafeCut(es, f) /\ WithinBudget(SubSeq(es, 1, n), f)

(* Every result has its call; compactions that are written or under way    *)
(* keep calls with their results, and the budget.                          *)
GoodCuts ==
    /\ Answered(path)
    /\ \A k \in Compactions(path) : GoodCut(path, path[k].firstKept, path[k].seen)
    /\ \A s \in Slots : preparing[s] # NoPreparation =>
          GoodCut(path, preparing[s].firstKept, preparing[s].seen)

(* A cut stays good when the path grows. *)
LEMMA GrowthKeepsCut ==
    ASSUME NEW es \in Seq(Entry), NEW e \in Entry, Answered(es),
           e.kind = "toolResult" => MayAnswer(es),
           NEW f \in 1 .. Len(es), NEW n \in 0 .. Len(es), GoodCut(es, f, n)
    PROVE  GoodCut(Append(es, e), f, n)
<1>1. SafeCut(Append(es, e), f)
  BY GrowthKeepsAnswers DEF GoodCut
<1>2. SubSeq(Append(es, e), 1, n) = SubSeq(es, 1, n)
  OBVIOUS
<1> QED
  BY <1>1, <1>2 DEF GoodCut

(* Where compactions keep from. *)
LEMMA CutTypes ==
    ASSUME IInv
    PROVE  /\ path \in Seq(Entry) /\ Len(path) \in Nat
           /\ preparing \in [Slots -> Preparation \cup {NoPreparation}]
           /\ \A k \in Compactions(path) :
                 path[k].firstKept \in 1 .. Len(path) /\ path[k].seen \in 0 .. Len(path)
           /\ \A s \in Slots : preparing[s] # NoPreparation =>
                 /\ preparing[s].firstKept \in 1 .. Len(path)
                 /\ preparing[s].seen \in 0 .. Len(path)
<1>1. /\ path \in Seq(Entry) /\ Len(path) \in Nat
      /\ preparing \in [Slots -> Preparation \cup {NoPreparation}]
  BY DEF IInv, TypeOK
<1>2. ASSUME NEW k \in Compactions(path)
      PROVE  path[k].firstKept \in 1 .. Len(path) /\ path[k].seen \in 0 .. Len(path)
  <2>1. k \in 1 .. Len(path) /\ path[k] \in Entry
    BY <1>1 DEF Compactions
  <2>2. path[k].seen \in Nat
    BY <2>1, CompactionAssumption DEF Entry
  <2>3. path[k].firstKept \in 1 .. path[k].seen /\ path[k].seen < k
    BY DEF IInv, TypeOK
  <2> QED
    BY <1>1, <2>1, <2>2, <2>3
<1>3. ASSUME NEW s \in Slots, preparing[s] # NoPreparation
      PROVE  preparing[s].firstKept \in 1 .. Len(path) /\ preparing[s].seen \in 0 .. Len(path)
  <2>1. preparing[s] \in Preparation /\ PreparedFrom(preparing[s])
    BY <1>3, PreparationType DEF IInv, TypeOK, Prepared
  <2>2. preparing[s].seen \in Nat
    BY <2>1 DEF Preparation, Indexes
  <2> QED
    BY <1>1, <2>1, <2>2 DEF PreparedFrom
<1> QED
  BY <1>1, <1>2, <1>3

LEMMA GrowStepKeepsCuts ==
    ASSUME IInv, GoodCuts, NEW e, GrowStep(e), e.kind = "toolResult" => MayAnswer(path),
           e.kind = "compaction" =>
              /\ e.firstKept \in 1 .. Len(path) /\ e.seen \in 0 .. Len(path)
              /\ GoodCut(path, e.firstKept, e.seen)
    PROVE  GoodCuts'
<1> DEFINE n == Len(path) + 1
<1>1. path \in Seq(Entry) /\ Len(path) \in Nat /\ e \in Entry /\ path' = Append(path, e)
  BY CutTypes DEF GrowStep
<1>2. /\ Len(path') = n /\ path'[n] = e
      /\ \A i \in 1 .. Len(path) : path'[i] = path[i]
      /\ \A k : k \in Compactions(path') <=>
                  \/ k \in Compactions(path)
                  \/ k = n /\ e.kind = "compaction"
  BY <1>1, AppendProperties
<1>3. Answered(path')
  BY <1>1, GrowthKeepsAnswers DEF GoodCuts
<1>4. \A f \in 1 .. Len(path), m \in 0 .. Len(path) :
         GoodCut(path, f, m) => GoodCut(path', f, m)
  BY <1>1, GrowthKeepsCut DEF GoodCuts
<1>5. ASSUME NEW k \in Compactions(path') PROVE GoodCut(path', path'[k].firstKept, path'[k].seen)
  <2>1. CASE k \in Compactions(path)
    <3>1. k \in 1 .. Len(path)
      BY <2>1 DEF Compactions
    <3>2. GoodCut(path, path[k].firstKept, path[k].seen)
      BY <2>1 DEF GoodCuts
    <3> QED
      BY <1>2, <1>4, <2>1, <3>1, <3>2, CutTypes
  <2>2. CASE k = n /\ e.kind = "compaction"
    BY <1>2, <1>4, <2>2
  <2> QED
    BY <1>2, <2>1, <2>2
<1>6. ASSUME NEW s \in Slots, preparing'[s] # NoPreparation
      PROVE  GoodCut(path', preparing'[s].firstKept, preparing'[s].seen)
  <2>1. preparing'[s] = preparing[s]
    BY <1>6 DEF GrowStep
  <2>2. GoodCut(path, preparing[s].firstKept, preparing[s].seen)
    BY <1>6, <2>1 DEF GoodCuts
  <2> QED
    BY <1>4, <1>6, <2>1, <2>2, CutTypes
<1> QED
  BY <1>3, <1>5, <1>6 DEF GoodCuts

LEMMA PrepareGoodCut ==
    ASSUME IInv, GoodCuts, path # <<>>
    PROVE  LET p == PrepareCompaction(path) IN GoodCut(path, p.firstKept, p.seen)
<1> DEFINE start == BoundaryStart(path)
           f == FirstKept(path, start)
<1>1. path \in Seq(Entry) /\ Len(path) \in Nat
  BY CutTypes
<1>2. /\ start \in 1 .. Len(path)
      /\ Latest(path) = None => start = 1
      /\ Latest(path) # None =>
           Latest(path) \in Compactions(path) /\ start = path[Latest(path)].firstKept
  BY BoundaryInPath
<1>3. SafeCut(path, start)
  BY <1>2 DEF GoodCuts, GoodCut, SafeCut
<1>4. SafeCut(path, f)
  BY <1>1, <1>2, <1>3, FirstKeptIsSafe
<1>5. WithinBudget(path, f)
  BY <1>1, <1>2, FirstKeptWithinBudget DEF GoodCuts
<1>6. SubSeq(path, 1, Len(path)) = path
  BY <1>1
<1>7. PrepareCompaction(path).firstKept = f /\ PrepareCompaction(path).seen = Len(path)
  BY DEF PrepareCompaction
<1> QED
  BY <1>4, <1>5, <1>6, <1>7 DEF GoodCut

(* Every action keeps the cuts good. *)
LEMMA NextKeepsCuts ==
    ASSUME IInv, GoodCuts, [Next]_vars
    PROVE  GoodCuts'
<1>0. /\ path \in Seq(Entry) /\ Len(path) \in Nat
      /\ preparing \in [Slots -> Preparation \cup {NoPreparation}]
  BY CutTypes
<1>1. ASSUME NEW kind \in MessageKinds \cup {"note", "setting"}, NEW size \in Nat,
             AppendEntry(kind, size)
      PROVE  GoodCuts'
  <2>1. Plain(kind, size) \in Entry /\ Plain(kind, size).kind = kind
    BY PlainType DEF Kinds
  <2>2. Plain(kind, size).kind # "compaction"
    BY <2>1 DEF MessageKinds
  <2>3. GrowStep(Plain(kind, size)) /\ (kind = "toolResult" => MayAnswer(path))
    BY <1>0, <1>1, <2>1 DEF AppendEntry, GrowStep
  <2> QED
    BY <2>1, <2>2, <2>3, GrowStepKeepsCuts
<1>2. ASSUME NEW s \in Slots, Prepare(s)
      PROVE  GoodCuts'
  <2> DEFINE p == PrepareCompaction(path)
  <2>1. GoodCut(path, p.firstKept, p.seen)
    BY <1>2, PrepareGoodCut DEF Prepare
  <2> HIDE DEF p
  <2>2. path' = path /\ preparing' = [preparing EXCEPT ![s] = p]
    BY <1>2 DEF Prepare, p
  <2>3. \A t \in Slots : preparing'[t] = IF t = s THEN p ELSE preparing[t]
    BY <1>0, <2>2
  <2> QED
    BY <2>1, <2>2, <2>3 DEF GoodCuts
<1>3. ASSUME NEW s \in Slots, Finish(s)
      PROVE  GoodCuts'
  <2> DEFINE e == CompactionEntry(preparing[s])
  <2>1. e \in Entry /\ e.kind = "compaction"
    BY <1>3, CompactionEntryProperties DEF Finish
  <2>2. e.firstKept = preparing[s].firstKept /\ e.seen = preparing[s].seen
    BY DEF CompactionEntry, CompactionAt
  <2>3. GrowStep(e)
    <3>1. /\ Len(path) < MaxLen /\ path' = Append(path, e)
          /\ preparing' = [preparing EXCEPT ![s] = NoPreparation]
      BY <1>3 DEF Finish
    <3> HIDE DEF e
    <3> QED
      BY <1>0, <2>1, <3>1 DEF GrowStep
  <2> HIDE DEF e
  <2>4. preparing[s] # NoPreparation
    BY <1>3 DEF Finish
  <2>5. /\ e.firstKept \in 1 .. Len(path) /\ e.seen \in 0 .. Len(path)
        /\ GoodCut(path, e.firstKept, e.seen)
    BY <2>2, <2>4, CutTypes DEF GoodCuts
  <2> QED
    BY <2>1, <2>3, <2>5, GrowStepKeepsCuts
<1>4. ASSUME NEW s \in Slots, GiveUp(s)
      PROVE  GoodCuts'
  <2>1. path' = path /\ preparing' = [preparing EXCEPT ![s] = NoPreparation]
    BY <1>4 DEF GiveUp
  <2>2. \A t \in Slots : preparing'[t] = IF t = s THEN NoPreparation ELSE preparing[t]
    BY <1>0, <2>1
  <2> QED
    BY <2>1, <2>2 DEF GoodCuts
<1>5. CASE UNCHANGED vars
  BY <1>5 DEF vars, GoodCuts
<1>6. \A kind \in MessageKinds : SizesOf[kind] \subseteq Nat
  BY CompactionAssumption
<1> QED
  BY <1>1, <1>2, <1>3, <1>4, <1>5, <1>6 DEF Next

LEMMA CutsInvariance == Spec => []GoodCuts
<1>1. Init => GoodCuts
  <2> SUFFICES ASSUME Init PROVE GoodCuts
    OBVIOUS
  <2>1. path = <<>> /\ \A s \in Slots : preparing[s] = NoPreparation
    BY DEF Init
  <2>2. Len(path) = 0 /\ Compactions(path) = {}
    BY <2>1 DEF Compactions
  <2> QED
    BY <2>1, <2>2 DEF GoodCuts, Answered
<1>2. IInv /\ GoodCuts /\ [Next]_vars => GoodCuts'
  BY NextKeepsCuts
<1> QED
  BY <1>1, <1>2, Invariance, PTL DEF Spec

-----------------------------------------------------------------------------
(* Theorems.                                                               *)

(* Types; every compaction on the path keeps from an entry that was there  *)
(* when it was prepared, and was prepared before it was appended.          *)
THEOREM CompactionTypeCorrect == Spec => []TypeOK
<1>1. IInv => TypeOK
  BY DEF IInv
<1> QED
  BY <1>1, Invariance, PTL

(* Whatever was appended while summaries were written, and however the     *)
(* compactions overlapped: a message the model no longer sees is one its   *)
(* newest summary was written from, unless that summary descends from one  *)
(* that dropped the summary before it ("No prior history.").               *)
THEOREM NothingForgotten == Spec => []RememberedUnlessDropped
<1>1. IInv => RememberedUnlessDropped
  <2> SUFFICES ASSUME IInv, Latest(path) # None, ~path[Latest(path)].forgets,
                      NEW i \in 1 .. Len(path), Produces(path[i]),
                      ~(i >= path[Latest(path)].firstKept)
               PROVE  i \in path[Latest(path)].covers
    <3>1. \A i \in 1 .. Len(path) :
            Produces(path[i]) /\ i >= path[Latest(path)].firstKept => i \in InContext
      BY DEF InContext
    <3> QED
      BY <3>1 DEF RememberedUnlessDropped, Remembered
  <2> DEFINE k == Latest(path)
  <2>1. path \in Seq(Entry)
    BY DEF IInv, TypeOK
  <2>2. k \in Compactions(path)
    BY <2>1, LatestProperties
  <2>3. AllBefore(path, path[k].firstKept, path[k].covers)
    BY <2>2 DEF IInv, Summaries
  <2>4. i \in 1 .. path[k].firstKept - 1
    <3>1. path[k].firstKept \in 1 .. path[k].seen
      BY <2>2 DEF IInv, TypeOK
    <3> HIDE DEF k
    <3> QED
      BY <3>1 DEF k
  <2> QED
    BY <2>3, <2>4 DEF AllBefore
<1> QED
  BY <1>1, Invariance, PTL

(* And no message is both in sight and summarized: a compaction that was   *)
(* prepared before others were appended neither brings back nor repeats    *)
(* what its own summary covers.                                            *)
THEOREM SummariesDisjoint == Spec => []NothingTwice
<1>1. IInv => NothingTwice
  <2> SUFFICES ASSUME IInv, Latest(path) # None,
                      NEW i \in path[Latest(path)].covers, i \in InContext
               PROVE  FALSE
    BY DEF NothingTwice
  <2> DEFINE k == Latest(path)
  <2>1. path \in Seq(Entry)
    BY DEF IInv, TypeOK
  <2>2. k \in Compactions(path)
    BY <2>1, LatestProperties
  <2>3. i \in 1 .. path[k].firstKept - 1
    BY <2>2 DEF IInv, Summaries, OnlyBefore
  <2>4. i >= path[k].firstKept
    BY DEF InContext
  <2>5. path[k].firstKept \in Int
    BY <2>2 DEF IInv, TypeOK
  <2> HIDE DEF k
  <2> QED
    BY <2>3, <2>4, <2>5
<1> QED
  BY <1>1, Invariance, PTL

(* No compaction, however it overlaps with others, keeps a tool result     *)
(* without the call it answers.                                            *)
THEOREM ResultsKeepCalls == Spec => []NoOrphanResults
<1>1. IInv /\ GoodCuts => NoOrphanResults
  <2> SUFFICES ASSUME IInv, GoodCuts, NEW i \in InContext, path[i].kind = "toolResult"
               PROVE  \E j \in InContext :
                         /\ j < i /\ path[j].kind = "assistant"
                         /\ \A h \in j + 1 .. i - 1 :
                                path[h].kind \in {"toolResult", "setting", "compaction"}
    BY DEF NoOrphanResults
  <2> DEFINE f == IF Latest(path) = None THEN 1 ELSE path[Latest(path)].firstKept
  <2>1. path \in Seq(Entry) /\ Len(path) \in Nat /\ i \in 1 .. Len(path)
    BY CutTypes DEF InContext
  <2>2. f \in 1 .. Len(path) /\ SafeCut(path, f)
    <3>1. CASE Latest(path) = None
      BY <2>1, <3>1 DEF SafeCut
    <3>2. CASE Latest(path) # None
      <4>1. Latest(path) \in Compactions(path)
        BY <2>1, <3>2, LatestProperties
      <4> QED
        BY <3>2, <4>1, CutTypes DEF GoodCuts, GoodCut
    <3> QED
      BY <3>1, <3>2
  <2>3. \A j \in 1 .. Len(path) : j \in InContext <=> Produces(path[j]) /\ j >= f
    BY <2>1, <2>2 DEF InContext
  <2> HIDE DEF f
  <2>4. i \in f .. Len(path)
    BY <2>1, <2>2, <2>3
  <2>5. PICK j \in f .. i - 1 :
           /\ path[j].kind = "assistant"
           /\ \A h \in j + 1 .. i - 1 : path[h].kind \in {"toolResult", "setting", "compaction"}
    BY <2>1, <2>2, <2>4, SafeCutKeepsCalls DEF GoodCuts
  <2>6. j \in InContext
    <3>1. j \in 1 .. Len(path) /\ j >= f
      BY <2>1, <2>2
    <3> QED
      BY <2>3, <2>5, <3>1 DEF Produces, IsMessage, MessageKinds
  <2> QED
    BY <2>1, <2>2, <2>5, <2>6
<1> QED
  BY <1>1, Invariance, CutsInvariance, PTL

(* Every compaction keeps at most one message beyond the budget, for       *)
(* messages of any sizes and any budget, unless what follows the last      *)
(* possible cut uses up the budget alone.                                  *)
THEOREM BudgetIsKept == Spec => []KeptWithinBudget
<1>1. GoodCuts => KeptWithinBudget
  BY DEF GoodCuts, GoodCut, WithinBudget, KeptWithinBudget
<1> QED
  BY <1>1, CutsInvariance, PTL
=============================================================================
