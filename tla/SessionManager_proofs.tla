----------------------- MODULE SessionManager_proofs -----------------------
(***************************************************************************)
(* Proofs about the session store, for any number of entries and files,    *)
(* any labels and roles, and any choice of faults.                         *)
(***************************************************************************)
EXTENDS SessionManager, TLAPS, SequenceTheorems, FiniteSetTheorems, WellFoundedInduction

-----------------------------------------------------------------------------
(* The last position a set of positions holds.                             *)

(* A set of naturals that is not empty has a least element. *)
LEMMA NatMin ==
    ASSUME NEW T \in SUBSET Nat, T # {}
    PROVE  \E x \in T : \A y \in T : x <= y
<1> DEFINE R == OpToRel(<, Nat)
<1>1. IsWellFoundedOn(R, Nat)
  BY NatLessThanWellFounded
<1> HIDE DEF R
<1>2. PICK x \in T : \A y \in T : ~(<<y, x>> \in R)
  BY <1>1, WFMin
<1>3. \A y \in T : ~(y < x)
  BY <1>2 DEF R, OpToRel
<1> QED
  BY <1>3

(* MaxOf names the greatest member of a set of positions, so _buildIndex   *)
(* keeps the last line that speaks of an id.                               *)
LEMMA MaxOfProperties ==
    ASSUME NEW n \in Nat, NEW S \in SUBSET (1 .. n), S # {}
    PROVE  MaxOf(S) \in S /\ \A k \in S : k <= MaxOf(S)
<1> DEFINE T == {n - k : k \in S}
<1>1. PICK s \in S : TRUE
  OBVIOUS
<1>2. T \in SUBSET Nat /\ n - s \in T
  OBVIOUS
<1>3. PICK x \in T : \A y \in T : x <= y
  BY <1>2, NatMin
<1>4. PICK m \in S : x = n - m
  BY <1>3
<1>5. \A k \in S : k <= m
  <2> SUFFICES ASSUME NEW k \in S PROVE k <= m
    OBVIOUS
  <2>1. n - m <= n - k
    BY <1>3, <1>4
  <2> QED
    BY <2>1
<1> QED
  BY <1>5 DEF MaxOf

-----------------------------------------------------------------------------
(* Lines and files.                                                        *)

(* A header and the absence of an entry are no entries. *)
LEMMA NotEntries == Header \notin Entry /\ NoEntry \notin Entry
  BY DEF Header, NoEntry, Entry, Types, SettingTypes, ExtensionTypes

(* Every line that is not a header is an entry. *)
LEMMA EntryAtProperties ==
    ASSUME NEW es \in Seq(Line)
    PROVE  /\ EntryAt(es) \in SUBSET (1 .. Len(es))
           /\ \A k \in EntryAt(es) : es[k] \in Entry
           /\ \A k \in 1 .. Len(es) : es[k] \in Entry => k \in EntryAt(es)
<1>1. \A k \in 1 .. Len(es) : es[k] \in Line
  BY ElementOfSeq
<1>2. \A e \in Line : e.type # "session" => e \in Entry
  BY DEF Line, Header
<1>3. \A e \in Entry : e.type # "session"
  BY DEF Entry, Types, SettingTypes, ExtensionTypes
<1> QED
  BY <1>1, <1>2, <1>3 DEF EntryAt

(* What _buildIndex computes has the right type. *)
LEMMA IndexType ==
    ASSUME NEW es \in Seq(Line)
    PROVE  /\ IndexOf(es) \in [Ids -> Entry \cup {NoEntry}]
           /\ LabelsOf(es) \in [Ids -> Labels \cup {NoLabel}]
           /\ LastId(es) \in Ids \cup {Null}
<1>1. Len(es) \in Nat
  BY LenProperties
<1>2. \A S \in SUBSET EntryAt(es) : S # {} => MaxOf(S) \in S /\ es[MaxOf(S)] \in Entry
  BY <1>1, MaxOfProperties, EntryAtProperties
<1>3. IndexOf(es) \in [Ids -> Entry \cup {NoEntry}]
  <2> SUFFICES ASSUME NEW i \in Ids
               PROVE  LET at == {k \in EntryAt(es) : es[k].id = i}
                      IN  (IF at = {} THEN NoEntry ELSE es[MaxOf(at)]) \in Entry \cup {NoEntry}
    BY DEF IndexOf
  <2> DEFINE at == {k \in EntryAt(es) : es[k].id = i}
  <2>1. at \in SUBSET EntryAt(es)
    OBVIOUS
  <2> QED
    BY <2>1, <1>2
<1>4. LabelsOf(es) \in [Ids -> Labels \cup {NoLabel}]
  <2> SUFFICES ASSUME NEW i \in Ids
               PROVE  LET at == {k \in EntryAt(es) : es[k].type = "label" /\ es[k].ref = i}
                      IN  (IF at = {} THEN NoLabel ELSE es[MaxOf(at)].val) \in Labels \cup {NoLabel}
    BY DEF LabelsOf
  <2> DEFINE at == {k \in EntryAt(es) : es[k].type = "label" /\ es[k].ref = i}
  <2>1. at \in SUBSET EntryAt(es)
    OBVIOUS
  <2>2. \A e \in Entry : e.type = "label" => e.val \in Labels \cup {NoLabel}
    BY DEF Entry
  <2> QED
    BY <2>1, <2>2, <1>2
<1>5. LastId(es) \in Ids \cup {Null}
  <2>1. \A e \in Entry : e.id \in Ids
    BY DEF Entry
  <2> QED
    BY <1>2, <2>1 DEF LastId
<1> QED
  BY <1>3, <1>4, <1>5

(* The empty sequence is a prefix of any other. *)
LEMMA EmptyIsPrefix ==
    ASSUME NEW S, NEW s \in Seq(S)
    PROVE  IsPrefix(<<>>, s)
<1>1. Len(<<>>) = 0 /\ Len(s) \in Nat
  BY EmptySeq, LenProperties
<1>2. SubSeq(s, 1, 0) = <<>>
  BY SubSeqEmpty
<1> QED
  BY <1>1, <1>2 DEF IsPrefix

(* A sequence agrees with its prefixes. *)
LEMMA PrefixElements ==
    ASSUME NEW S, NEW s \in Seq(S), NEW t \in Seq(S), IsPrefix(s, t)
    PROVE  \A i \in 1 .. Len(s) : t[i] = s[i]
<1>1. Len(s) \in Nat /\ Len(t) \in Nat /\ Len(s) <= Len(t)
  BY LenProperties DEF IsPrefix
<1>2. \A i \in 1 .. Len(s) : t[i] \in S
  BY <1>1, ElementOfSeq
<1>3. \A i \in 1 .. Len(s) : SubSeq(t, 1, Len(s))[i] = t[i]
  BY <1>1, <1>2, SubSeqProperties
<1> QED
  BY <1>3 DEF IsPrefix

(* And is one of any sequence that agrees with it. *)
LEMMA PrefixFromElements ==
    ASSUME NEW S, NEW s \in Seq(S), NEW t \in Seq(S), Len(s) <= Len(t),
           \A i \in 1 .. Len(s) : t[i] = s[i]
    PROVE  IsPrefix(s, t)
<1>1. Len(s) \in Nat /\ Len(t) \in Nat
  BY LenProperties
<1>2. \A i \in 1 .. Len(s) : t[i] \in S
  BY <1>1, ElementOfSeq
<1>3. /\ SubSeq(t, 1, Len(s)) \in Seq(S)
      /\ Len(SubSeq(t, 1, Len(s))) = Len(s)
      /\ \A i \in 1 .. Len(s) : SubSeq(t, 1, Len(s))[i] = t[i]
  BY <1>1, <1>2, SubSeqProperties
<1>4. SubSeq(t, 1, Len(s)) = s
  BY <1>3, SeqEqual
<1> QED
  BY <1>4 DEF IsPrefix

(* Prefixes are transitive. *)
LEMMA PrefixTransitive ==
    ASSUME NEW S, NEW s \in Seq(S), NEW t \in Seq(S), NEW u \in Seq(S),
           IsPrefix(s, t), IsPrefix(t, u)
    PROVE  IsPrefix(s, u)
<1>1. /\ Len(s) \in Nat /\ Len(t) \in Nat /\ Len(u) \in Nat
      /\ Len(s) <= Len(t) /\ Len(t) <= Len(u)
  BY LenProperties DEF IsPrefix
<1>2. /\ \A i \in 1 .. Len(s) : t[i] = s[i]
      /\ \A i \in 1 .. Len(t) : u[i] = t[i]
  BY PrefixElements
<1>3. \A i \in 1 .. Len(s) : u[i] = s[i]
  BY <1>1, <1>2
<1> QED
  BY <1>1, <1>3, PrefixFromElements

(* A file holds lines, none when it does not exist. *)
LEMMA ContentLines ==
    ASSUME NEW c \in Content
    PROVE  c.lines \in Seq(Line) /\ Len(c.lines) \in Nat
<1>1. <<>> \in Seq(Line)
  BY EmptySeq
<1>2. CASE c = Absent
  BY <1>1, <1>2, LenProperties DEF Absent
<1>3. CASE c \in [exists: {TRUE}, lines: Seq(Line), tail: Tails]
  BY <1>3, LenProperties
<1> QED
  BY <1>2, <1>3 DEF Content

(* Any lines with any tail are a file. *)
LEMMA LinesContent ==
    ASSUME NEW ls \in Seq(Line), NEW t \in Tails
    PROVE  [exists |-> TRUE, tail |-> t, lines |-> ls] \in Content
  BY DEF Content

(* What an append keeps of the lines already there are lines of it. *)
LEMMA KeepProperties ==
    ASSUME NEW c \in Content
    PROVE  /\ Keep(c) \in Seq(Line)
           /\ c.tail # "unterminated" => Keep(c) = c.lines
           /\ IsPrefix(Keep(c), c.lines)
<1>1. c.lines \in Seq(Line) /\ Len(c.lines) \in Nat
  BY ContentLines
<1>2. IsPrefix(c.lines, c.lines)
  BY <1>1, SubSeqFull DEF IsPrefix
<1>3. CASE c.tail # "unterminated"
  BY <1>1, <1>2, <1>3 DEF Keep
<1>4. CASE c.tail = "unterminated"
  <2> DEFINE n == Len(c.lines) - 1
  <2>1. Keep(c) = SubSeq(c.lines, 1, n)
    BY <1>4 DEF Keep
  <2>2. \A i \in 1 .. n : c.lines[i] \in Line
    BY <1>1, ElementOfSeq
  <2>3. Keep(c) \in Seq(Line) /\ Len(Keep(c)) = IF 1 <= n THEN n ELSE 0
    BY <1>1, <2>1, <2>2, SubSeqProperties
  <2>4. CASE 1 <= n
    BY <2>1, <2>3, <2>4, <1>1, <1>4 DEF IsPrefix
  <2>5. CASE ~(1 <= n)
    <3>1. Keep(c) = <<>>
      BY <2>1, <2>5, <1>1, SubSeqEmpty
    <3> QED
      BY <2>3, <3>1, <1>1, <1>4, EmptyIsPrefix
  <2> QED
    BY <2>4, <2>5
<1> QED
  BY <1>3, <1>4

(* A sequence is a prefix of its concatenation with another. *)
LEMMA PrefixOfConcat ==
    ASSUME NEW S, NEW s \in Seq(S), NEW t \in Seq(S)
    PROVE  IsPrefix(s, s \o t)
<1>1. /\ s \o t \in Seq(S) /\ Len(s \o t) = Len(s) + Len(t)
      /\ Len(s) \in Nat /\ Len(t) \in Nat
  BY ConcatProperties, LenProperties
<1>2. CASE s = <<>>
  BY <1>1, <1>2, EmptyIsPrefix
<1>3. CASE s # <<>>
  <2>1. 1 \in 1 .. Len(s) /\ Len(s) \in 1 .. Len(s)
    BY <1>1, <1>3, EmptySeq
  <2>2. SubSeq(s \o t, 1, Len(s)) = SubSeq(s, 1, Len(s))
    BY <2>1, SubSeqOfConcat1
  <2> QED
    BY <1>1, <2>2, SubSeqFull DEF IsPrefix
<1> QED
  BY <1>2, <1>3

(* Whole lines appended to a file come after the lines it keeps. *)
LEMMA AppendLinesProperties ==
    ASSUME NEW c \in Content, NEW ls \in Seq(Line)
    PROVE  /\ AppendLines(c, ls) \in Content
           /\ ls # <<>> => AppendLines(c, ls).tail = "clean"
           /\ IsPrefix(Keep(c), AppendLines(c, ls).lines)
<1>1. CASE ls = <<>>
  BY <1>1, KeepProperties DEF AppendLines
<1>2. CASE ls # <<>>
  <2> DEFINE new == IF c.tail = "clean" THEN ls ELSE Tail(ls)
  <2>1. new \in Seq(Line)
    BY <1>2, HeadTailProperties
  <2> HIDE DEF new
  <2>2. Keep(c) \o new \in Seq(Line) /\ IsPrefix(Keep(c), Keep(c) \o new)
    BY <2>1, KeepProperties, PrefixOfConcat, ConcatProperties
  <2>3. AppendLines(c, ls) = [exists |-> TRUE, tail |-> "clean", lines |-> Keep(c) \o new]
    BY <1>2 DEF AppendLines, new
  <2> QED
    BY <2>2, <2>3 DEF Content, Tails
<1> QED
  BY <1>1, <1>2

(* Whatever comes of writing lines to a file, the file stays well typed and *)
(* the lines it kept stay in front.                                         *)
LEMMA OutcomesProperties ==
    ASSUME NEW c \in Content, NEW ls \in Seq(Line), NEW o \in Outcomes(c, ls)
    PROVE  /\ o.content \in Content
           /\ o.end \in {"ok", "kill", "throw"}
           /\ IsPrefix(Keep(c), o.content.lines)
<1>1. CASE o = [content |-> AppendLines(c, ls), end |-> "ok"]
  BY <1>1, AppendLinesProperties
<1>2. CASE o \in [content: Interrupted(c, ls), end: Faults]
  <2>1. o.content \in Interrupted(c, ls) /\ o.end \in {"kill", "throw"}
    BY <1>2, FaultAssumption
  <2>2. PICK n \in 0 .. Len(ls) - 1 :
          LET written == AppendLines(c, SubSeq(ls, 1, n))
          IN  o.content \in {written} \cup TornLine(written, ls[n + 1])
    BY <2>1 DEF Interrupted
  <2> DEFINE written == AppendLines(c, SubSeq(ls, 1, n))
  <2>3. Len(ls) \in Nat /\ n \in Nat /\ ls[n + 1] \in Line
    <3>1. Len(ls) \in Nat
      BY LenProperties
    <3> QED
      BY <3>1, ElementOfSeq
  <2>4. SubSeq(ls, 1, n) \in Seq(Line) /\ (n # 0 => SubSeq(ls, 1, n) # <<>>)
    <3>1. \A i \in 1 .. n : ls[i] \in Line
      BY <2>3, ElementOfSeq
    <3>2. SubSeq(ls, 1, n) \in Seq(Line) /\ Len(SubSeq(ls, 1, n)) = IF 1 <= n THEN n ELSE 0
      BY <2>3, <3>1, SubSeqProperties
    <3> QED
      BY <2>3, <3>2, EmptySeq
  <2>5. written \in Content /\ IsPrefix(Keep(c), Keep(written))
    <3>1. CASE n = 0
      <4>1. SubSeq(ls, 1, n) = <<>>
        BY <3>1, SubSeqEmpty
      <4>2. written = c
        BY <4>1 DEF AppendLines
      <4>3. Keep(c) \in Seq(Line) /\ Len(Keep(c)) \in Nat
        BY KeepProperties, LenProperties
      <4> QED
        BY <4>2, <4>3, SubSeqFull DEF IsPrefix
    <3>2. CASE n # 0
      BY <3>2, <2>4, AppendLinesProperties, KeepProperties
    <3> QED
      BY <3>1, <3>2
  <2>6. IsPrefix(Keep(c), written.lines)
    BY <2>4, AppendLinesProperties
  <2> HIDE DEF written
  <2>7. CASE o.content = written
    BY <2>1, <2>5, <2>6, <2>7
  <2>8. CASE o.content = [exists |-> TRUE, tail |-> "fragment", lines |-> Keep(written)]
    <3>1. o.content \in Content
      BY <2>5, <2>8, KeepProperties, LinesContent DEF Tails
    <3>2. o.content.lines = Keep(written)
      BY <2>8
    <3> QED
      BY <2>1, <2>5, <3>1, <3>2
  <2>9. CASE written.tail = "clean" /\ o.content =
               [exists |-> TRUE, tail |-> "unterminated", lines |-> Append(written.lines, ls[n + 1])]
    <3>1. written.lines \in Seq(Line) /\ <<ls[n + 1]>> \in Seq(Line)
      BY <2>3, <2>5, ContentLines
    <3>2. /\ Append(written.lines, ls[n + 1]) = written.lines \o <<ls[n + 1]>>
          /\ Append(written.lines, ls[n + 1]) \in Seq(Line)
      BY <2>3, <3>1, AppendIsConcat, AppendProperties
    <3>3. IsPrefix(written.lines, Append(written.lines, ls[n + 1]))
      BY <3>1, <3>2, PrefixOfConcat
    <3>4. Keep(written) = written.lines
      BY <2>9 DEF Keep
    <3>5. IsPrefix(Keep(c), Append(written.lines, ls[n + 1]))
      BY <2>5, <3>1, <3>2, <3>3, <3>4, PrefixTransitive, KeepProperties
    <3> QED
      BY <2>1, <2>9, <3>2, <3>5 DEF Content, Tails
  <2> QED
    BY <2>2, <2>7, <2>8, <2>9 DEF TornLine, written
<1> QED
  BY <1>1, <1>2 DEF Outcomes

-----------------------------------------------------------------------------
(* The type of each variable.                                              *)

(* A new entry is an entry: its id is in range while CanAppend allows it. *)
LEMMA NewEntryType ==
    ASSUME TypeOK, CanAppend, NEW type \in Types, NEW parent \in Ids \cup {Null},
           NEW ref \in Ids \cup {Null}, NEW val \in Roles \cup Labels \cup {NoLabel},
           type = "label" => val \in Labels \cup {NoLabel}
    PROVE  /\ NewEntry(type, parent, ref, val) \in Entry
           /\ NewEntry(type, parent, ref, val).id = nextId
  BY DEF NewEntry, Entry, CanAppend

(* Writing no line leaves the content as it is, and cannot fail. *)
LEMMA OutcomesOfNothing ==
    ASSUME NEW c, NEW o \in Outcomes(c, <<>>)
    PROVE  o.content = c /\ o.end = "ok"
<1>1. Len(<<>>) = 0
  BY EmptySeq
<1>2. Interrupted(c, <<>>) = {}
  BY <1>1 DEF Interrupted
<1> QED
  BY <1>2 DEF Outcomes, AppendLines

(* What a step may write to the file of the manager, or to none. *)
LEMMA WriteFileType ==
    ASSUME TypeOK, NEW f \in Files \cup {NoFile}, NEW c \in Content, NEW ls \in Seq(Line),
           NEW o \in Outcomes(c, ls), WriteFile(f, o),
           f \notin Files => c.tail = "clean" /\ ls = <<>>
    PROVE  /\ disk' \in [Files -> Content]
           /\ damaged' \subseteq Files
<1>1. o.content \in Content
  BY OutcomesProperties
<1>2. disk' \in [Files -> Content]
  BY <1>1 DEF WriteFile, TypeOK
<1>3. f \notin Files => o.end = "ok" /\ o.content.tail = "clean"
  BY OutcomesOfNothing
<1>4. damaged' \subseteq Files
  BY <1>3 DEF WriteFile, TypeOK, Files
<1> QED
  BY <1>2, <1>4

(* What _persist writes are lines, none for a session in memory only. *)
LEMMA PersistLinesType ==
    ASSUME NEW es \in Seq(Line), NEW e \in Entry
    PROVE  /\ PersistLines(es, e) \in Seq(Line)
           /\ sessionFile = NoFile => PersistLines(es, e) = <<>>
<1>1. e \in Line
  BY DEF Line
<1>2. <<>> \in Seq(Line) /\ <<e>> \in Seq(Line)
  BY <1>1
<1> QED
  BY <1>2 DEF PersistLines, Persisting

LEMMA ContentType ==
    ASSUME TypeOK, NEW f
    PROVE  /\ FileContent(f) \in Content
           /\ f \notin Files => FileContent(f) = Absent /\ Absent.tail = "clean"
<1>1. <<>> \in Seq(Line)
  BY EmptySeq
<1> QED
  BY <1>1 DEF FileContent, Absent, Content, Tails, TypeOK

(* The process being gone is a well-typed state of the manager. *)
LEMMA ExitType ==
    ASSUME Exit
    PROVE  /\ sessionFile' \in Files \cup {NoFile} /\ flushed' \in BOOLEAN
           /\ fileEntries' \in Seq(Line) /\ byId' \in [Ids -> Entry \cup {NoEntry}]
           /\ labelsById' \in [Ids -> Labels \cup {NoLabel}] /\ leafId' \in Ids \cup {Null}
<1>1. <<>> \in Seq(Line)
  BY EmptySeq
<1> QED
  BY <1>1 DEF Exit, NoIndex, NoLabels

(* Every append keeps the types, whatever comes of its write. *)
LEMMA AppendEntryType ==
    ASSUME TypeOK, CanAppend, NEW e \in Entry, e.id = nextId,
           NEW labels \in [Ids -> Labels \cup {NoLabel}], AppendEntry(e, labels)
    PROVE  TypeOK'
<1> DEFINE es == Append(fileEntries, e)
<1>1. es \in Seq(Line)
  <2>1. e \in Line /\ fileEntries \in Seq(Line)
    BY DEF Line, TypeOK
  <2> QED
    BY <2>1, AppendProperties
<1> HIDE DEF es
<1>2. PICK o \in Outcomes(FileContent(sessionFile), PersistLines(es, e)) :
        /\ WriteFile(sessionFile, o)
        /\ \/ o.end = "kill" /\ Exit
           \/ /\ o.end # "kill"
              /\ fileEntries' = es
              /\ byId' = [byId EXCEPT ![e.id] = e]
              /\ leafId' = e.id
              /\ flushed' = IF o.end = "throw" THEN flushed ELSE FlushedAfter(es)
              /\ labelsById' = IF o.end = "throw" THEN labelsById ELSE labels
              /\ UNCHANGED sessionFile
        /\ nextId' = nextId + 1
        /\ UNCHANGED usedFiles
  BY DEF AppendEntry, es
<1>3. disk' \in [Files -> Content] /\ damaged' \subseteq Files
  <2>1. sessionFile \in Files \cup {NoFile} /\ NoFile \notin Files
    BY DEF TypeOK, Files, NoFile
  <2> QED
    BY <1>1, <1>2, <2>1, ContentType, PersistLinesType, WriteFileType
<1>4. nextId' \in 1 .. MaxId + 1 /\ usedFiles' \subseteq Files
  BY <1>2, BoundsAssumption DEF TypeOK, CanAppend, Ids
<1>5. CASE Exit
  BY <1>3, <1>4, <1>5, ExitType DEF TypeOK
<1>6. CASE ~Exit
  <2>1. /\ fileEntries' = es
        /\ byId' = [byId EXCEPT ![e.id] = e] /\ leafId' = e.id
        /\ flushed' = IF o.end = "throw" THEN flushed ELSE FlushedAfter(es)
        /\ labelsById' = IF o.end = "throw" THEN labelsById ELSE labels
        /\ sessionFile' = sessionFile
    BY <1>2, <1>6
  <2>2. flushed' \in BOOLEAN
    BY <2>1 DEF FlushedAfter, HasAssistant, TypeOK
  <2>3. labelsById' \in [Ids -> Labels \cup {NoLabel}]
    BY <2>1 DEF TypeOK
  <2>4. byId' \in [Ids -> Entry \cup {NoEntry}] /\ leafId' \in Ids
    BY <2>1 DEF TypeOK, CanAppend
  <2> QED
    BY <1>1, <1>3, <1>4, <2>1, <2>2, <2>3, <2>4 DEF TypeOK
<1> QED
  BY <1>5, <1>6

(* The walk getBranch takes holds entries of the index. *)
LEMMA GetBranchType ==
    ASSUME NEW ix, NEW leaf, GetBranch(ix, leaf) # <<>>
    PROVE  /\ GetBranch(ix, leaf) \in Walks
           /\ IsWalk(ix, leaf, GetBranch(ix, leaf))
<1> DEFINE Fits(w) == IF w = <<>> THEN \A v \in Walks : ~IsWalk(ix, leaf, v)
                                 ELSE IsWalk(ix, leaf, w)
<1>1. <<>> \in Walks
  <2>1. <<>> \in [1 .. 0 -> Ids] /\ 0 \in 0 .. MaxId
    BY BoundsAssumption
  <2>2. <<>> \in IdSequences
    BY <2>1 DEF IdSequences
  <2>3. Increasing(<<>>)
    BY DEF Increasing
  <2> QED
    BY <2>2, <2>3 DEF Walks
<1>2. \E w \in Walks : Fits(w)
  <2>1. CASE \E v \in Walks : IsWalk(ix, leaf, v)
    BY <2>1 DEF IsWalk
  <2>2. CASE ~\E v \in Walks : IsWalk(ix, leaf, v)
    BY <1>1, <2>2
  <2> QED
    BY <2>1, <2>2
<1>3. GetBranch(ix, leaf) = CHOOSE w \in Walks : Fits(w)
  BY DEF GetBranch
<1>4. GetBranch(ix, leaf) \in Walks /\ Fits(GetBranch(ix, leaf))
  BY <1>2, <1>3
<1> QED
  BY <1>4

(* A walk is a sequence of ids. *)
LEMMA WalksType ==
    ASSUME NEW w \in Walks
    PROVE  w \in Seq(Ids) /\ Len(w) \in 0 .. MaxId
<1>1. PICK n \in 0 .. MaxId : w \in [1 .. n -> Ids]
  BY DEF Walks, IdSequences
<1> QED
  BY <1>1, BoundsAssumption

(* InOrder lists members of the set it is given, in increasing order. *)
LEMMA InOrderType ==
    ASSUME NEW S
    PROVE  /\ InOrder(S) \in Seq(Ids) /\ Len(InOrder(S)) \in 0 .. MaxId
           /\ \A k \in 1 .. Len(InOrder(S)) : InOrder(S)[k] \in S
           /\ Increasing(InOrder(S))
<1> DEFINE Spells(w) == {w[k] : k \in 1 .. Len(w)} = S
<1>1. CASE \E w \in Walks : Spells(w)
  <2>1. InOrder(S) = CHOOSE w \in Walks : Spells(w)
    BY <1>1 DEF InOrder
  <2>2. InOrder(S) \in Walks /\ Spells(InOrder(S))
    BY <1>1, <2>1
  <2>3. Increasing(InOrder(S))
    BY <2>2 DEF Walks
  <2> QED
    BY <2>2, <2>3, WalksType
<1>2. CASE ~\E w \in Walks : Spells(w)
  <2>1. InOrder(S) = <<>>
    BY <1>2 DEF InOrder
  <2>2. Increasing(<<>>)
    BY EmptySeq DEF Increasing
  <2> QED
    BY <2>1, <2>2, EmptySeq, BoundsAssumption
<1> QED
  BY <1>1, <1>2

(* The path a fork keeps, and the labels it recreates, are entries. *)
LEMMA ForkType ==
    ASSUME TypeOK, NEW leaf, NEW walk, walk = GetBranch(byId, leaf), walk # <<>>,
           NEW path, path = WithoutLabels(walk), NEW labels, labels = ForkLabels(path),
           nextId + Len(labels) <= MaxId + 1
    PROVE  /\ ForkEntries(path, labels) \in Seq(Line)
           /\ labels \in Seq(Line) /\ Len(labels) \in Nat
           /\ path \in Seq(Ids) /\ \A k \in 1 .. Len(path) : byId[path[k]] \in Entry
<1>1. walk \in Seq(Ids) /\ \A k \in 1 .. Len(walk) : byId[walk[k]] # NoEntry
  BY GetBranchType, WalksType DEF IsWalk
<1>2. /\ path \in Seq(Ids) /\ Len(path) \in Nat
      /\ \A k \in 1 .. Len(path) : path[k] \in Ids /\ byId[path[k]] \in Entry
  <2>1. /\ path \in Seq(Ids) /\ Len(path) \in Nat
        /\ \A k \in 1 .. Len(path) : path[k] \in {walk[j] : j \in 1 .. Len(walk)}
    <3> DEFINE S == {i \in {walk[k] : k \in 1 .. Len(walk)} : byId[i].type # "label"}
    <3>1. path = InOrder(S)
      BY DEF WithoutLabels
    <3>2. \A i \in S : i \in {walk[j] : j \in 1 .. Len(walk)}
      OBVIOUS
    <3> HIDE DEF S
    <3> QED
      BY <3>1, <3>2, InOrderType
  <2>2. \A j \in 1 .. Len(walk) : walk[j] \in Ids /\ byId[walk[j]] \in Entry
    BY <1>1, ElementOfSeq DEF TypeOK
  <2> QED
    BY <2>1, <2>2
<1> DEFINE kept    == {path[k] : k \in 1 .. Len(path)}
           targets == InOrder({i \in kept : labelsById[i] # NoLabel})
           last    == IF path = <<>> THEN Null ELSE path[Len(path)]
           label(k) == [id |-> nextId + k - 1,
                        parentId |-> IF k = 1 THEN last ELSE nextId + k - 2,
                        type |-> "label", ref |-> targets[k], val |-> labelsById[targets[k]]]
<1>3. /\ targets \in Seq(Ids) /\ Len(targets) \in Nat
      /\ \A k \in 1 .. Len(targets) : targets[k] \in Ids
  BY InOrderType, ElementOfSeq
<1>4. last \in Ids \cup {Null}
  BY <1>2, EmptySeq
<1> HIDE DEF targets, last
<1>5. labels = [k \in 1 .. Len(targets) |-> label(k)]
  BY DEF ForkLabels, targets, last
<1>6. Len(labels) = Len(targets)
  BY <1>3, <1>5
<1>7. \A k \in 1 .. Len(targets) : label(k) \in Line
  <2> SUFFICES ASSUME NEW k \in 1 .. Len(targets) PROVE label(k) \in Line
    OBVIOUS
  <2>1. nextId \in Nat /\ nextId >= 1 /\ nextId + k - 1 \in Ids
    BY <1>3, <1>6, BoundsAssumption DEF TypeOK, Ids
  <2>2. (IF k = 1 THEN last ELSE nextId + k - 2) \in Ids \cup {Null}
    BY <1>3, <1>4, <2>1, BoundsAssumption DEF Ids
  <2>3. targets[k] \in Ids /\ labelsById[targets[k]] \in Labels \cup {NoLabel}
    BY <1>3 DEF TypeOK
  <2>4. label(k) \in Entry
    BY <2>1, <2>2, <2>3 DEF Entry, Types
  <2> QED
    BY <2>4 DEF Line
<1>8. labels \in Seq(Line)
  BY <1>3, <1>5, <1>7
<1>9. [k \in 1 .. Len(path) |-> byId[path[k]]] \in Seq(Line)
  <2>1. \A k \in 1 .. Len(path) : byId[path[k]] \in Line
    BY <1>2 DEF Line
  <2> QED
    BY <1>2, <2>1
<1>10. <<Header>> \in Seq(Line)
  BY DEF Line
<1> QED
  BY <1>2, <1>3, <1>6, <1>8, <1>9, <1>10, ConcatProperties DEF ForkEntries

(* A fork copies every entry of the file it reads. *)
LEMMA WithoutHeadersType ==
    ASSUME NEW es \in Seq(Line)
    PROVE  WithoutHeaders(es) \in Seq(Line)
<1> DEFINE at     == EntryAt(es)
           nth(k) == {p \in at : Cardinality({q \in at : q <= p}) = k}
           line(k) == IF nth(k) = {} THEN Header ELSE es[MaxOf(nth(k))]
<1>1. at \in SUBSET (1 .. Len(es)) /\ Len(es) \in Nat
  BY EntryAtProperties, LenProperties
<1>2. Cardinality(at) \in Nat
  <2>1. IsFiniteSet(1 .. Len(es))
    BY <1>1, FS_Interval
  <2>2. IsFiniteSet(at)
    BY <1>1, <2>1, FS_Subset
  <2> QED
    BY <2>2, FS_CardinalityType
<1>3. \A k \in 1 .. Cardinality(at) : line(k) \in Line
  <2> SUFFICES ASSUME NEW k \in 1 .. Cardinality(at) PROVE line(k) \in Line
    OBVIOUS
  <2>1. nth(k) \in SUBSET (1 .. Len(es))
    BY <1>1
  <2>2. nth(k) # {} => MaxOf(nth(k)) \in 1 .. Len(es)
    BY <1>1, <2>1, MaxOfProperties
  <2> HIDE DEF nth
  <2>3. nth(k) # {} => es[MaxOf(nth(k))] \in Line
    BY <2>2, ElementOfSeq
  <2> QED
    BY <2>3 DEF Line
<1>4. WithoutHeaders(es) = [k \in 1 .. Cardinality(at) |-> line(k)]
  BY DEF WithoutHeaders
<1> HIDE DEF at, line
<1> QED
  BY <1>2, <1>3, <1>4

(* A manager over well-typed entries is well typed. *)
LEMMA BuildIndexType ==
    ASSUME NEW es \in Seq(Line), BuildIndex(es)
    PROVE  /\ fileEntries' \in Seq(Line)
           /\ byId' \in [Ids -> Entry \cup {NoEntry}]
           /\ labelsById' \in [Ids -> Labels \cup {NoLabel}]
           /\ leafId' \in Ids \cup {Null}
  BY IndexType DEF BuildIndex

(* So is a new session. *)
LEMMA ResetToType ==
    ASSUME NEW f \in Files \cup {NoFile}, ResetTo(f)
    PROVE  /\ sessionFile' \in Files \cup {NoFile} /\ flushed' \in BOOLEAN
           /\ fileEntries' \in Seq(Line) /\ byId' \in [Ids -> Entry \cup {NoEntry}]
           /\ labelsById' \in [Ids -> Labels \cup {NoLabel}] /\ leafId' \in Ids \cup {Null}
<1>1. <<Header>> \in Seq(Line)
  BY DEF Line
<1> QED
  BY <1>1 DEF ResetTo, NoIndex, NoLabels

(* Loading a file gives lines. *)
LEMMA LoadType ==
    ASSUME NEW c \in Content
    PROVE  LoadEntriesFromFile(c) \in Seq(Line)
<1>1. <<>> \in Seq(Line)
  BY EmptySeq
<1> QED
  BY <1>1, ContentLines DEF LoadEntriesFromFile

(* setSessionFile keeps the types. *)
LEMMA SetSessionFileType ==
    ASSUME TypeOK, NEW f \in Files, SetSessionFile(f)
    PROVE  TypeOK'
<1> DEFINE es == LoadEntriesFromFile(disk[f])
<1>1. es \in Seq(Line) /\ f \in Files \cup {NoFile}
  BY LoadType DEF TypeOK
<1>2. nextId' \in 1 .. MaxId + 1 /\ usedFiles' \subseteq Files
  BY DEF SetSessionFile, TypeOK
<1>3. CASE /\ BuildIndex(es) /\ sessionFile' = f /\ flushed' = TRUE
           /\ UNCHANGED <<disk, damaged>>
  <2> HIDE DEF es
  <2> QED
    BY <1>1, <1>2, <1>3, BuildIndexType DEF TypeOK
<1>4. CASE \E o \in Outcomes(Empty, <<Header>>) :
             /\ WriteFile(f, o)
             /\ \/ o.end # "ok" /\ Exit
                \/ /\ o.end = "ok"
                   /\ fileEntries' = <<Header>> /\ byId' = NoIndex
                   /\ labelsById' = NoLabels /\ leafId' = Null
                   /\ sessionFile' = f /\ flushed' = TRUE
  <2>1. PICK o \in Outcomes(Empty, <<Header>>) :
             /\ WriteFile(f, o)
             /\ \/ o.end # "ok" /\ Exit
                \/ /\ o.end = "ok"
                   /\ fileEntries' = <<Header>> /\ byId' = NoIndex
                   /\ labelsById' = NoLabels /\ leafId' = Null
                   /\ sessionFile' = f /\ flushed' = TRUE
    BY <1>4
  <2>2. Empty \in Content /\ <<Header>> \in Seq(Line)
    BY EmptySeq DEF Empty, Content, Tails, Line
  <2>3. disk' \in [Files -> Content] /\ damaged' \subseteq Files
    BY <1>1, <2>1, <2>2, WriteFileType
  <2>4. CASE Exit
    BY <1>2, <2>3, <2>4, ExitType DEF TypeOK
  <2>5. CASE ~Exit
    BY <1>2, <2>1, <2>2, <2>3, <2>5 DEF TypeOK, NoIndex, NoLabels
  <2> QED
    BY <2>4, <2>5
<1>5. CASE ResetTo(f) /\ UNCHANGED <<disk, damaged>>
  BY <1>1, <1>2, <1>5, ResetToType DEF TypeOK
<1> QED
  BY <1>3, <1>4, <1>5 DEF SetSessionFile

(* createBranchedSession keeps the types. *)
LEMMA CreateBranchedSessionType ==
    ASSUME TypeOK, NEW leaf, NEW f \in Files \cup {NoFile}, CreateBranchedSession(leaf, f)
    PROVE  TypeOK'
<1>1. PICK walk \in {GetBranch(byId, leaf)} : \E path \in {WithoutLabels(walk)} :
       \E labels \in {ForkLabels(path)} : \E es \in {ForkEntries(path, labels)} :
       /\ walk # <<>>
       /\ nextId + Len(labels) <= MaxId + 1
       /\ \E o \in IF Persisting /\ HasAssistant(es)
                     THEN Outcomes(Empty, es) ELSE Outcomes(FileContent(f), <<>>) :
             /\ WriteFile(f, o)
             /\ \/ o.end = "kill" /\ Exit
                \/ /\ o.end # "kill" /\ BuildIndex(es) /\ sessionFile' = f
                   /\ flushed' = IF o.end = "throw" THEN flushed ELSE FlushedAfter(es)
       /\ nextId' = nextId + Len(labels)
       /\ usedFiles' = IF Persisting THEN usedFiles \cup {f} ELSE usedFiles
  BY DEF CreateBranchedSession
<1> DEFINE path   == WithoutLabels(walk)
           labels == ForkLabels(path)
           es     == ForkEntries(path, labels)
<1>2. PICK o \in IF Persisting /\ HasAssistant(es)
                   THEN Outcomes(Empty, es) ELSE Outcomes(FileContent(f), <<>>) :
        /\ WriteFile(f, o)
        /\ \/ o.end = "kill" /\ Exit
           \/ /\ o.end # "kill" /\ BuildIndex(es) /\ sessionFile' = f
              /\ flushed' = IF o.end = "throw" THEN flushed ELSE FlushedAfter(es)
  BY <1>1
<1>3. es \in Seq(Line) /\ Len(labels) \in Nat
  BY <1>1, ForkType
<1>4. nextId' \in 1 .. MaxId + 1
  BY <1>1, <1>3, BoundsAssumption DEF TypeOK
<1>5. usedFiles' \subseteq Files /\ (Persisting => f \in Files)
  BY <1>1 DEF CreateBranchedSession, TypeOK, Fresh
<1> HIDE DEF es
<1>6. disk' \in [Files -> Content] /\ damaged' \subseteq Files
  <2>1. Empty \in Content /\ <<>> \in Seq(Line)
    BY EmptySeq DEF Empty, Content, Tails
  <2>2. CASE Persisting /\ HasAssistant(es)
    BY <1>2, <1>3, <1>5, <2>1, <2>2, WriteFileType
  <2>3. CASE ~(Persisting /\ HasAssistant(es))
    BY <1>2, <2>1, <2>3, ContentType, WriteFileType
  <2> QED
    BY <2>2, <2>3
<1>7. CASE Exit
  BY <1>4, <1>5, <1>6, <1>7, ExitType DEF TypeOK
<1>8. CASE ~Exit
  <2>1. flushed' \in BOOLEAN
    BY <1>2, <1>8 DEF FlushedAfter, HasAssistant, TypeOK
  <2>2. BuildIndex(es) /\ sessionFile' = f
    BY <1>2, <1>8
  <2> QED
    BY <1>3, <1>4, <1>5, <1>6, <2>1, <2>2, BuildIndexType DEF TypeOK
<1> QED
  BY <1>7, <1>8

(* What forkFrom writes are lines. *)
LEMMA CopyType ==
    ASSUME TypeOK, NEW src \in Files
    PROVE  <<Header>> \o WithoutHeaders(LoadEntriesFromFile(disk[src])) \in Seq(Line)
<1>1. WithoutHeaders(LoadEntriesFromFile(disk[src])) \in Seq(Line)
  BY LoadType, WithoutHeadersType DEF TypeOK
<1>2. <<Header>> \in Seq(Line)
  BY DEF Line
<1> QED
  BY <1>1, <1>2, ConcatProperties

(* forkFrom keeps the types. *)
LEMMA ForkFromType ==
    ASSUME TypeOK, NEW src \in Files, NEW f \in Files, ForkFrom(src, f)
    PROVE  TypeOK'
<1> DEFINE es     == LoadEntriesFromFile(disk[src])
           copied == <<Header>> \o WithoutHeaders(es)
<1>1. copied \in Seq(Line)
  BY CopyType
<1>2. PICK o \in Outcomes(Absent, copied) :
        /\ WriteFile(f, o)
        /\ \/ o.end # "ok" /\ Exit
           \/ /\ o.end = "ok" /\ BuildIndex(copied)
              /\ sessionFile' = f /\ flushed' = TRUE
  BY DEF ForkFrom
<1> HIDE DEF copied
<1>3. nextId' \in 1 .. MaxId + 1 /\ usedFiles' \subseteq Files
  BY DEF ForkFrom, TypeOK
<1>4. disk' \in [Files -> Content] /\ damaged' \subseteq Files
  <2>1. Absent \in Content
    BY EmptySeq DEF Absent, Content, Tails
  <2> QED
    BY <1>1, <1>2, <2>1, WriteFileType
<1>5. CASE Exit
  BY <1>3, <1>4, <1>5, ExitType DEF TypeOK
<1>6. CASE ~Exit
  <2>1. BuildIndex(copied) /\ sessionFile' = f /\ flushed' = TRUE
    BY <1>2, <1>6
  <2> QED
    BY <1>1, <1>3, <1>4, <2>1, BuildIndexType DEF TypeOK
<1> QED
  BY <1>5, <1>6

(* The six operations that append have one effect, with a different entry: *)
(* it hangs from the leaf or from an entry named by the caller, and a label *)
(* entry says what it does to the labels.                                  *)
LabelsAfter(e) == IF e.type = "label" THEN [labelsById EXCEPT ![e.ref] = e.val] ELSE labelsById

AppendStep ==
    \E e \in Entry, labels \in [Ids -> Labels \cup {NoLabel}] :
        /\ CanAppend /\ e.id = nextId /\ AppendEntry(e, labels)
        /\ labels = LabelsAfter(e) /\ (e.type = "label" => e.ref \in Ids)
        /\ e.parentId \in {Null, leafId} \/ Known(e.parentId)

LEMMA AppendsAreAppendSteps ==
    ASSUME TypeOK
    PROVE  /\ \A role \in Roles : AppendMessage(role) => AppendStep
           /\ \A type \in SettingTypes : AppendSettingsChange(type) => AppendStep
           /\ \A type \in ExtensionTypes : AppendExtensionEntry(type) => AppendStep
           /\ \A i \in Ids : AppendCompaction(i) => AppendStep
           /\ \A i \in Ids, label \in Labels \cup {NoLabel} :
                AppendLabelChange(i, label) => AppendStep
           /\ \A i \in Ids \cup {Null} : BranchWithSummary(i) => AppendStep
<1>1. /\ leafId \in Ids \cup {Null} /\ Null \in Ids \cup {Null}
      /\ labelsById \in [Ids -> Labels \cup {NoLabel}]
      /\ "none" \in Roles \cup Labels \cup {NoLabel}
  BY DEF TypeOK, NoLabel
<1>2. /\ SettingTypes \subseteq Types \ {"label"} /\ ExtensionTypes \subseteq Types \ {"label"}
      /\ {"message", "compaction", "branch_summary", "label"} \subseteq Types
  BY DEF Types, SettingTypes, ExtensionTypes
<1>3. ASSUME NEW type \in Types \ {"label"}, NEW parent \in Ids \cup {Null},
             NEW ref \in Ids \cup {Null}, NEW val \in Roles \cup Labels \cup {NoLabel},
             CanAppend, AppendEntry(NewEntry(type, parent, ref, val), labelsById),
             parent \in {Null, leafId} \/ Known(parent)
      PROVE  AppendStep
  <2> DEFINE e == NewEntry(type, parent, ref, val)
  <2>1. e \in Entry /\ e.id = nextId /\ e.type # "label" /\ e.parentId = parent
    BY <1>3, NewEntryType DEF NewEntry
  <2> HIDE DEF e
  <2>2. labelsById = LabelsAfter(e)
    BY <2>1 DEF LabelsAfter
  <2> QED
    BY <1>1, <1>3, <2>1, <2>2 DEF AppendStep, e
<1>4. ASSUME NEW role \in Roles, AppendMessage(role)
      PROVE  AppendStep
  BY <1>1, <1>2, <1>3, <1>4 DEF AppendMessage
<1>5. ASSUME NEW type \in SettingTypes \cup ExtensionTypes,
             AppendSettingsChange(type) \/ AppendExtensionEntry(type)
      PROVE  AppendStep
  BY <1>1, <1>2, <1>3, <1>5 DEF AppendSettingsChange, AppendExtensionEntry
<1>6. ASSUME NEW i \in Ids, AppendCompaction(i)
      PROVE  AppendStep
  BY <1>1, <1>2, <1>3, <1>6 DEF AppendCompaction
<1>7. ASSUME NEW i \in Ids, NEW label \in Labels \cup {NoLabel}, AppendLabelChange(i, label)
      PROVE  AppendStep
  <2> DEFINE e      == NewEntry("label", leafId, i, label)
             labels == [labelsById EXCEPT ![i] = label]
  <2>1. labels \in [Ids -> Labels \cup {NoLabel}]
    BY <1>1
  <2>2. CanAppend /\ AppendEntry(e, labels)
    BY <1>7 DEF AppendLabelChange
  <2>3. e \in Entry /\ e.id = nextId
    BY <1>1, <1>2, <2>2, NewEntryType
  <2>4. e.parentId = leafId /\ e.type = "label" /\ e.ref = i /\ e.val = label
    BY DEF NewEntry
  <2> HIDE DEF e
  <2>5. labels = LabelsAfter(e)
    BY <2>4 DEF LabelsAfter
  <2> HIDE DEF labels
  <2> QED
    BY <2>1, <2>2, <2>3, <2>4, <2>5 DEF AppendStep
<1>8. ASSUME NEW i \in Ids \cup {Null}, BranchWithSummary(i)
      PROVE  AppendStep
  BY <1>1, <1>2, <1>3, <1>8 DEF BranchWithSummary
<1> QED
  BY <1>4, <1>5, <1>6, <1>7, <1>8

(* The cases of a step, the appends taken together. *)
LEMMA StepCases ==
    ASSUME TypeOK, [Next]_vars
    PROVE  \/ AppendStep
           \/ \E i \in Ids : Branch(i)
           \/ ResetLeaf
           \/ \E f \in Files : NewSession(f)
           \/ InMemory
           \/ \E f \in Files : SetSessionFile(f)
           \/ \E i \in Ids, f \in Files \cup {NoFile} : CreateBranchedSession(i, f)
           \/ \E src, f \in Files : ForkFrom(src, f)
           \/ Quit
           \/ UNCHANGED vars
  BY AppendsAreAppendSteps DEF Next

(* The types of all variables hold in every state: in particular the store *)
(* never runs past the ids handed out, and every entry, in memory or in a  *)
(* file, has an id, a parent and a target that are ids or null.            *)
THEOREM TypeCorrect == Spec => []TypeOK
<1>1. Init => TypeOK
  <2> SUFFICES ASSUME Init PROVE TypeOK
    OBVIOUS
  <2>1. <<>> \in Seq(Line) /\ Empty \in Content /\ Absent \in Content
    BY EmptySeq DEF Empty, Absent, Content, Tails
  <2>2. 1 \in 1 .. MaxId + 1 /\ Precreated \subseteq Files
    BY BoundsAssumption, InputAssumption DEF Files
  <2> QED
    BY <2>1, <2>2 DEF Init, TypeOK, NoIndex, NoLabels
<1>2. TypeOK /\ [Next]_vars => TypeOK'
  <2> SUFFICES ASSUME TypeOK, [Next]_vars PROVE TypeOK'
    OBVIOUS
  <2>1. CASE AppendStep
    BY <2>1, AppendEntryType DEF AppendStep
  <2>2. ASSUME NEW i \in Ids, Branch(i) PROVE TypeOK'
    BY <2>2 DEF Branch, TypeOK
  <2>3. CASE ResetLeaf
    BY <2>3 DEF ResetLeaf, TypeOK
  <2>4. ASSUME NEW f \in Files, NewSession(f) PROVE TypeOK'
    <3>1. f \in Files \cup {NoFile} /\ ResetTo(f)
      BY <2>4 DEF NewSession
    <3> QED
      BY <2>4, <3>1, ResetToType DEF NewSession, TypeOK
  <2>5. CASE InMemory
    <3>1. NoFile \in Files \cup {NoFile} /\ ResetTo(NoFile)
      BY <2>5 DEF InMemory
    <3> QED
      BY <2>5, <3>1, ResetToType DEF InMemory, TypeOK
  <2>6. ASSUME NEW f \in Files, SetSessionFile(f) PROVE TypeOK'
    BY <2>6, SetSessionFileType
  <2>7. ASSUME NEW i \in Ids, NEW f \in Files \cup {NoFile}, CreateBranchedSession(i, f)
        PROVE  TypeOK'
    BY <2>7, CreateBranchedSessionType
  <2>8. ASSUME NEW src \in Files, NEW f \in Files, ForkFrom(src, f) PROVE TypeOK'
    BY <2>8, ForkFromType
  <2>9. CASE Quit
    BY <2>9, ExitType DEF Quit, TypeOK
  <2>10. CASE UNCHANGED vars
    BY <2>10 DEF vars, TypeOK
  <2> QED
    BY <2>1, <2>2, <2>3, <2>4, <2>5, <2>6, <2>7, <2>8, <2>9, <2>10, StepCases
<1> QED
  BY <1>1, <1>2, PTL DEF Spec

-----------------------------------------------------------------------------
(* The index kept by appends is the one a rebuild would give.              *)

(* Indexing one entry more changes the index at its id only. *)
LEMMA IndexOfAppend ==
    ASSUME NEW es \in Seq(Line), NEW e \in Entry
    PROVE  IndexOf(Append(es, e)) = [IndexOf(es) EXCEPT ![e.id] = e]
<1> DEFINE more     == Append(es, e)
           n        == Len(es)
           at(i)    == {k \in EntryAt(es) : es[k].id = i}
           atNew(i) == {k \in EntryAt(more) : more[k].id = i}
<1>1. e \in Line /\ e.id \in Ids /\ e.type # "session"
  BY DEF Line, Entry, Types, SettingTypes, ExtensionTypes
<1>2. /\ more \in Seq(Line) /\ n \in Nat /\ Len(more) = n + 1
      /\ \A k \in 1 .. n : more[k] = es[k]
      /\ more[n + 1] = e
  BY <1>1, AppendProperties, LenProperties
<1> HIDE DEF more
<1>3. EntryAt(more) = EntryAt(es) \cup {n + 1}
  BY <1>1, <1>2 DEF EntryAt
<1>4. EntryAt(es) \in SUBSET (1 .. n)
  BY EntryAtProperties
<1>5. IndexOf(more)[e.id] = e
  <2>1. n + 1 \in atNew(e.id) /\ atNew(e.id) \in SUBSET (1 .. n + 1)
    BY <1>2, <1>3, <1>4
  <2> HIDE DEF atNew
  <2>2. n + 1 \in Nat /\ atNew(e.id) # {}
    BY <1>2, <2>1
  <2>3. MaxOf(atNew(e.id)) \in atNew(e.id) /\ \A k \in atNew(e.id) : k <= MaxOf(atNew(e.id))
    BY <2>1, <2>2, MaxOfProperties
  <2>4. MaxOf(atNew(e.id)) = n + 1
    BY <1>2, <2>1, <2>3
  <2>5. IndexOf(more)[e.id] = more[MaxOf(atNew(e.id))]
    BY <1>1, <2>2 DEF IndexOf, atNew
  <2> QED
    BY <1>2, <2>4, <2>5
<1>6. ASSUME NEW i \in Ids, i # e.id
      PROVE  IndexOf(more)[i] = IndexOf(es)[i]
  <2>1. atNew(i) = at(i)
    BY <1>2, <1>3, <1>4, <1>6
  <2>2. at(i) # {} => MaxOf(at(i)) \in at(i)
    BY <1>2, <1>4, MaxOfProperties
  <2>3. at(i) # {} => more[MaxOf(at(i))] = es[MaxOf(at(i))]
    BY <1>2, <1>4, <2>2
  <2>4. /\ IndexOf(more)[i] = IF atNew(i) = {} THEN NoEntry ELSE more[MaxOf(atNew(i))]
        /\ IndexOf(es)[i] = IF at(i) = {} THEN NoEntry ELSE es[MaxOf(at(i))]
    BY DEF IndexOf
  <2> HIDE DEF at, atNew
  <2> QED
    BY <2>1, <2>3, <2>4
<1>7. IndexOf(more) \in [Ids -> Entry \cup {NoEntry}] /\ IndexOf(es) \in [Ids -> Entry \cup {NoEntry}]
  BY <1>2, IndexType
<1> QED
  BY <1>1, <1>5, <1>6, <1>7 DEF more

(* A new session has an empty index. *)
LEMMA IndexOfHeader == IndexOf(<<Header>>) = NoIndex
<1>1. EntryAt(<<Header>>) = {}
  BY DEF EntryAt, Header
<1> QED
  BY <1>1 DEF IndexOf, NoIndex

(* The last entry of a session is in its index. *)
LEMMA LastIdIndexed ==
    ASSUME NEW es \in Seq(Line), LastId(es) # Null
    PROVE  IndexOf(es)[LastId(es)] # NoEntry
<1>1. EntryAt(es) # {} /\ LastId(es) = es[MaxOf(EntryAt(es))].id
  BY DEF LastId
<1>2. Len(es) \in Nat /\ EntryAt(es) \in SUBSET (1 .. Len(es))
  BY LenProperties, EntryAtProperties
<1>3. MaxOf(EntryAt(es)) \in EntryAt(es)
  BY <1>1, <1>2, MaxOfProperties
<1> DEFINE i  == LastId(es)
           at == {k \in EntryAt(es) : es[k].id = i}
<1>4. at # {} /\ at \in SUBSET (1 .. Len(es))
  BY <1>1, <1>2, <1>3
<1>5. MaxOf(at) \in at
  BY <1>2, <1>4, MaxOfProperties
<1>6. es[MaxOf(at)] \in Entry
  BY <1>5, EntryAtProperties
<1>7. i \in Ids
  BY <1>1, IndexType
<1>8. IndexOf(es)[i] = es[MaxOf(at)]
  BY <1>4, <1>7 DEF IndexOf
<1> QED
  BY <1>6, <1>8, NotEntries

(* What an append comes to, whatever its write comes to: the process is    *)
(* gone, or the entry is in and is the new leaf.                           *)
LEMMA AppendEntryEffect ==
    ASSUME NEW e, NEW labels, AppendEntry(e, labels)
    PROVE  \/ Exit
           \/ /\ fileEntries' = Append(fileEntries, e)
              /\ byId' = [byId EXCEPT ![e.id] = e]
              /\ leafId' = e.id /\ sessionFile' = sessionFile
  BY DEF AppendEntry

(* A rebuilt manager is in sync. *)
LEMMA BuildIndexInSync ==
    ASSUME NEW es \in Seq(Line), BuildIndex(es)
    PROVE  IndexInSync'
<1>1. byId' = IndexOf(fileEntries')
  BY DEF BuildIndex
<1>2. leafId' # Null => byId'[leafId'] # NoEntry
  BY LastIdIndexed DEF BuildIndex
<1> QED
  BY <1>1, <1>2 DEF IndexInSync, Alive

(* So is a new one, and one that is gone. *)
LEMMA NewInSync ==
    ASSUME Exit \/ (fileEntries' = <<Header>> /\ byId' = NoIndex /\ leafId' = Null)
    PROVE  IndexInSync'
  BY IndexOfHeader DEF Exit, IndexInSync, Alive

(* An append keeps a manager in sync. *)
LEMMA AppendInSync ==
    ASSUME TypeOK, IndexInSync, CanAppend, NEW e \in Entry, NEW labels, AppendEntry(e, labels)
    PROVE  IndexInSync'
<1>1. CASE Exit
  BY <1>1, NewInSync
<1>2. CASE ~Exit
  <2>1. /\ fileEntries' = Append(fileEntries, e)
        /\ byId' = [byId EXCEPT ![e.id] = e] /\ leafId' = e.id
    BY <1>2, AppendEntryEffect
  <2>2. byId' = IndexOf(fileEntries')
    BY <2>1, IndexOfAppend DEF TypeOK, IndexInSync, CanAppend
  <2>3. byId'[leafId'] # NoEntry
    BY <2>1, NotEntries DEF TypeOK, Entry
  <2> QED
    BY <2>2, <2>3 DEF IndexInSync
<1> QED
  BY <1>1, <1>2

(* Every step keeps a manager in sync. *)
LEMMA StepInSync ==
    ASSUME TypeOK, IndexInSync, [Next]_vars
    PROVE  IndexInSync'
<1>1. CASE AppendStep
  BY <1>1, AppendInSync DEF AppendStep
<1>2. ASSUME NEW i \in Ids, Branch(i) PROVE IndexInSync'
  BY <1>2 DEF Branch, Known, IndexInSync, Alive
<1>3. CASE ResetLeaf
  BY <1>3 DEF ResetLeaf, IndexInSync, Alive
<1>4. ASSUME NEW f \in Files, NewSession(f) PROVE IndexInSync'
  BY <1>4, NewInSync DEF NewSession, ResetTo
<1>5. CASE InMemory
  BY <1>5, NewInSync DEF InMemory, ResetTo
<1>6. ASSUME NEW f \in Files, SetSessionFile(f) PROVE IndexInSync'
  <2>1. LoadEntriesFromFile(disk[f]) \in Seq(Line)
    BY LoadType DEF TypeOK
  <2>2. \/ BuildIndex(LoadEntriesFromFile(disk[f]))
        \/ Exit
        \/ fileEntries' = <<Header>> /\ byId' = NoIndex /\ leafId' = Null
    BY <1>6 DEF SetSessionFile, ResetTo
  <2> QED
    BY <2>1, <2>2, BuildIndexInSync, NewInSync
<1>7. ASSUME NEW i \in Ids, NEW f \in Files \cup {NoFile}, CreateBranchedSession(i, f)
      PROVE  IndexInSync'
  <2>1. Exit \/ \E es \in Seq(Line) : BuildIndex(es)
    BY <1>7, ForkType DEF CreateBranchedSession
  <2> QED
    BY <2>1, BuildIndexInSync, NewInSync
<1>8. ASSUME NEW src \in Files, NEW f \in Files, ForkFrom(src, f) PROVE IndexInSync'
  <2>1. <<Header>> \o WithoutHeaders(LoadEntriesFromFile(disk[src])) \in Seq(Line)
    BY CopyType
  <2>2. Exit \/ BuildIndex(<<Header>> \o WithoutHeaders(LoadEntriesFromFile(disk[src])))
    BY <1>8 DEF ForkFrom
  <2> QED
    BY <2>1, <2>2, BuildIndexInSync, NewInSync
<1>9. CASE Quit
  BY <1>9, NewInSync DEF Quit
<1>10. CASE UNCHANGED vars
  BY <1>10 DEF vars, IndexInSync, Alive
<1> QED
  BY <1>1, <1>2, <1>3, <1>4, <1>5, <1>6, <1>7, <1>8, <1>9, <1>10, StepCases

(* Whatever the order of appends, moves in the tree, forks, reloads and    *)
(* failed writes, the index the appends maintain is the one _buildIndex    *)
(* would rebuild from the entries, and the leaf the next entry will hang   *)
(* from is an entry of the tree.                                           *)
THEOREM IndexStaysInSync == Spec => []IndexInSync
<1>1. Init => IndexInSync
  BY DEF Init, IndexInSync, Alive
<1>2. TypeOK /\ IndexInSync /\ [Next]_vars => IndexInSync'
  BY StepInSync
<1> QED
  BY <1>1, <1>2, TypeCorrect, PTL DEF Spec

-----------------------------------------------------------------------------
(* Files only grow, and the entries of a session with them.                *)

(* A file nobody has taken the name of does not exist, and the name of the *)
(* manager's file is taken: so no operation starts a session over one.     *)
FilesOwned ==
    /\ sessionFile \in usedFiles \cup {NoFile}
    /\ \A f \in Files \ usedFiles : disk[f] = Absent

(* Every file but f, and f when it was read as a session, keeps its lines. *)
GrowsBut(f) ==
    \A g \in Files : \/ IsPrefix(Keep(disk[g]), disk'[g].lines)
                     \/ g = f /\ LoadEntriesFromFile(disk[g]) = <<>>

(* No file loses a line when nothing is written. *)
LEMMA UnwrittenGrow ==
    ASSUME TypeOK, disk' = disk, NEW f
    PROVE  GrowsBut(f)
<1>1. \A g \in Files : IsPrefix(Keep(disk[g]), disk[g].lines)
  BY KeepProperties DEF TypeOK
<1> QED
  BY <1>1 DEF GrowsBut

(* Writing after a file's content, or to one that holds no session, loses  *)
(* no line of another file and none of a session.                          *)
LEMMA WrittenGrow ==
    ASSUME TypeOK, NEW f, NEW c \in Content, NEW ls \in Seq(Line), NEW o \in Outcomes(c, ls),
           WriteFile(f, o),
           f \in Files => c = disk[f] \/ LoadEntriesFromFile(disk[f]) = <<>>
    PROVE  GrowsBut(f)
<1>1. IsPrefix(Keep(c), o.content.lines)
  BY OutcomesProperties
<1>2. \A g \in Files : IsPrefix(Keep(disk[g]), disk[g].lines)
  BY KeepProperties DEF TypeOK
<1>3. disk' = IF f \in Files THEN [disk EXCEPT ![f] = o.content] ELSE disk
  BY DEF WriteFile
<1>4. \A g \in Files : disk'[g] = IF g = f THEN o.content ELSE disk[g]
  BY <1>3 DEF TypeOK
<1> QED
  BY <1>1, <1>2, <1>4 DEF GrowsBut

(* Nothing of a file that does not exist reads as a session. *)
LEMMA LoadAbsent == LoadEntriesFromFile(Absent) = <<>>
  BY DEF LoadEntriesFromFile, Absent

(* Every step leaves the readable lines of the files where they are. *)
LEMMA StepGrows ==
    ASSUME TypeOK, FilesOwned, [Next]_vars
    PROVE  \A f \in Files : \/ IsPrefix(Keep(disk[f]), disk'[f].lines)
                            \/ LoadEntriesFromFile(disk[f]) = <<>>
<1> SUFFICES \E f : GrowsBut(f)
  BY DEF GrowsBut
<1>1. CASE disk' = disk
  BY <1>1, UnwrittenGrow
<1>2. CASE AppendStep
  <2>1. PICK e \in Entry, labels \in [Ids -> Labels \cup {NoLabel}] : CanAppend /\ AppendEntry(e, labels)
    BY <1>2 DEF AppendStep
  <2> DEFINE ls == PersistLines(Append(fileEntries, e), e)
  <2>2. PICK o \in Outcomes(FileContent(sessionFile), ls) : WriteFile(sessionFile, o)
    BY <2>1 DEF AppendEntry
  <2>3. e \in Line /\ fileEntries \in Seq(Line)
    BY DEF Line, TypeOK
  <2>4. Append(fileEntries, e) \in Seq(Line)
    BY <2>3, AppendProperties
  <2>5. ls \in Seq(Line)
    BY <2>4, PersistLinesType
  <2> HIDE DEF ls
  <2>6. sessionFile \in Files => FileContent(sessionFile) = disk[sessionFile]
    BY DEF FileContent
  <2> QED
    BY <2>2, <2>5, <2>6, ContentType, WrittenGrow
<1>3. ASSUME NEW f \in Files, SetSessionFile(f), disk' # disk
      PROVE  GrowsBut(f)
  <2>1. LoadEntriesFromFile(disk[f]) = <<>>
    BY <1>3 DEF SetSessionFile
  <2>2. PICK o \in Outcomes(Empty, <<Header>>) : WriteFile(f, o)
    BY <1>3 DEF SetSessionFile
  <2>3. Empty \in Content /\ <<Header>> \in Seq(Line)
    BY EmptySeq DEF Empty, Content, Tails, Line
  <2> QED
    BY <2>1, <2>2, <2>3, WrittenGrow
<1>4. ASSUME NEW i \in Ids, NEW f \in Files \cup {NoFile}, CreateBranchedSession(i, f)
      PROVE  GrowsBut(f)
  <2>1. PICK es \in Seq(Line) :
          \E o \in IF Persisting /\ HasAssistant(es)
                   THEN Outcomes(Empty, es) ELSE Outcomes(FileContent(f), <<>>) :
            WriteFile(f, o)
    BY <1>4, ForkType DEF CreateBranchedSession
  <2>2. Empty \in Content /\ <<>> \in Seq(Line)
    BY EmptySeq DEF Empty, Content, Tails
  <2>3. f \in Files => FileContent(f) = disk[f]
    BY DEF FileContent
  <2>4. Persisting => LoadEntriesFromFile(disk[f]) = <<>>
    BY <1>4, LoadAbsent DEF CreateBranchedSession, Fresh, FilesOwned
  <2>5. CASE Persisting /\ HasAssistant(es)
    BY <2>1, <2>2, <2>4, <2>5, WrittenGrow
  <2>6. CASE ~(Persisting /\ HasAssistant(es))
    BY <2>1, <2>2, <2>3, <2>6, ContentType, WrittenGrow
  <2> QED
    BY <2>5, <2>6
<1>5. ASSUME NEW src \in Files, NEW f \in Files, ForkFrom(src, f)
      PROVE  GrowsBut(f)
  <2> DEFINE copied == <<Header>> \o WithoutHeaders(LoadEntriesFromFile(disk[src]))
  <2>1. copied \in Seq(Line)
    BY CopyType
  <2>2. PICK o \in Outcomes(Absent, copied) : WriteFile(f, o)
    BY <1>5 DEF ForkFrom
  <2> HIDE DEF copied
  <2>3. disk[f] = Absent
    BY <1>5 DEF ForkFrom, Fresh, FilesOwned
  <2>4. Absent \in Content
    BY EmptySeq DEF Absent, Content, Tails
  <2> QED
    BY <2>1, <2>2, <2>3, <2>4, WrittenGrow
<1>6. ASSUME (\E i \in Ids : Branch(i)) \/ ResetLeaf \/ (\E f \in Files : NewSession(f))
             \/ InMemory \/ Quit \/ UNCHANGED vars
      PROVE  disk' = disk
  BY <1>6 DEF Branch, ResetLeaf, NewSession, InMemory, Quit, vars
<1> QED
  BY <1>1, <1>2, <1>3, <1>4, <1>5, <1>6, StepCases

(* A step that writes to one file at most, whose name is taken then, and   *)
(* leaves the manager on that file, on its old one or on none, keeps       *)
(* FilesOwned.                                                             *)
LEMMA OwnedStep ==
    ASSUME TypeOK, FilesOwned, NEW f \in usedFiles' \cup {NoFile},
           usedFiles \subseteq usedFiles',
           disk' = disk \/ \E c : disk' = IF f \in Files THEN [disk EXCEPT ![f] = c] ELSE disk,
           sessionFile' \in {f, sessionFile, NoFile}
    PROVE  FilesOwned'
<1>1. sessionFile' \in usedFiles' \cup {NoFile}
  BY DEF FilesOwned
<1>2. ASSUME NEW g \in Files \ usedFiles'
      PROVE  disk'[g] = Absent
  <2>1. g # f /\ disk[g] = Absent
    BY <1>2 DEF FilesOwned, Files, NoFile
  <2> QED
    BY <2>1 DEF TypeOK
<1> QED
  BY <1>1, <1>2 DEF FilesOwned

(* Every step keeps FilesOwned. *)
LEMMA StepOwned ==
    ASSUME TypeOK, FilesOwned, [Next]_vars
    PROVE  FilesOwned'
<1>1. CASE AppendStep
  <2>1. PICK e \in Entry, labels \in [Ids -> Labels \cup {NoLabel}] : AppendEntry(e, labels)
    BY <1>1 DEF AppendStep
  <2>2. \E o : WriteFile(sessionFile, o) /\ usedFiles' = usedFiles
    BY <2>1 DEF AppendEntry
  <2>3. sessionFile' \in {sessionFile, NoFile}
    BY <2>1, AppendEntryEffect DEF Exit
  <2> QED
    BY <2>2, <2>3, OwnedStep DEF WriteFile, FilesOwned
<1>2. CASE (\E i \in Ids : Branch(i)) \/ ResetLeaf \/ UNCHANGED vars
  BY <1>2 DEF Branch, ResetLeaf, vars, FilesOwned
<1>3. CASE InMemory \/ Quit
  BY <1>3 DEF InMemory, ResetTo, Quit, Exit, FilesOwned
<1>4. ASSUME NEW f \in Files, NewSession(f) PROVE FilesOwned'
  BY <1>4, OwnedStep DEF NewSession, ResetTo
<1>5. ASSUME NEW f \in Files, SetSessionFile(f) PROVE FilesOwned'
  <2>1. usedFiles' = usedFiles \cup {f}
    BY <1>5 DEF SetSessionFile
  <2>2. disk' = disk \/ \E o : WriteFile(f, o)
    BY <1>5 DEF SetSessionFile
  <2>3. sessionFile' \in {f, NoFile}
    BY <1>5 DEF SetSessionFile, ResetTo, Exit
  <2> QED
    BY <2>1, <2>2, <2>3, OwnedStep DEF WriteFile
<1>6. ASSUME NEW i \in Ids, NEW f \in Files \cup {NoFile}, CreateBranchedSession(i, f)
      PROVE  FilesOwned'
  <2>1. \/ Persisting /\ usedFiles' = usedFiles \cup {f}
        \/ f = NoFile /\ usedFiles' = usedFiles
    BY <1>6 DEF CreateBranchedSession
  <2>2. \E o : WriteFile(f, o)
    BY <1>6 DEF CreateBranchedSession
  <2>3. sessionFile' \in {f, NoFile}
    BY <1>6 DEF CreateBranchedSession, Exit
  <2> QED
    BY <2>1, <2>2, <2>3, OwnedStep DEF WriteFile
<1>7. ASSUME NEW src \in Files, NEW f \in Files, ForkFrom(src, f) PROVE FilesOwned'
  <2>1. usedFiles' = usedFiles \cup {f}
    BY <1>7 DEF ForkFrom
  <2>2. \E o : WriteFile(f, o)
    BY <1>7 DEF ForkFrom
  <2>3. sessionFile' \in {f, NoFile}
    BY <1>7 DEF ForkFrom, Exit
  <2> QED
    BY <2>1, <2>2, <2>3, OwnedStep DEF WriteFile
<1> QED
  BY <1>1, <1>2, <1>3, <1>4, <1>5, <1>6, <1>7, StepCases

(* FilesOwned holds in every state. *)
LEMMA FilesStayOwned == Spec => []FilesOwned
<1>1. Init => FilesOwned
  BY DEF Init, FilesOwned
<1>2. TypeOK /\ FilesOwned /\ [Next]_vars => FilesOwned'
  BY StepOwned
<1> QED
  BY <1>1, <1>2, TypeCorrect, PTL DEF Spec

(* Whatever is written, killed or torn, every readable line of every       *)
(* session file stays where it is: the history on disk only grows.         *)
THEOREM FilesGrow == Spec => FilesOnlyGrow
<1>1. TypeOK /\ FilesOwned /\ [Next]_vars =>
        [\A f \in Files : \/ IsPrefix(Keep(disk[f]), disk'[f].lines)
                          \/ LoadEntriesFromFile(disk[f]) = <<>>]_vars
  BY StepGrows
<1> QED
  BY <1>1, TypeCorrect, FilesStayOwned, PTL DEF Spec, FilesOnlyGrow

(* A step keeps the entries of a session that stays open, or opens its     *)
(* file again.                                                             *)
LEMMA StepKeepsHistory ==
    ASSUME TypeOK, FilesOwned, [Next]_vars, Alive, Persisting, sessionFile' = sessionFile
    PROVE  \/ IsPrefix(fileEntries, fileEntries')
           \/ \E es \in {LoadEntriesFromFile(disk[sessionFile])} :
                 fileEntries' = IF es = <<>> THEN <<Header>> ELSE es
<1>1. fileEntries \in Seq(Line) /\ IsPrefix(fileEntries, fileEntries) /\ ~Exit
  <2>1. fileEntries \in Seq(Line) /\ Len(fileEntries) \in Nat
    BY LenProperties DEF TypeOK
  <2> QED
    BY <2>1, SubSeqFull DEF IsPrefix, Exit, Persisting
<1>2. CASE AppendStep
  <2>1. PICK e \in Entry : fileEntries' = Append(fileEntries, e)
    BY <1>1, <1>2, AppendEntryEffect DEF AppendStep
  <2>2. e \in Line /\ <<e>> \in Seq(Line)
    BY DEF Line
  <2> QED
    BY <1>1, <2>1, <2>2, AppendIsConcat, PrefixOfConcat
<1>3. CASE (\E i \in Ids : Branch(i)) \/ ResetLeaf \/ UNCHANGED vars
  BY <1>1, <1>3 DEF Branch, ResetLeaf, vars
<1>4. ASSUME NEW f \in Files, NewSession(f) PROVE FALSE
  BY <1>4 DEF NewSession, ResetTo, Fresh, FilesOwned, Persisting
<1>5. CASE InMemory \/ Quit
  BY <1>1, <1>5 DEF InMemory, ResetTo, Quit, Persisting
<1>6. ASSUME NEW f \in Files, SetSessionFile(f)
      PROVE  \E es \in {LoadEntriesFromFile(disk[sessionFile])} :
                fileEntries' = IF es = <<>> THEN <<Header>> ELSE es
  <2>1. f = sessionFile
    BY <1>1, <1>6 DEF SetSessionFile, ResetTo
  <2>2. CASE disk[f].exists
    BY <1>1, <1>6, <2>1, <2>2 DEF SetSessionFile, BuildIndex
  <2>3. CASE ~disk[f].exists
    <3>1. fileEntries' = <<Header>>
      BY <1>6, <2>3 DEF SetSessionFile, ResetTo
    <3>2. LoadEntriesFromFile(disk[f]) = <<>>
      BY <2>3, LoadAbsent DEF TypeOK, Content
    <3> QED
      BY <2>1, <3>1, <3>2
  <2> QED
    BY <2>2, <2>3
<1>7. ASSUME NEW i \in Ids, NEW f \in Files \cup {NoFile}, CreateBranchedSession(i, f)
      PROVE  FALSE
  BY <1>1, <1>7 DEF CreateBranchedSession, Fresh, FilesOwned, Persisting
<1>8. ASSUME NEW src \in Files, NEW f \in Files, ForkFrom(src, f) PROVE FALSE
  BY <1>1, <1>8 DEF ForkFrom, Fresh, FilesOwned, Persisting
<1> QED
  BY <1>2, <1>3, <1>4, <1>5, <1>6, <1>7, <1>8, StepCases

(* Within one session the entries in memory are append-only, whatever      *)
(* branch is worked on; only opening the file again replaces them.         *)
THEOREM HistoryGrows == Spec => HistoryAppendOnly
<1>1. TypeOK /\ FilesOwned /\ [Next]_vars =>
        [(Alive /\ Persisting /\ sessionFile' = sessionFile)
          => \/ IsPrefix(fileEntries, fileEntries')
             \/ \E es \in {LoadEntriesFromFile(disk[sessionFile])} :
                   fileEntries' = IF es = <<>> THEN <<Header>> ELSE es]_vars
  BY StepKeepsHistory
<1> QED
  BY <1>1, TypeCorrect, FilesStayOwned, PTL DEF Spec, HistoryAppendOnly

-----------------------------------------------------------------------------
(* The labels kept by appends are the ones the entries spell.              *)

(* The lines of a kind: _buildIndex keeps the last of each.                *)
At(es, M) == {k \in 1 .. Len(es) : es[k] \in M}

WithId(i)     == {e \in Entry : e.id = i}
LabelsAt(i)   == {e \in Entry : e.type = "label" /\ e.ref = i}

(* What _buildIndex computes, in terms of the last line of a kind.         *)
LEMMA IndexByKind ==
    ASSUME NEW es \in Seq(Line)
    PROVE  /\ \A i \in Ids : IndexOf(es)[i] =
                 IF At(es, WithId(i)) = {} THEN NoEntry ELSE es[MaxOf(At(es, WithId(i)))]
           /\ \A i \in Ids : LabelsOf(es)[i] =
                 IF At(es, LabelsAt(i)) = {} THEN NoLabel ELSE es[MaxOf(At(es, LabelsAt(i)))].val
<1>1. /\ \A i : {k \in EntryAt(es) : es[k].id = i} = At(es, WithId(i))
      /\ \A i : {k \in EntryAt(es) : es[k].type = "label" /\ es[k].ref = i} = At(es, LabelsAt(i))
  BY EntryAtProperties DEF At, WithId, LabelsAt
<1> QED
  BY <1>1 DEF IndexOf, LabelsOf

(* The last line of a kind after one line more.                            *)
LEMMA LastOfAppend ==
    ASSUME NEW es \in Seq(Line), NEW e \in Entry, NEW M
    PROVE  /\ e \in M => /\ At(Append(es, e), M) # {}
                         /\ Append(es, e)[MaxOf(At(Append(es, e), M))] = e
           /\ e \notin M => /\ At(Append(es, e), M) = At(es, M)
                            /\ At(es, M) # {} => Append(es, e)[MaxOf(At(es, M))] = es[MaxOf(At(es, M))]
<1> DEFINE more == Append(es, e)
           n    == Len(es)
<1>1. e \in Line
  BY DEF Line
<1>2. /\ n \in Nat /\ n + 1 \in Nat /\ Len(more) = n + 1
      /\ \A k \in 1 .. n : more[k] = es[k]
      /\ more[n + 1] = e
  BY <1>1, AppendProperties, LenProperties
<1> HIDE DEF more
<1>3. At(more, M) \in SUBSET (1 .. n + 1) /\ At(es, M) \in SUBSET (1 .. n)
  BY <1>2 DEF At
<1>4. CASE e \in M
  <2>1. n + 1 \in At(more, M)
    BY <1>2, <1>4 DEF At
  <2>2. MaxOf(At(more, M)) \in At(more, M) /\ n + 1 <= MaxOf(At(more, M))
    BY <1>2, <1>3, <2>1, MaxOfProperties
  <2>3. MaxOf(At(more, M)) = n + 1
    BY <1>2, <1>3, <2>2
  <2> QED
    BY <1>2, <1>4, <2>1, <2>3 DEF more
<1>5. CASE e \notin M
  <2>1. At(more, M) = At(es, M)
    BY <1>2, <1>5 DEF At
  <2>2. At(es, M) # {} => MaxOf(At(es, M)) \in 1 .. n
    BY <1>2, <1>3, MaxOfProperties
  <2> QED
    BY <1>2, <1>5, <2>1, <2>2 DEF more
<1> QED
  BY <1>4, <1>5

(* A label entry more changes the label of its target, and no other entry  *)
(* changes a label.                                                        *)
LEMMA LabelsOfAppend ==
    ASSUME NEW es \in Seq(Line), NEW e \in Entry, e.type = "label" => e.ref \in Ids
    PROVE  LabelsOf(Append(es, e)) =
             IF e.type = "label" THEN [LabelsOf(es) EXCEPT ![e.ref] = e.val] ELSE LabelsOf(es)
<1> DEFINE more == Append(es, e)
<1>1. more \in Seq(Line)
  <2>1. e \in Line
    BY DEF Line
  <2> QED
    BY <2>1, AppendProperties
<1>2. /\ LabelsOf(more) \in [Ids -> Labels \cup {NoLabel}]
      /\ LabelsOf(es) \in [Ids -> Labels \cup {NoLabel}]
  BY <1>1, IndexType
<1>3. ASSUME NEW i \in Ids
      PROVE  LabelsOf(more)[i] = IF e.type = "label" /\ e.ref = i THEN e.val ELSE LabelsOf(es)[i]
  <2>1. CASE e \in LabelsAt(i)
    <3>1. At(more, LabelsAt(i)) # {} /\ more[MaxOf(At(more, LabelsAt(i)))] = e
      BY <2>1, LastOfAppend
    <3>2. e.type = "label" /\ e.ref = i
      BY <2>1 DEF LabelsAt
    <3> HIDE DEF more
    <3> QED
      BY <1>1, <3>1, <3>2, IndexByKind
  <2>2. CASE e \notin LabelsAt(i)
    <3>1. /\ At(more, LabelsAt(i)) = At(es, LabelsAt(i))
          /\ At(es, LabelsAt(i)) # {} =>
                more[MaxOf(At(es, LabelsAt(i)))] = es[MaxOf(At(es, LabelsAt(i)))]
      BY <2>2, LastOfAppend
    <3>2. ~(e.type = "label" /\ e.ref = i)
      BY <2>2 DEF LabelsAt
    <3> HIDE DEF more
    <3>3. LabelsOf(more)[i] = LabelsOf(es)[i]
      BY <1>1, <3>1, IndexByKind
    <3> QED
      BY <3>2, <3>3
  <2> QED
    BY <2>1, <2>2
<1> HIDE DEF more
<1>4. CASE e.type = "label"
  BY <1>2, <1>3, <1>4 DEF more
<1>5. CASE e.type # "label"
  BY <1>2, <1>3, <1>5 DEF more
<1> QED
  BY <1>4, <1>5

(* A new session has no labels. *)
LEMMA LabelsOfHeader == LabelsOf(<<Header>>) = NoLabels
<1>1. EntryAt(<<Header>>) = {}
  BY DEF EntryAt, Header
<1> QED
  BY <1>1 DEF LabelsOf, NoLabels

(* A manager that is new, rebuilt or gone has the labels of its entries.   *)
LEMMA RebuiltLabels ==
    ASSUME \/ Exit
           \/ fileEntries' = <<Header>> /\ labelsById' = NoLabels
           \/ \E es : BuildIndex(es)
    PROVE  LabelsInSync'
<1>1. CASE Exit
  BY <1>1 DEF Exit, LabelsInSync, Alive
<1>2. CASE fileEntries' = <<Header>> /\ labelsById' = NoLabels
  BY <1>2, LabelsOfHeader DEF LabelsInSync
<1>3. CASE \E es : BuildIndex(es)
  BY <1>3 DEF BuildIndex, LabelsInSync
<1> QED
  BY <1>1, <1>2, <1>3

(* An append leaves the labels of the entries with the manager, unless its *)
(* write throws; then the file is damaged.                                 *)
LEMMA AppendKeepsLabels ==
    ASSUME TypeOK, LabelsInSync, AppendStep
    PROVE  LabelsInSync'
<1>1. PICK e \in Entry, labels \in [Ids -> Labels \cup {NoLabel}] :
        /\ CanAppend /\ AppendEntry(e, labels)
        /\ labels = LabelsAfter(e) /\ (e.type = "label" => e.ref \in Ids)
  BY DEF AppendStep
<1>2. PICK o : /\ WriteFile(sessionFile, o)
               /\ \/ o.end = "kill" /\ Exit
                  \/ /\ o.end # "kill"
                     /\ fileEntries' = Append(fileEntries, e)
                     /\ labelsById' = IF o.end = "throw" THEN labelsById ELSE labels
                     /\ sessionFile' = sessionFile
  BY <1>1 DEF AppendEntry
<1>3. CASE Exit
  BY <1>3, RebuiltLabels
<1>4. CASE ~Exit /\ o.end = "throw"
  BY <1>2, <1>4 DEF WriteFile, LabelsInSync
<1>5. CASE ~Exit /\ o.end # "throw"
  <2>1. damaged \subseteq damaged'
    BY <1>2 DEF WriteFile
  <2>2. sessionFile \notin damaged => labelsById = LabelsOf(fileEntries)
    BY <1>1 DEF CanAppend, LabelsInSync
  <2>3. fileEntries \in Seq(Line)
    BY DEF TypeOK
  <2>4. LabelsOf(Append(fileEntries, e)) =
          IF e.type = "label" THEN [LabelsOf(fileEntries) EXCEPT ![e.ref] = e.val]
          ELSE LabelsOf(fileEntries)
    BY <1>1, <2>3, LabelsOfAppend
  <2>5. /\ sessionFile' = sessionFile /\ labelsById' = LabelsAfter(e)
        /\ fileEntries' = Append(fileEntries, e)
    BY <1>1, <1>2, <1>5
  <2>6. sessionFile' \notin damaged' => LabelsAfter(e) = LabelsOf(Append(fileEntries, e))
    BY <2>1, <2>2, <2>4, <2>5 DEF LabelsAfter
  <2> QED
    BY <2>5, <2>6 DEF LabelsInSync
<1> QED
  BY <1>3, <1>4, <1>5

(* Every step keeps the labels in sync. *)
LEMMA StepKeepsLabels ==
    ASSUME TypeOK, LabelsInSync, [Next]_vars
    PROVE  LabelsInSync'
<1>1. CASE AppendStep
  BY <1>1, AppendKeepsLabels
<1>2. CASE (\E i \in Ids : Branch(i)) \/ ResetLeaf \/ UNCHANGED vars
  BY <1>2 DEF Branch, ResetLeaf, vars, LabelsInSync, Alive
<1>3. CASE (\E f \in Files : NewSession(f)) \/ InMemory \/ Quit
  BY <1>3, RebuiltLabels DEF NewSession, InMemory, ResetTo, Quit
<1>4. ASSUME NEW f \in Files, SetSessionFile(f) PROVE LabelsInSync'
  BY <1>4, RebuiltLabels DEF SetSessionFile, ResetTo
<1>5. ASSUME NEW i \in Ids, NEW f \in Files \cup {NoFile}, CreateBranchedSession(i, f)
      PROVE  LabelsInSync'
  <2>1. Exit \/ \E es : BuildIndex(es)
    BY <1>5 DEF CreateBranchedSession
  <2> QED
    BY <2>1, RebuiltLabels
<1>6. ASSUME NEW src \in Files, NEW f \in Files, ForkFrom(src, f) PROVE LabelsInSync'
  <2>1. Exit \/ \E es : BuildIndex(es)
    BY <1>6 DEF ForkFrom
  <2> QED
    BY <2>1, RebuiltLabels
<1> QED
  BY <1>1, <1>2, <1>3, <1>4, <1>5, <1>6, StepCases

(* However labels are set, cleared, carried over by forks and reloaded,    *)
(* and whatever fails, getLabel answers what the newest label entry of the *)
(* session says, as long as no write to the file threw.                    *)
THEOREM LabelsStayInSync == Spec => []LabelsInSync
<1>1. Init => LabelsInSync
  BY DEF Init, LabelsInSync, Alive
<1>2. TypeOK /\ LabelsInSync /\ [Next]_vars => LabelsInSync'
  BY StepKeepsLabels
<1> QED
  BY <1>1, <1>2, TypeCorrect, PTL DEF Spec

-----------------------------------------------------------------------------
(* Reopening gives back the session.                                       *)

(* Every entry of ls is one of es. *)
Within(ls, es) == \A k \in EntryAt(ls) : \E j \in EntryAt(es) : es[j] = ls[k]

(* ls ends in es, and what comes before, written before es was written as  *)
(* a whole, says nothing es does not say again.                            *)
HoldsAll(ls, es) == \E pre \in Seq(Line) : ls = pre \o es /\ Within(pre, es)

(* What the file of a manager, with lines ls, holds of its entries es:     *)
(* while they are not flushed, nothing else and no assistant message.      *)
Holds(ls, es, isFlushed) ==
    /\ ls = <<>> \/ ls[1] = Header
    /\ isFlushed => ls # <<>> /\ HoldsAll(ls, es)
    /\ ~isFlushed => Within(ls, es) /\ ~HasAssistant(es)

FileHolds ==
    Alive /\ Persisting /\ sessionFile \notin damaged =>
        fileEntries[1] = Header /\ Holds(disk[sessionFile].lines, fileEntries, flushed)

(* A file that does not end in a newline had a write fail or stop.         *)
TailsKnown == \A f \in Files : disk[f].tail # "clean" => f \in damaged

(* The last line of a kind is the same with and without what comes before. *)
LEMMA LastOfConcat ==
    ASSUME NEW pre \in Seq(Line), NEW es \in Seq(Line), Within(pre, es), NEW M \in SUBSET Entry
    PROVE  /\ At(es, M) = {} => At(pre \o es, M) = {}
           /\ At(es, M) # {} => /\ At(pre \o es, M) # {}
                               /\ (pre \o es)[MaxOf(At(pre \o es, M))] = es[MaxOf(At(es, M))]
<1> DEFINE ls == pre \o es
           d  == Len(pre)
           n  == Len(es)
<1>1. /\ d \in Nat /\ n \in Nat /\ d + n \in Nat /\ Len(ls) = d + n
      /\ \A k \in 1 .. d : ls[k] = pre[k]
      /\ \A k \in 1 .. n : d + k \in 1 .. d + n /\ ls[d + k] = es[k]
  <2>1. /\ d \in Nat /\ n \in Nat /\ Len(ls) = d + n
        /\ \A k \in 1 .. d + n : ls[k] = IF k <= d THEN pre[k] ELSE es[k - d]
    BY LenProperties, ConcatProperties
  <2> HIDE DEF ls, d, n
  <2>2. \A k \in 1 .. n : d + k \in 1 .. d + n /\ ~(d + k <= d) /\ (d + k) - d = k
    BY <2>1
  <2> QED
    BY <2>1, <2>2
<1> HIDE DEF ls
<1>2. At(ls, M) \in SUBSET (1 .. d + n) /\ At(es, M) \in SUBSET (1 .. n)
  BY <1>1 DEF At
<1>3. \A k \in At(es, M) : d + k \in At(ls, M)
  BY <1>1 DEF At
<1>4. ASSUME NEW k \in At(ls, M)
      PROVE  /\ k > d => k - d \in At(es, M)
             /\ k <= d => At(es, M) # {}
  <2>1. CASE k > d
    <3>1. k - d \in 1 .. n /\ d + (k - d) = k
      BY <1>1, <1>2, <2>1
    <3> QED
      BY <1>1, <1>4, <2>1, <3>1 DEF At
  <2>2. CASE k <= d
    <3>1. k \in 1 .. d /\ pre[k] \in M
      BY <1>1, <1>2, <1>4, <2>2 DEF At
    <3>2. k \in EntryAt(pre)
      BY <3>1, EntryAtProperties
    <3>3. PICK j \in EntryAt(es) : es[j] = pre[k]
      BY <3>2 DEF Within
    <3>4. j \in 1 .. n
      BY <3>3, EntryAtProperties
    <3> QED
      BY <1>1, <2>2, <3>1, <3>3, <3>4 DEF At
  <2> QED
    BY <1>1, <1>2, <2>1, <2>2
<1>5. CASE At(es, M) = {}
  <2>1. \A k \in At(ls, M) : k > d \/ k <= d
    BY <1>1, <1>2
  <2> QED
    BY <1>4, <1>5, <2>1 DEF ls
<1>6. CASE At(es, M) # {}
  <2> DEFINE m == MaxOf(At(es, M))
             x == MaxOf(At(ls, M))
  <2>1. m \in At(es, M) /\ \A k \in At(es, M) : k <= m
    BY <1>1, <1>2, <1>6, MaxOfProperties
  <2>2. d + m \in At(ls, M)
    BY <1>3, <2>1
  <2>3. x \in At(ls, M) /\ d + m <= x
    BY <1>1, <1>2, <2>2, MaxOfProperties
  <2> HIDE DEF m, x
  <2>4. m \in 1 .. n /\ x \in 1 .. d + n /\ x > d
    BY <1>1, <1>2, <2>1, <2>3
  <2>5. x - d \in At(es, M)
    BY <1>4, <2>3, <2>4
  <2>6. x - d <= m
    BY <2>1, <2>5
  <2>7. x = d + m
    <3>1. d \in Nat /\ m \in Int /\ x \in Int
      BY <1>1, <2>4
    <3> QED
      BY <2>3, <2>6, <3>1
  <2>8. ls[x] = es[m]
    BY <1>1, <2>4, <2>7
  <2> QED
    BY <1>6, <2>2, <2>8 DEF ls, m, x
<1> QED
  BY <1>5, <1>6

(* So a manager built from a file that holds all has the same index and    *)
(* the same labels.                                                        *)
LEMMA HoldsAllReads ==
    ASSUME NEW ls \in Seq(Line), NEW es \in Seq(Line), HoldsAll(ls, es)
    PROVE  IndexOf(ls) = IndexOf(es) /\ LabelsOf(ls) = LabelsOf(es)
<1>1. PICK pre \in Seq(Line) : ls = pre \o es /\ Within(pre, es)
  BY DEF HoldsAll
<1>2. \A i : WithId(i) \in SUBSET Entry /\ LabelsAt(i) \in SUBSET Entry
  BY DEF WithId, LabelsAt
<1>3. ASSUME NEW i \in Ids
      PROVE  IndexOf(ls)[i] = IndexOf(es)[i] /\ LabelsOf(ls)[i] = LabelsOf(es)[i]
  <2>1. IndexOf(ls)[i] = IndexOf(es)[i]
    <3> DEFINE M == WithId(i)
    <3>1. /\ At(es, M) = {} => At(ls, M) = {}
          /\ At(es, M) # {} => At(ls, M) # {} /\ ls[MaxOf(At(ls, M))] = es[MaxOf(At(es, M))]
      BY <1>1, <1>2, LastOfConcat
    <3>2. /\ IndexOf(ls)[i] = IF At(ls, M) = {} THEN NoEntry ELSE ls[MaxOf(At(ls, M))]
          /\ IndexOf(es)[i] = IF At(es, M) = {} THEN NoEntry ELSE es[MaxOf(At(es, M))]
      BY IndexByKind
    <3> QED
      BY <3>1, <3>2
  <2>2. LabelsOf(ls)[i] = LabelsOf(es)[i]
    <3> DEFINE M == LabelsAt(i)
    <3>1. /\ At(es, M) = {} => At(ls, M) = {}
          /\ At(es, M) # {} => At(ls, M) # {} /\ ls[MaxOf(At(ls, M))] = es[MaxOf(At(es, M))]
      BY <1>1, <1>2, LastOfConcat
    <3>2. /\ LabelsOf(ls)[i] = IF At(ls, M) = {} THEN NoLabel ELSE ls[MaxOf(At(ls, M))].val
          /\ LabelsOf(es)[i] = IF At(es, M) = {} THEN NoLabel ELSE es[MaxOf(At(es, M))].val
      BY IndexByKind
    <3> QED
      BY <3>1, <3>2
  <2> QED
    BY <2>1, <2>2
<1> QED
  BY <1>3, IndexType

(* Within is kept when es grows, and by sequences put together.            *)
LEMMA WithinProperties ==
    ASSUME NEW ls \in Seq(Line), NEW es \in Seq(Line)
    PROVE  /\ Within(es, es) /\ Within(<<>>, es)
           /\ \A e \in Entry : Within(ls, es) => Within(ls, Append(es, e))
           /\ \A pre \in Seq(Line) : Within(pre, es) /\ Within(ls, es) => Within(pre \o ls, es)
<1>1. Within(es, es)
  BY DEF Within
<1>2. Within(<<>>, es)
  <2>1. EntryAt(<<>>) = {}
    BY EmptySeq DEF EntryAt
  <2> QED
    BY <2>1 DEF Within
<1>3. ASSUME NEW e \in Entry, Within(ls, es)
      PROVE  Within(ls, Append(es, e))
  <2>1. e \in Line
    BY DEF Line
  <2>2. /\ Len(Append(es, e)) = Len(es) + 1 /\ Len(es) \in Nat
        /\ \A k \in 1 .. Len(es) : Append(es, e)[k] = es[k]
    BY <2>1, AppendProperties, LenProperties
  <2>3. \A j \in EntryAt(es) : j \in EntryAt(Append(es, e)) /\ Append(es, e)[j] = es[j]
    BY <2>2 DEF EntryAt
  <2> QED
    BY <1>3, <2>3 DEF Within
<1>4. ASSUME NEW pre \in Seq(Line), Within(pre, es), Within(ls, es)
      PROVE  Within(pre \o ls, es)
  <2>1. /\ Len(pre) \in Nat /\ Len(ls) \in Nat /\ Len(pre \o ls) = Len(pre) + Len(ls)
        /\ \A k \in 1 .. Len(pre) + Len(ls) :
              (pre \o ls)[k] = IF k <= Len(pre) THEN pre[k] ELSE ls[k - Len(pre)]
    BY LenProperties, ConcatProperties
  <2> SUFFICES ASSUME NEW k \in EntryAt(pre \o ls)
               PROVE  \E j \in EntryAt(es) : es[j] = (pre \o ls)[k]
    BY DEF Within
  <2>2. k \in 1 .. Len(pre) + Len(ls) /\ (pre \o ls)[k].type # "session"
    BY <2>1 DEF EntryAt
  <2>3. CASE k <= Len(pre)
    <3>1. k \in EntryAt(pre) /\ (pre \o ls)[k] = pre[k]
      BY <2>1, <2>2, <2>3 DEF EntryAt
    <3> QED
      BY <1>4, <3>1 DEF Within
  <2>4. CASE ~(k <= Len(pre))
    <3>1. k - Len(pre) \in EntryAt(ls) /\ (pre \o ls)[k] = ls[k - Len(pre)]
      BY <2>1, <2>2, <2>4 DEF EntryAt
    <3> QED
      BY <1>4, <3>1 DEF Within
  <2> QED
    BY <2>3, <2>4
<1> QED
  BY <1>1, <1>2, <1>3, <1>4

(* An append, with what _persist writes for it, keeps Holds. *)
LEMMA AppendHolds ==
    ASSUME NEW es \in Seq(Line), NEW ls \in Seq(Line), NEW e \in Entry, NEW isFlushed \in BOOLEAN,
           es # <<>>, es[1] = Header, Holds(ls, es, isFlushed),
           NEW written, written = IF ~HasAssistant(Append(es, e)) THEN <<>>
                                  ELSE IF isFlushed THEN <<e>> ELSE Append(es, e)
    PROVE  Holds(ls \o written, Append(es, e), HasAssistant(Append(es, e)))
<1> DEFINE more == Append(es, e)
<1>1. /\ e \in Line /\ <<e>> \in Seq(Line) /\ more \in Seq(Line)
      /\ more # <<>> /\ more = es \o <<e>> /\ Len(es) \in Nat /\ Len(es) # 0
      /\ more[1] = Header
  <2>1. e \in Line /\ <<e>> \in Seq(Line)
    BY DEF Line
  <2>2. Len(es) \in Nat /\ Len(es) # 0
    BY EmptySeq, LenProperties
  <2> QED
    BY <2>1, <2>2, AppendProperties, AppendIsConcat
<1>2. isFlushed => Within(ls, es)
  <2> SUFFICES ASSUME isFlushed PROVE Within(ls, es)
    OBVIOUS
  <2>1. PICK pre \in Seq(Line) : ls = pre \o es /\ Within(pre, es)
    BY DEF Holds, HoldsAll
  <2> QED
    BY <2>1, WithinProperties
<1>3. Within(ls, more)
  BY <1>2, WithinProperties DEF Holds
<1> HIDE DEF more
<1>4. CASE ~HasAssistant(more)
  <2>1. ls \o written = ls
    BY <1>4, ConcatEmptySeq DEF more
  <2> QED
    BY <1>3, <1>4, <2>1 DEF Holds, more
<1>5. CASE HasAssistant(more) /\ isFlushed
  <2>1. PICK pre \in Seq(Line) : ls = pre \o es /\ Within(pre, es)
    BY <1>5 DEF Holds, HoldsAll
  <2>2. ls \o written = pre \o more
    BY <1>1, <1>5, <2>1, ConcatAssociative DEF more
  <2>3. Within(pre, more)
    BY <2>1, WithinProperties DEF more
  <2>4. ls # <<>> /\ ls[1] = Header /\ Len(ls) \in Nat /\ Len(ls) # 0
    BY <1>5, EmptySeq, LenProperties DEF Holds
  <2>5. (ls \o <<e>>)[1] = Header /\ ls \o <<e>> # <<>>
    BY <1>1, <2>4, ConcatProperties, ConcatEqualIffEmpty
  <2>6. written = <<e>>
    BY <1>5 DEF more
  <2> QED
    BY <1>5, <2>1, <2>2, <2>3, <2>5, <2>6 DEF Holds, HoldsAll, more
<1>6. CASE HasAssistant(more) /\ ~isFlushed
  <2>1. written = more
    BY <1>6 DEF more
  <2>2. ls \o more # <<>>
    BY <1>1, ConcatEqualIffEmpty
  <2>3. (ls \o more)[1] = Header
    <3>1. CASE ls = <<>>
      BY <1>1, <3>1, ConcatEmptySeq
    <3>2. CASE ls # <<>>
      <4>1. ls[1] = Header /\ Len(ls) \in Nat /\ Len(ls) # 0
        BY <3>2, EmptySeq, LenProperties DEF Holds
      <4>2. Len(more) \in Nat
        BY <1>1, LenProperties
      <4> QED
        BY <1>1, <4>1, <4>2, ConcatProperties
    <3> QED
      BY <3>1, <3>2
  <2> QED
    BY <1>3, <1>6, <2>1, <2>2, <2>3 DEF Holds, HoldsAll, more
<1> QED
  BY <1>4, <1>5, <1>6 DEF more

(* A file with what was written as a whole holds it; and an empty file     *)
(* holds what has no assistant message yet.                                *)
LEMMA NewHolds ==
    ASSUME NEW es \in Seq(Line), es # <<>>, es[1] = Header
    PROVE  /\ Holds(es, es, TRUE)
           /\ ~HasAssistant(es) => Holds(<<>>, es, FALSE)
<1>1. <<>> \in Seq(Line) /\ es = <<>> \o es
  BY EmptySeq, ConcatEmptySeq
<1> QED
  BY <1>1, WithinProperties DEF Holds, HoldsAll

(* A session that has only begun has no assistant message. *)
LEMMA HeaderAlone ==
    /\ <<Header>> \in Seq(Line) /\ <<Header>> # <<>> /\ <<Header>>[1] = Header
    /\ ~HasAssistant(<<Header>>)
  BY DEF Line, Header, HasAssistant

(* A write that came to its end wrote all its lines, each a line of its    *)
(* own if the file ended in a newline.                                     *)
LEMMA WholeWrite ==
    ASSUME NEW c \in Content, NEW ls \in Seq(Line), NEW o \in Outcomes(c, ls), o.end = "ok",
           c.tail = "clean"
    PROVE  o.content.lines = c.lines \o ls
<1>1. o.content = AppendLines(c, ls)
  BY FaultAssumption DEF Outcomes
<1>2. c.lines \in Seq(Line)
  BY ContentLines
<1>3. CASE ls = <<>>
  <2>1. c.lines \o <<>> = c.lines
    BY <1>2, ConcatEmptySeq
  <2>2. o.content = c
    BY <1>1, <1>3 DEF AppendLines
  <2> QED
    BY <1>3, <2>1, <2>2
<1>4. CASE ls # <<>>
  <2>1. Keep(c) = c.lines
    BY KeepProperties
  <2>2. o.content = [exists |-> TRUE, tail |-> "clean", lines |-> c.lines \o ls]
    BY <1>1, <1>4, <2>1 DEF AppendLines
  <2> QED
    BY <2>2
<1> QED
  BY <1>3, <1>4

(* A step writes to one file, or to none. *)
LEMMA StepWritesOnce ==
    ASSUME TypeOK, [Next]_vars
    PROVE  UNCHANGED <<disk, damaged>> \/ \E f, o : WriteFile(f, o)
<1>1. CASE AppendStep
  BY <1>1 DEF AppendStep, AppendEntry
<1>2. CASE \/ \E i \in Ids : Branch(i)
           \/ ResetLeaf \/ InMemory \/ Quit \/ UNCHANGED vars
           \/ \E f \in Files : NewSession(f)
  BY <1>2 DEF Branch, ResetLeaf, InMemory, Quit, vars, NewSession
<1>3. ASSUME NEW f \in Files, SetSessionFile(f)
      PROVE  UNCHANGED <<disk, damaged>> \/ \E o : WriteFile(f, o)
  BY <1>3 DEF SetSessionFile
<1>4. ASSUME NEW i, NEW f, CreateBranchedSession(i, f)
      PROVE  \E o : WriteFile(f, o)
  BY <1>4 DEF CreateBranchedSession
<1>5. ASSUME NEW src, NEW f, ForkFrom(src, f)
      PROVE  \E o : WriteFile(f, o)
  BY <1>5 DEF ForkFrom
<1> QED
  BY <1>1, <1>2, <1>3, <1>4, <1>5, StepCases

(* Every step keeps TailsKnown. *)
LEMMA StepKeepsTails ==
    ASSUME TypeOK, TailsKnown, [Next]_vars
    PROVE  TailsKnown'
<1>1. CASE UNCHANGED <<disk, damaged>>
  BY <1>1 DEF TailsKnown
<1>2. ASSUME NEW f, NEW o, WriteFile(f, o)
      PROVE  TailsKnown'
  <2> SUFFICES ASSUME NEW g \in Files, disk'[g].tail # "clean"
               PROVE  g \in damaged'
    BY DEF TailsKnown
  <2>1. damaged \subseteq damaged'
    BY <1>2 DEF WriteFile
  <2>2. CASE g = f
    <3>1. disk'[g] = o.content
      BY <1>2, <2>2 DEF WriteFile, TypeOK
    <3> QED
      BY <1>2, <2>2, <3>1 DEF WriteFile
  <2>3. CASE g # f
    <3>1. disk'[g] = disk[g]
      BY <1>2, <2>3 DEF WriteFile, TypeOK
    <3> QED
      BY <2>1, <3>1 DEF TailsKnown
  <2> QED
    BY <2>2, <2>3
<1> QED
  BY <1>1, <1>2, StepWritesOnce

(* An append keeps FileHolds. *)
LEMMA AppendKeepsFile ==
    ASSUME TypeOK, TailsKnown, FileHolds, AppendStep
    PROVE  FileHolds'
<1>1. PICK e \in Entry, labels \in [Ids -> Labels \cup {NoLabel}] :
        CanAppend /\ AppendEntry(e, labels)
  BY DEF AppendStep
<1> DEFINE es == Append(fileEntries, e)
           ls == PersistLines(es, e)
<1>2. PICK o \in Outcomes(FileContent(sessionFile), ls) :
        /\ WriteFile(sessionFile, o)
        /\ \/ o.end = "kill" /\ Exit
           \/ /\ o.end # "kill"
              /\ fileEntries' = es
              /\ flushed' = IF o.end = "throw" THEN flushed ELSE FlushedAfter(es)
              /\ sessionFile' = sessionFile
  BY <1>1 DEF AppendEntry
<1> SUFFICES ASSUME Alive', Persisting', sessionFile' \notin damaged'
             PROVE  fileEntries'[1] = Header /\ Holds(disk'[sessionFile'].lines, fileEntries', flushed')
  BY DEF FileHolds
<1>3. es \in Seq(Line) /\ fileEntries \in Seq(Line) /\ fileEntries # <<>>
  <2>1. e \in Line /\ fileEntries \in Seq(Line)
    BY DEF Line, TypeOK
  <2> QED
    BY <1>1, <2>1, AppendProperties DEF CanAppend, Alive
<1>4. ls \in Seq(Line)
  BY <1>3, PersistLinesType
<1>5. ~Exit
  BY DEF Exit, Alive
<1>6. /\ fileEntries' = es /\ sessionFile' = sessionFile /\ Persisting /\ sessionFile \in Files
      /\ flushed' = IF o.end = "throw" THEN flushed ELSE FlushedAfter(es)
      /\ o.end # "kill"
  BY <1>2, <1>5 DEF Persisting, TypeOK
<1>7. /\ o.end # "throw" /\ sessionFile \notin damaged
  BY <1>2, <1>6 DEF WriteFile
<1> HIDE DEF es, ls
<1>8. FileContent(sessionFile) = disk[sessionFile] /\ disk[sessionFile] \in Content
  BY <1>6 DEF FileContent, TypeOK
<1>9. disk[sessionFile].tail = "clean"
  BY <1>6, <1>7 DEF TailsKnown
<1>10. o.end = "ok"
  BY <1>2, <1>4, <1>6, <1>7, <1>8, OutcomesProperties
<1>11. o.content.lines = disk[sessionFile].lines \o ls
  BY <1>2, <1>4, <1>8, <1>9, <1>10, WholeWrite
<1>12. disk'[sessionFile] = o.content
  BY <1>2, <1>6 DEF WriteFile, TypeOK
<1>13. flushed' = HasAssistant(es)
  BY <1>6, <1>7 DEF FlushedAfter
<1>14. /\ fileEntries[1] = Header
       /\ Holds(disk[sessionFile].lines, fileEntries, flushed)
  BY <1>1, <1>6, <1>7 DEF FileHolds, CanAppend
<1>15. ls = IF ~HasAssistant(es) THEN <<>> ELSE IF flushed THEN <<e>> ELSE es
  BY <1>6 DEF PersistLines, ls
<1>16. disk[sessionFile].lines \in Seq(Line) /\ flushed \in BOOLEAN
  BY <1>8, ContentLines DEF TypeOK
<1>17. Holds(disk[sessionFile].lines \o ls, es, HasAssistant(es))
  BY <1>3, <1>14, <1>15, <1>16, AppendHolds DEF es
<1>18. es[1] = Header
  <2>1. Len(fileEntries) \in Nat /\ Len(fileEntries) # 0 /\ e \in Line
    BY <1>3, EmptySeq, LenProperties DEF Line
  <2> QED
    BY <1>3, <1>14, <2>1, AppendProperties DEF es
<1> QED
  BY <1>6, <1>11, <1>12, <1>13, <1>17, <1>18

(* What is written whole to a file with no lines is all it holds. *)
LEMMA FirstWrite ==
    ASSUME NEW c \in {Empty, Absent}, NEW ls \in Seq(Line), NEW o \in Outcomes(c, ls), o.end = "ok"
    PROVE  o.content.lines = ls
<1>1. c \in Content /\ c.tail = "clean" /\ c.lines = <<>>
  <2>1. <<>> \in Seq(Line)
    BY EmptySeq
  <2>2. CASE c = Empty
    BY <2>1, <2>2 DEF Content, Empty, Tails
  <2>3. CASE c = Absent
    BY <2>3 DEF Content, Absent
  <2> QED
    BY <2>2, <2>3
<1>2. <<>> \o ls = ls
  BY ConcatEmptySeq
<1> QED
  BY <1>1, <1>2, WholeWrite

(* A fork starts with a header. *)
LEMMA ForkFirst ==
    ASSUME NEW path \in Seq(Ids), NEW labels \in Seq(Line),
           \A k \in 1 .. Len(path) : byId[path[k]] \in Entry
    PROVE  ForkEntries(path, labels) # <<>> /\ ForkEntries(path, labels)[1] = Header
<1> DEFINE kept == [k \in 1 .. Len(path) |-> byId[path[k]]]
<1>1. kept \in Seq(Line) /\ Len(kept) \in Nat
  <2>1. \A k \in 1 .. Len(path) : byId[path[k]] \in Line
    BY DEF Line
  <2>2. Len(path) \in Nat
    BY LenProperties
  <2>3. kept \in Seq(Line)
    BY <2>1, <2>2
  <2> QED
    BY <2>3, LenProperties
<1>2. <<Header>> \in Seq(Line) /\ Len(<<Header>>) = 1 /\ <<Header>>[1] = Header
  BY DEF Line
<1> HIDE DEF kept
<1>3. /\ <<Header>> \o kept \in Seq(Line) /\ Len(<<Header>> \o kept) = 1 + Len(kept)
      /\ (<<Header>> \o kept)[1] = Header
  BY <1>1, <1>2, ConcatProperties
<1>4. Len(labels) \in Nat
  BY LenProperties
<1>5. /\ Len((<<Header>> \o kept) \o labels) = 1 + Len(kept) + Len(labels)
      /\ ((<<Header>> \o kept) \o labels)[1] = Header
  BY <1>1, <1>3, <1>4, ConcatProperties
<1>6. ForkEntries(path, labels) = (<<Header>> \o kept) \o labels
  BY DEF ForkEntries, kept
<1>7. Len(ForkEntries(path, labels)) # 0
  BY <1>1, <1>4, <1>5, <1>6
<1> QED
  BY <1>5, <1>6, <1>7, EmptySeq

(* The manager of a new session, whose file has no line. *)
LEMMA ResetHolds ==
    ASSUME TypeOK, NEW f, ResetTo(f), UNCHANGED <<disk, damaged>>,
           f # NoFile => disk[f] = Absent
    PROVE  FileHolds'
<1>1. fileEntries' = <<Header>> /\ flushed' = FALSE /\ sessionFile' = f /\ disk' = disk
  BY DEF ResetTo
<1>2. Holds(<<>>, <<Header>>, FALSE) /\ <<Header>>[1] = Header
  BY NewHolds, HeaderAlone
<1>3. f # NoFile => disk'[f].lines = <<>>
  BY <1>1 DEF Absent
<1>4. Persisting' => /\ fileEntries'[1] = Header
                     /\ Holds(disk'[sessionFile'].lines, fileEntries', flushed')
  BY <1>1, <1>2, <1>3 DEF Persisting
<1> QED
  BY <1>4 DEF FileHolds

(* setSessionFile keeps FileHolds. *)
LEMMA SetSessionFileHolds ==
    ASSUME TypeOK, TailsKnown, NEW f \in Files, SetSessionFile(f)
    PROVE  FileHolds'
<1> DEFINE es == LoadEntriesFromFile(disk[f])
<1>1. CASE /\ es # <<>> /\ BuildIndex(es) /\ sessionFile' = f /\ flushed' = TRUE
           /\ UNCHANGED <<disk, damaged>>
  <2>1. es \in Seq(Line) /\ es = disk[f].lines /\ es[1] = Header
    BY <1>1, LoadType DEF LoadEntriesFromFile, TypeOK
  <2> HIDE DEF es
  <2>2. Holds(es, es, TRUE)
    BY <1>1, <2>1, NewHolds
  <2> QED
    BY <1>1, <2>1, <2>2 DEF FileHolds, BuildIndex
<1>2. CASE \E o \in Outcomes(Empty, <<Header>>) :
             /\ WriteFile(f, o)
             /\ \/ o.end # "ok" /\ Exit
                \/ /\ o.end = "ok" /\ fileEntries' = <<Header>>
                   /\ sessionFile' = f /\ flushed' = TRUE
  <2>1. PICK o \in Outcomes(Empty, <<Header>>) :
             /\ WriteFile(f, o)
             /\ \/ o.end # "ok" /\ Exit
                \/ /\ o.end = "ok" /\ fileEntries' = <<Header>>
                   /\ sessionFile' = f /\ flushed' = TRUE
    BY <1>2
  <2>2. CASE Exit
    BY <2>2 DEF Exit, FileHolds, Alive
  <2>3. CASE ~Exit
    <3>1. o.content.lines = <<Header>>
      BY <2>1, <2>3, FirstWrite, HeaderAlone
    <3>2. disk'[f] = o.content
      BY <2>1 DEF WriteFile, TypeOK
    <3>3. Holds(<<Header>>, <<Header>>, TRUE)
      BY NewHolds, HeaderAlone
    <3> QED
      BY <2>1, <2>3, <3>1, <3>2, <3>3, HeaderAlone DEF FileHolds
  <2> QED
    BY <2>2, <2>3
<1>3. CASE ~disk[f].exists /\ ResetTo(f) /\ UNCHANGED <<disk, damaged>>
  <2>1. disk[f] = Absent
    BY <1>3 DEF TypeOK, Content
  <2> QED
    BY <1>3, <2>1, ResetHolds
<1> QED
  BY <1>1, <1>2, <1>3 DEF SetSessionFile

(* createBranchedSession keeps FileHolds. *)
LEMMA CreateBranchedSessionHolds ==
    ASSUME TypeOK, FilesOwned, NEW leaf, NEW f \in Files \cup {NoFile}, CreateBranchedSession(leaf, f)
    PROVE  FileHolds'
<1>1. PICK path, labels, es :
        /\ es \in Seq(Line) /\ es # <<>> /\ es[1] = Header
        /\ \E o \in IF Persisting /\ HasAssistant(es)
                      THEN Outcomes(Empty, es) ELSE Outcomes(FileContent(f), <<>>) :
              /\ WriteFile(f, o)
              /\ \/ o.end = "kill" /\ Exit
                 \/ /\ o.end # "kill" /\ BuildIndex(es) /\ sessionFile' = f
                    /\ flushed' = IF o.end = "throw" THEN flushed ELSE FlushedAfter(es)
  BY ForkType, ForkFirst DEF CreateBranchedSession
<1>2. PICK o \in IF Persisting /\ HasAssistant(es)
                   THEN Outcomes(Empty, es) ELSE Outcomes(FileContent(f), <<>>) :
        /\ WriteFile(f, o)
        /\ \/ o.end = "kill" /\ Exit
           \/ /\ o.end # "kill" /\ BuildIndex(es) /\ sessionFile' = f
              /\ flushed' = IF o.end = "throw" THEN flushed ELSE FlushedAfter(es)
  BY <1>1
<1> SUFFICES ASSUME Alive', Persisting', sessionFile' \notin damaged'
             PROVE  fileEntries'[1] = Header /\ Holds(disk'[sessionFile'].lines, fileEntries', flushed')
  BY DEF FileHolds
<1>3. ~Exit
  BY DEF Exit, Alive
<1>4. fileEntries' = es /\ sessionFile' = f /\ o.end # "kill"
  BY <1>2, <1>3 DEF BuildIndex
<1>5. o.end # "throw" /\ flushed' = FlushedAfter(es)
  BY <1>2, <1>3, <1>4 DEF WriteFile
<1>6. Persisting /\ f \in Files /\ disk[f] = Absent
  BY <1>4 DEF CreateBranchedSession, Persisting, Fresh, FilesOwned
<1>7. flushed' = HasAssistant(es) /\ disk'[f] = o.content
  BY <1>2, <1>5, <1>6 DEF FlushedAfter, WriteFile, TypeOK
<1>8. CASE HasAssistant(es)
  <2>1. o \in Outcomes(Empty, es)
    BY <1>2, <1>6, <1>8
  <2>2. Empty \in Content
    BY EmptySeq DEF Empty, Content, Tails
  <2>3. o.end = "ok"
    BY <1>1, <1>4, <1>5, <2>1, <2>2, OutcomesProperties
  <2>4. o.content.lines = es
    BY <1>1, <2>1, <2>3, FirstWrite
  <2>5. flushed' = TRUE
    BY <1>7, <1>8 DEF HasAssistant
  <2> QED
    BY <1>1, <1>4, <1>7, <2>4, <2>5, NewHolds
<1>9. CASE ~HasAssistant(es)
  <2>1. o.content = Absent
    BY <1>2, <1>6, <1>9, OutcomesOfNothing DEF FileContent
  <2>2. flushed' = FALSE /\ o.content.lines = <<>>
    BY <1>7, <1>9, <2>1 DEF HasAssistant, Absent
  <2> QED
    BY <1>1, <1>4, <1>7, <1>9, <2>2, NewHolds
<1> QED
  BY <1>8, <1>9

(* forkFrom keeps FileHolds. *)
LEMMA ForkFromHolds ==
    ASSUME TypeOK, NEW src \in Files, NEW f \in Files, ForkFrom(src, f)
    PROVE  FileHolds'
<1> DEFINE rest   == WithoutHeaders(LoadEntriesFromFile(disk[src]))
           copied == <<Header>> \o rest
<1>1. PICK o \in Outcomes(Absent, copied) :
        /\ WriteFile(f, o)
        /\ \/ o.end # "ok" /\ Exit
           \/ /\ o.end = "ok" /\ BuildIndex(copied)
              /\ sessionFile' = f /\ flushed' = TRUE
  BY DEF ForkFrom
<1>2. rest \in Seq(Line)
  BY LoadType, WithoutHeadersType DEF TypeOK
<1> HIDE DEF rest
<1>3. copied \in Seq(Line) /\ copied # <<>> /\ copied[1] = Header
  <2>1. <<Header>> \in Seq(Line) /\ <<Header>>[1] = Header /\ Len(<<Header>>) = 1 /\ Len(rest) \in Nat
    BY <1>2, HeaderAlone, LenProperties
  <2>2. <<Header>> # <<>>
    BY <2>1, EmptySeq
  <2> QED
    BY <1>2, <2>1, <2>2, ConcatProperties, ConcatEqualIffEmpty
<1> HIDE DEF copied
<1>4. CASE Exit
  BY <1>4 DEF Exit, FileHolds, Alive
<1>5. CASE ~Exit
  <2>1. o.end = "ok" /\ BuildIndex(copied) /\ sessionFile' = f /\ flushed' = TRUE
    BY <1>1, <1>5
  <2>2. o.content.lines = copied
    BY <1>1, <1>3, <2>1, FirstWrite
  <2>3. disk'[f] = o.content
    BY <1>1 DEF WriteFile, TypeOK
  <2>4. Holds(copied, copied, TRUE)
    BY <1>3, NewHolds
  <2> QED
    BY <1>3, <2>1, <2>2, <2>3, <2>4 DEF FileHolds, BuildIndex
<1> QED
  BY <1>4, <1>5

(* Every step keeps FileHolds. *)
LEMMA StepKeepsFile ==
    ASSUME TypeOK, FilesOwned, TailsKnown, FileHolds, [Next]_vars
    PROVE  FileHolds'
<1>1. CASE AppendStep
  BY <1>1, AppendKeepsFile
<1>2. CASE (\E i \in Ids : Branch(i)) \/ ResetLeaf \/ UNCHANGED vars
  BY <1>2 DEF Branch, ResetLeaf, vars, FileHolds, Alive, Persisting
<1>3. ASSUME NEW f \in Files, NewSession(f) PROVE FileHolds'
  BY <1>3, ResetHolds DEF NewSession, Fresh, FilesOwned
<1>4. CASE InMemory
  BY <1>4, ResetHolds DEF InMemory
<1>5. ASSUME NEW f \in Files, SetSessionFile(f) PROVE FileHolds'
  BY <1>5, SetSessionFileHolds
<1>6. ASSUME NEW i \in Ids, NEW f \in Files \cup {NoFile}, CreateBranchedSession(i, f)
      PROVE  FileHolds'
  BY <1>6, CreateBranchedSessionHolds
<1>7. ASSUME NEW src \in Files, NEW f \in Files, ForkFrom(src, f) PROVE FileHolds'
  BY <1>7, ForkFromHolds
<1>8. CASE Quit
  BY <1>8 DEF Quit, Exit, FileHolds, Alive
<1> QED
  BY <1>1, <1>2, <1>3, <1>4, <1>5, <1>6, <1>7, <1>8, StepCases

(* FileHolds and TailsKnown hold in every state. *)
LEMMA FilesStayTrue == Spec => [](TailsKnown /\ FileHolds)
<1>1. Init => TailsKnown /\ FileHolds
  <2> SUFFICES ASSUME Init PROVE TailsKnown /\ FileHolds
    OBVIOUS
  <2>1. \A f \in Files : disk[f].tail = "clean"
    BY DEF Init, Empty, Absent
  <2> QED
    BY <2>1 DEF Init, TailsKnown, FileHolds, Alive
<1>2. TypeOK /\ FilesOwned /\ TailsKnown /\ FileHolds /\ [Next]_vars => (TailsKnown /\ FileHolds)'
  BY StepKeepsTails, StepKeepsFile
<1> QED
  BY <1>1, <1>2, TypeCorrect, FilesStayOwned, PTL DEF Spec

(* Although entries are held back until the first assistant message, may   *)
(* be written twice, and a write may be killed between two lines: once a   *)
(* session has an assistant message, reopening its file gives back every   *)
(* entry and label, unless a write to it failed or stopped inside a line.  *)
THEOREM SessionsReopen == Spec => []ReopenRestores
<1>1. TypeOK /\ IndexInSync /\ LabelsInSync /\ FileHolds => ReopenRestores
  <2> SUFFICES ASSUME TypeOK, IndexInSync, LabelsInSync, FileHolds, Alive, Persisting,
                      sessionFile \notin damaged, HasAssistant(fileEntries)
               PROVE  /\ IndexOf(LoadEntriesFromFile(disk[sessionFile])) = byId
                      /\ LabelsOf(LoadEntriesFromFile(disk[sessionFile])) = labelsById
    BY DEF ReopenRestores
  <2>1. Holds(disk[sessionFile].lines, fileEntries, flushed) /\ flushed
    BY DEF FileHolds, Holds
  <2>2. /\ LoadEntriesFromFile(disk[sessionFile]) = disk[sessionFile].lines
        /\ HoldsAll(disk[sessionFile].lines, fileEntries)
    BY <2>1 DEF Holds, LoadEntriesFromFile
  <2>3. disk[sessionFile].lines \in Seq(Line) /\ fileEntries \in Seq(Line)
    BY ContentLines DEF TypeOK, Persisting
  <2> QED
    BY <2>2, <2>3, HoldsAllReads DEF IndexInSync, LabelsInSync
<1> QED
  BY <1>1, TypeCorrect, IndexStaysInSync, LabelsStayInSync, FilesStayTrue, PTL

-----------------------------------------------------------------------------
(* Parents come first.                                                     *)

IdsOf(es) == {es[k].id : k \in EntryAt(es)}

(* Of the entries whose parent is among I, the parent comes first.         *)
ClosedUnder(ls, I) ==
    \A k \in EntryAt(ls) :
        ls[k].parentId \in I => \E j \in EntryAt(ls) : j < k /\ ls[j].id = ls[k].parentId

(* Parents come first in ls, still when lines of es are written after it.  *)
Sound(ls, es) == ClosedUnder(ls, IdsOf(ls) \cup IdsOf(es))

(* Parents were handed out before their children, all of them before n.    *)
Older(ls, n) == \A k \in EntryAt(ls) : ls[k].parentId < ls[k].id /\ ls[k].id < n

(* What a write of new after base can leave: a part of base, and new from  *)
(* its first or second line on.                                            *)
Splice(base, new, m, a, n) == SubSeq(base, 1, m) \o SubSeq(new, a, n)

(* The lines of a splice. *)
LEMMA SpliceLines ==
    ASSUME NEW base \in Seq(Line), NEW new \in Seq(Line), NEW m \in 0 .. Len(base),
           NEW a \in {1, 2}, NEW n \in 0 .. Len(new)
    PROVE  LET s == Splice(base, new, m, a, n) IN
           /\ s \in Seq(Line)
           /\ \A k \in 1 .. Len(s) : \/ k <= m /\ k \in 1 .. Len(base) /\ s[k] = base[k]
                                     \/ \E q \in a .. n : k = m + q - a + 1 /\ s[k] = new[q]
           /\ \A k \in 1 .. m : k \in 1 .. Len(s) /\ s[k] = base[k]
           /\ \A q \in a .. n : m + q - a + 1 \in 1 .. Len(s) /\ s[m + q - a + 1] = new[q]
<1> DEFINE s     == Splice(base, new, m, a, n)
           front == SubSeq(base, 1, m)
           back  == SubSeq(new, a, n)
           d     == IF a <= n THEN n - a + 1 ELSE 0
<1>1. Len(base) \in Nat /\ Len(new) \in Nat /\ m \in Nat /\ n \in Nat /\ a \in Nat /\ d \in Nat
  BY LenProperties
<1>2. /\ front \in Seq(Line) /\ Len(front) = m
      /\ \A k \in 1 .. m : front[k] = base[k]
  <2>1. \A k \in 1 .. m : base[k] \in Line
    BY <1>1, ElementOfSeq
  <2>2. /\ front \in Seq(Line) /\ Len(front) = (IF 1 <= m THEN m - 1 + 1 ELSE 0)
        /\ \A k \in 1 .. m - 1 + 1 : front[k] = base[1 + k - 1]
    BY <1>1, <2>1, SubSeqProperties
  <2> HIDE DEF front
  <2> QED
    BY <1>1, <2>2
<1>3. /\ back \in Seq(Line) /\ Len(back) = d
      /\ \A k \in 1 .. d : back[k] = new[a + k - 1]
  <2>1. \A k \in a .. n : new[k] \in Line
    BY <1>1, ElementOfSeq
  <2>2. /\ back \in Seq(Line) /\ Len(back) = (IF a <= n THEN n - a + 1 ELSE 0)
        /\ \A k \in 1 .. n - a + 1 : back[k] = new[a + k - 1]
    BY <1>1, <2>1, SubSeqProperties
  <2> HIDE DEF back
  <2> QED
    BY <1>1, <2>2
<1> HIDE DEF front, back
<1>4. s = front \o back
  BY DEF Splice, front, back
<1> HIDE DEF s
<1>5. /\ s \in Seq(Line) /\ Len(s) = m + d
      /\ \A k \in 1 .. m + d : s[k] = IF k <= m THEN front[k] ELSE back[k - m]
  <2> HIDE DEF d
  <2>1. /\ front \o back \in Seq(Line) /\ Len(front \o back) = m + d
        /\ \A k \in 1 .. m + d : (front \o back)[k] = IF k <= m THEN front[k] ELSE back[k - m]
    BY <1>2, <1>3, ConcatProperties
  <2> QED
    BY <1>4, <2>1
<1>6. ASSUME NEW k \in 1 .. m
      PROVE  k \in 1 .. Len(s) /\ s[k] = base[k] /\ k \in 1 .. Len(base)
  <2>1. k \in 1 .. m + d /\ k <= m /\ k \in 1 .. Len(base)
    BY <1>1
  <2> QED
    BY <1>2, <1>5, <2>1
<1>7. ASSUME NEW q \in a .. n
      PROVE  m + q - a + 1 \in 1 .. Len(s) /\ s[m + q - a + 1] = new[q]
  <2> DEFINE k == m + q - a + 1
  <2>1. /\ k \in 1 .. m + d /\ ~(k <= m) /\ k - m \in 1 .. d /\ a + (k - m) - 1 = q
    BY <1>1
  <2> HIDE DEF k
  <2>2. s[k] = new[q]
    BY <1>3, <1>5, <2>1
  <2> QED
    BY <1>5, <2>1, <2>2 DEF k
<1>8. ASSUME NEW k \in 1 .. Len(s)
      PROVE  \/ k <= m /\ k \in 1 .. Len(base) /\ s[k] = base[k]
             \/ \E q \in a .. n : k = m + q - a + 1 /\ s[k] = new[q]
  <2>1. k \in 1 .. m + d
    BY <1>5
  <2>2. CASE k <= m
    <3>1. k \in 1 .. m
      BY <1>1, <2>1, <2>2
    <3> QED
      BY <1>6, <2>2, <3>1
  <2>3. CASE ~(k <= m)
    <3> DEFINE q == k - m + a - 1
    <3>1. q \in a .. n /\ k = m + q - a + 1
      BY <1>1, <2>1, <2>3
    <3> HIDE DEF q
    <3> QED
      BY <1>7, <3>1
  <2> QED
    BY <2>2, <2>3
<1> QED
  BY <1>5, <1>6, <1>7, <1>8 DEF s

(* A splice is sound: parents in base come first, and parents in new do,   *)
(* also when the first line of new is lost with the end of base, since it  *)
(* is a header or all there is.                                            *)
LEMMA SpliceSound ==
    ASSUME NEW base \in Seq(Line), NEW new \in Seq(Line), NEW m \in 0 .. Len(base),
           NEW a \in {1, 2}, NEW n \in 0 .. Len(new), Sound(base, new), Sound(new, <<>>),
           new # <<>> => new[1] = Header \/ Len(new) = 1
    PROVE  Sound(Splice(base, new, m, a, n), new)
<1> DEFINE s == Splice(base, new, m, a, n)
<1>1. Len(base) \in Nat /\ Len(new) \in Nat /\ m \in Nat /\ n \in Nat /\ a \in Nat
  BY LenProperties
<1>2. /\ s \in Seq(Line)
      /\ \A k \in 1 .. Len(s) : \/ k <= m /\ k \in 1 .. Len(base) /\ s[k] = base[k]
                                \/ \E q \in a .. n : k = m + q - a + 1 /\ s[k] = new[q]
      /\ \A k \in 1 .. m : k \in 1 .. Len(s) /\ s[k] = base[k]
      /\ \A q \in a .. n : m + q - a + 1 \in 1 .. Len(s) /\ s[m + q - a + 1] = new[q]
  BY SpliceLines, ZenonT(30)
<1> HIDE DEF s
<1> USE DEF EntryAt
<1>3. ASSUME NEW p \in IdsOf(s) \cup IdsOf(new)
      PROVE  \/ p \in IdsOf(new)
             \/ \E j \in EntryAt(s) : j <= m /\ j \in EntryAt(base) /\ s[j].id = p
  <2>1. CASE p \in IdsOf(new)
    BY <2>1
  <2>2. CASE p \in IdsOf(s)
    <3>1. PICK j \in EntryAt(s) : s[j].id = p
      BY <2>2 DEF IdsOf
    <3>2. CASE j <= m /\ j \in 1 .. Len(base) /\ s[j] = base[j]
      BY <3>1, <3>2
    <3>3. ASSUME NEW q \in a .. n, s[j] = new[q]
          PROVE  p \in IdsOf(new)
      <4>1. q \in EntryAt(new)
        BY <1>1, <3>1, <3>3
      <4> QED
        BY <3>1, <3>3, <4>1 DEF IdsOf
    <3> QED
      BY <1>2, <3>1, <3>2, <3>3
  <2> QED
    BY <2>1, <2>2
<1> SUFFICES ASSUME NEW k \in EntryAt(s), s[k].parentId \in IdsOf(s) \cup IdsOf(new)
             PROVE  \E j \in EntryAt(s) : j < k /\ s[j].id = s[k].parentId
  BY DEF Sound, ClosedUnder, s
<1> DEFINE p == s[k].parentId
<1>4. CASE k <= m /\ k \in 1 .. Len(base) /\ s[k] = base[k]
  <2>1. k \in EntryAt(base) /\ base[k].parentId = p
    BY <1>4
  <2>2. p \in IdsOf(base) \cup IdsOf(new)
    <3>1. \A j \in EntryAt(s) : j <= m /\ j \in EntryAt(base) => s[j].id \in IdsOf(base)
      <4>1. \A j \in EntryAt(s) : j <= m => s[j] = base[j]
        BY <1>1, <1>2
      <4> QED
        BY <4>1 DEF IdsOf
    <3> QED
      BY <1>3, <3>1
  <2>3. PICK j \in EntryAt(base) : j < k /\ base[j].id = p
    BY <2>1, <2>2 DEF Sound, ClosedUnder
  <2>4. j \in 1 .. m
    BY <1>1, <1>4, <2>3
  <2> QED
    BY <1>2, <2>3, <2>4
<1>5. ASSUME NEW q \in a .. n, k = m + q - a + 1, s[k] = new[q]
      PROVE  \E j \in EntryAt(s) : j < k /\ s[j].id = p
  <2>1. q \in EntryAt(new) /\ new[q].parentId = p
    BY <1>1, <1>5
  <2>2. CASE p \in IdsOf(new)
    <3>1. PICK j \in EntryAt(new) : j < q /\ new[j].id = p
      BY <2>1, <2>2 DEF Sound, ClosedUnder
    <3>2. j \in a .. n
      <4>1. j \in 1 .. Len(new) /\ j < q /\ q \in a .. n /\ new # <<>>
        BY <3>1, EmptySeq
      <4>2. a = 2 => j # 1
        <5>1. CASE new[1] = Header
          BY <3>1, <5>1 DEF Header
        <5>2. CASE Len(new) = 1
          BY <1>1, <4>1, <5>2
        <5> QED
          BY <4>1, <5>1, <5>2
      <4> QED
        BY <1>1, <4>1, <4>2
    <3>3. m + j - a + 1 \in EntryAt(s) /\ s[m + j - a + 1] = new[j]
      BY <1>2, <3>1, <3>2
    <3>4. m + j - a + 1 < k
      BY <1>1, <1>5, <3>1, <3>2
    <3> QED
      BY <3>1, <3>3, <3>4
  <2>3. ASSUME NEW j \in EntryAt(s), j <= m, s[j].id = p
        PROVE  j < k
    BY <1>1, <1>5, <2>3
  <2> QED
    BY <1>3, <2>2, <2>3
<1> QED
  BY <1>2, <1>4, <1>5

(* Its entries are as old as those of its parts.                           *)
LEMMA SpliceOlder ==
    ASSUME NEW base \in Seq(Line), NEW new \in Seq(Line), NEW m \in 0 .. Len(base),
           NEW a \in {1, 2}, NEW n \in 0 .. Len(new), NEW i, Older(base, i), Older(new, i)
    PROVE  Older(Splice(base, new, m, a, n), i)
<1> DEFINE s == Splice(base, new, m, a, n)
<1> SUFFICES ASSUME NEW k \in EntryAt(s)
             PROVE  s[k].parentId < s[k].id /\ s[k].id < i
  BY DEF Older
<1>1. \/ k \in 1 .. Len(base) /\ s[k] = base[k]
      \/ \E q \in a .. n : s[k] = new[q]
  BY SpliceLines DEF EntryAt
<1> HIDE DEF s
<1>2. Len(new) \in Nat /\ a \in Nat /\ a >= 1 /\ s[k].type # "session"
  BY LenProperties DEF EntryAt, s
<1>3. \A q \in a .. n : q \in 1 .. Len(new)
  BY <1>2
<1> QED
  BY <1>1, <1>2, <1>3 DEF Older, EntryAt

(* Concatenation of lines is associative. *)
LEMMA LinesAssociate ==
    \A x, y, z \in Seq(Line) : (x \o y) \o z = x \o (y \o z)
<1> TAKE x, y, z \in Seq(Line)
<1> QED
  BY ConcatAssociative

(* Whatever comes of writing ls after c, the file holds a splice of them.  *)
LEMMA OutcomeShape ==
    ASSUME NEW c \in Content, NEW ls \in Seq(Line), NEW o \in Outcomes(c, ls)
    PROVE  \E m \in 0 .. Len(c.lines), a \in {1, 2}, n \in 0 .. Len(ls) :
              o.content.lines = Splice(c.lines, ls, m, a, n)
<1> DEFINE base == c.lines
           L    == Len(ls)
<1>1. base \in Seq(Line) /\ Len(base) \in Nat /\ L \in Nat /\ Keep(c) \in Seq(Line)
  BY ContentLines, LenProperties, KeepProperties
<1>2. PICK m \in 0 .. Len(base) : Keep(c) = SubSeq(base, 1, m)
  <2>1. IsPrefix(Keep(c), base) /\ Len(Keep(c)) \in Nat
    BY <1>1, KeepProperties, LenProperties
  <2>2. Len(Keep(c)) \in 0 .. Len(base) /\ Keep(c) = SubSeq(base, 1, Len(Keep(c)))
    BY <1>1, <2>1 DEF IsPrefix
  <2> QED
    BY <2>2
<1>3. SubSeq(base, 1, Len(base)) = base /\ Len(base) \in 0 .. Len(base)
  BY <1>1, SubSeqFull
<1>4. SubSeq(ls, 1, 0) = <<>> /\ 0 \in 0 .. L
  BY <1>1, SubSeqEmpty
<1>5. base \o <<>> = base /\ Keep(c) \o <<>> = Keep(c)
  BY <1>1, ConcatEmptySeq
<1>6. ASSUME NEW n \in 0 .. L
      PROVE  \/ n = 0 /\ AppendLines(c, SubSeq(ls, 1, n)) = c
             \/ \E a \in {1, 2} : /\ n # 0 /\ AppendLines(c, SubSeq(ls, 1, n)).tail = "clean"
                                 /\ AppendLines(c, SubSeq(ls, 1, n)).lines = Keep(c) \o SubSeq(ls, a, n)
  <2>1. CASE n = 0
    BY <1>4, <2>1 DEF AppendLines
  <2>2. CASE n # 0
    <3> DEFINE part == SubSeq(ls, 1, n)
    <3>1. n \in 1 .. L /\ 1 \in 1 .. L
      BY <1>1, <2>2
    <3>2. \A i \in 1 .. n : ls[i] \in Line
      BY <1>1, <3>1, ElementOfSeq
    <3>3. part \in Seq(Line) /\ Len(part) = IF 1 <= n THEN n - 1 + 1 ELSE 0
      BY <3>1, <3>2, SubSeqProperties
    <3>4. part # <<>>
      BY <3>1, <3>3, EmptySeq
    <3>5. Tail(part) = SubSeq(ls, 2, n)
      BY <1>1, <3>1, HeadTailOfSubSeq
    <3> HIDE DEF part
    <3>6. AppendLines(c, part) = [exists |-> TRUE, tail |-> "clean",
             lines |-> Keep(c) \o (IF c.tail = "clean" THEN part ELSE Tail(part))]
      BY <3>4 DEF AppendLines
    <3>7. CASE c.tail = "clean"
      <4>1. AppendLines(c, part).tail = "clean" /\ AppendLines(c, part).lines = Keep(c) \o part
        BY <3>6, <3>7
      <4> QED
        BY <2>2, <4>1, Zenon DEF part
    <3>8. CASE c.tail # "clean"
      <4>1. AppendLines(c, part).tail = "clean" /\ AppendLines(c, part).lines = Keep(c) \o Tail(part)
        BY <3>6, <3>8
      <4> QED
        BY <2>2, <3>5, <4>1, Zenon DEF part
    <3> QED
      BY <3>7, <3>8
  <2> QED
    BY <2>1, <2>2
<1> HIDE DEF base, L
<1>7. CASE o = [content |-> AppendLines(c, ls), end |-> "ok"]
  <2>1. SubSeq(ls, 1, L) = ls /\ L \in 0 .. L
    BY <1>1, SubSeqFull DEF L
  <2>2. CASE o.content = c
    BY <1>3, <1>4, <1>5, <2>2 DEF Splice, base, L
  <2>3. ASSUME NEW a \in {1, 2}, o.content.lines = Keep(c) \o SubSeq(ls, a, L)
        PROVE  o.content.lines = Splice(base, ls, m, a, L)
    BY <1>2, <2>3, Zenon DEF Splice
  <2> QED
    BY <1>6, <1>7, <2>1, <2>2, <2>3 DEF base, L
<1>8. CASE o \in [content: Interrupted(c, ls), end: Faults]
  <2>1. PICK n \in 0 .. L - 1 :
          o.content \in {AppendLines(c, SubSeq(ls, 1, n))}
                          \cup TornLine(AppendLines(c, SubSeq(ls, 1, n)), ls[n + 1])
    BY <1>8 DEF Interrupted, L
  <2> DEFINE written == AppendLines(c, SubSeq(ls, 1, n))
  <2>2. n \in Nat /\ n \in 0 .. L /\ n + 1 \in 0 .. L /\ n + 1 \in 1 .. L
    BY <1>1, <2>1
  <2>3. ls[n + 1] \in Line
    BY <2>2, ElementOfSeq DEF L
  <2> HIDE DEF written
  <2>4. CASE n = 0 /\ written = c
    <3>1. CASE o.content = written
      BY <1>3, <1>4, <1>5, <2>4, <3>1 DEF Splice, base, L
    <3>2. CASE o.content = [exists |-> TRUE, tail |-> "fragment", lines |-> Keep(written)]
      <4>1. o.content.lines = Splice(base, ls, m, 1, 0)
        BY <1>2, <1>4, <1>5, <2>4, <3>2 DEF Splice
      <4> QED
        BY <1>4, <4>1 DEF base, L
    <3>3. CASE o.content = [exists |-> TRUE, tail |-> "unterminated",
                            lines |-> Append(written.lines, ls[n + 1])]
      <4>1. o.content.lines = Append(base, ls[1])
        BY <2>4, <3>3 DEF base
      <4>2. SubSeq(ls, 1, 1) = <<ls[1]>>
        <5>1. SubSeq(ls, 1, 1) = SubSeq(ls, 1, 0) \o <<ls[1]>>
          <6>1. 1 \in 1 .. Len(ls) /\ 1 - 1 = 0
            BY <1>1, <2>2 DEF L
          <6> QED
            BY <6>1, SubSeqRecursiveSecond
        <5>2. <<ls[1]>> \in Seq(Line)
          BY <2>3, <2>4
        <5> QED
          BY <1>4, <5>1, <5>2, ConcatEmptySeq
      <4>3. Append(base, ls[1]) = base \o <<ls[1]>>
        BY <1>1, <2>3, <2>4, AppendIsConcat
      <4>4. o.content.lines = Splice(base, ls, Len(base), 1, 1)
        BY <1>3, <4>1, <4>2, <4>3 DEF Splice
      <4> QED
        BY <1>3, <2>2, <2>4, <4>4 DEF base, L
    <3> QED
      BY <2>1, <3>1, <3>2, <3>3 DEF TornLine, written
  <2>5. ASSUME NEW a \in {1, 2}, n # 0, written.tail = "clean",
               written.lines = Keep(c) \o SubSeq(ls, a, n)
        PROVE  \E k \in 0 .. L : o.content.lines = Splice(base, ls, m, a, k)
    <3>1. written.lines = Keep(c) \o SubSeq(ls, a, n) /\ Keep(written) = written.lines
      BY <2>5 DEF Keep
    <3>2. CASE o.content = written \/ o.content = [exists |-> TRUE, tail |-> "fragment", lines |-> Keep(written)]
      <4>1. o.content.lines = written.lines
        <5>1. CASE o.content = [exists |-> TRUE, tail |-> "fragment", lines |-> Keep(written)]
          <6>1. o.content.lines = Keep(written)
            BY <5>1
          <6> QED
            BY <3>1, <6>1
        <5> QED
          BY <3>2, <5>1
      <4>2. o.content.lines = Splice(base, ls, m, a, n)
        BY <1>2, <3>1, <4>1, Zenon DEF Splice
      <4> QED
        BY <2>2, <4>2
    <3>3. CASE o.content = [exists |-> TRUE, tail |-> "unterminated",
                            lines |-> Append(written.lines, ls[n + 1])]
      <4>1. SubSeq(ls, a, n) \in Seq(Line)
        <5>1. \A i \in a .. n : ls[i] \in Line
          <6>1. \A i \in a .. n : i \in 1 .. L
            BY <1>1, <2>2
          <6> QED
            BY <6>1, ElementOfSeq DEF L
        <5> QED
          BY <2>2, <5>1, SubSeqProperties
      <4>2. SubSeq(ls, a, n + 1) = SubSeq(ls, a, n) \o <<ls[n + 1]>>
        <5>1. /\ a \in 1 .. Len(ls) /\ n + 1 \in a .. Len(ls)
              /\ (n + 1) - 1 = n
          BY <1>1, <2>2, <2>5 DEF L
        <5> HIDE DEF L
        <5>2. SubSeq(ls, a, n + 1) = SubSeq(ls, a, (n + 1) - 1) \o <<ls[n + 1]>>
          BY <5>1, SubSeqRecursiveSecond
        <5> QED
          BY <5>1, <5>2
      <4>3. <<ls[n + 1]>> \in Seq(Line) /\ Keep(c) \o SubSeq(ls, a, n) \in Seq(Line)
        BY <1>1, <2>3, <4>1, ConcatProperties
      <4>4. Append(written.lines, ls[n + 1]) = (Keep(c) \o SubSeq(ls, a, n)) \o <<ls[n + 1]>>
        BY <2>3, <3>1, <4>3, AppendIsConcat
      <4>5. (Keep(c) \o SubSeq(ls, a, n)) \o <<ls[n + 1]>> = Keep(c) \o (SubSeq(ls, a, n) \o <<ls[n + 1]>>)
        BY <1>1, <4>1, <4>3, LinesAssociate, ZenonT(30)
      <4>6. o.content.lines = Append(written.lines, ls[n + 1])
        BY <3>3
      <4>7. o.content.lines = Splice(base, ls, m, a, n + 1)
        BY <1>2, <4>2, <4>4, <4>5, <4>6, Zenon DEF Splice
      <4> QED
        BY <2>2, <4>7
    <3> QED
      BY <2>1, <3>2, <3>3 DEF TornLine, written
  <2> QED
    BY <1>6, <2>2, <2>4, <2>5 DEF base, L, written
<1> QED
  BY <1>7, <1>8 DEF Outcomes

(* With no line after it, or without lines at all.                         *)
LEMMA SoundBasics ==
    ASSUME NEW ls \in Seq(Line), NEW es \in Seq(Line)
    PROVE  /\ Sound(<<>>, es) /\ Older(<<>>, nextId) /\ Sound(<<Header>>, es)
           /\ \A n : Older(<<Header>>, n) /\ Older(<<>>, n)
           /\ Sound(ls, es) => Sound(ls, <<>>)
           /\ Sound(ls, <<>>) => Sound(ls, ls)
<1>1. EntryAt(<<>>) = {} /\ EntryAt(<<Header>>) = {}
  BY EmptySeq DEF EntryAt, Header
<1>2. IdsOf(<<>>) = {}
  BY <1>1 DEF IdsOf
<1> QED
  BY <1>1, <1>2 DEF Sound, ClosedUnder, Older

(* A new entry, with an id nothing names yet.                              *)
NewIn(e) == e.id = nextId /\ e.parentId < nextId

(* One entry more.                                                         *)
LEMMA MoreIds ==
    ASSUME NEW es \in Seq(Line), NEW e \in Entry
    PROVE  /\ EntryAt(Append(es, e)) = EntryAt(es) \cup {Len(es) + 1}
           /\ \A k \in EntryAt(es) : Append(es, e)[k] = es[k] /\ k \in 1 .. Len(es)
           /\ Append(es, e)[Len(es) + 1] = e /\ Len(es) \in Nat
           /\ IdsOf(Append(es, e)) = IdsOf(es) \cup {e.id}
<1>1. e \in Line /\ e.type # "session"
  BY DEF Line, Entry, Types, SettingTypes, ExtensionTypes
<1> DEFINE more == Append(es, e)
           n    == Len(es)
<1>2. /\ n \in Nat /\ Len(more) = n + 1 /\ more[n + 1] = e
      /\ \A k \in 1 .. n : more[k] = es[k]
  BY <1>1, AppendProperties, LenProperties
<1> HIDE DEF more
<1>3. EntryAt(more) = EntryAt(es) \cup {n + 1} /\ EntryAt(es) \in SUBSET (1 .. n)
  BY <1>1, <1>2 DEF EntryAt
<1>4. \A k \in EntryAt(es) : more[k] = es[k]
  BY <1>2, <1>3
<1>5. IdsOf(more) = IdsOf(es) \cup {e.id}
  <2>1. \A x \in IdsOf(more) : x \in IdsOf(es) \cup {e.id}
    BY <1>2, <1>3, <1>4 DEF IdsOf
  <2>2. \A x \in IdsOf(es) : x \in IdsOf(more)
    BY <1>3, <1>4 DEF IdsOf
  <2>3. e.id \in IdsOf(more)
    BY <1>2, <1>3 DEF IdsOf
  <2> QED
    BY <2>1, <2>2, <2>3
<1> QED
  BY <1>2, <1>3, <1>4, <1>5 DEF more

(* A new entry comes after its parent, and is nobody's parent.             *)
LEMMA AppendSound ==
    ASSUME NEW es \in Seq(Line), NEW ls \in Seq(Line), NEW e \in Entry, NewIn(e), nextId \in Nat,
           Older(es, nextId), Older(ls, nextId)
    PROVE  /\ Sound(es, <<>>) => Sound(Append(es, e), <<>>)
           /\ Sound(ls, es) => Sound(ls, Append(es, e))
           /\ Sound(ls, <<>>) => Sound(ls, <<e>>)
           /\ Sound(<<e>>, <<>>)
           /\ Older(Append(es, e), nextId + 1) /\ Older(<<e>>, nextId + 1) /\ Older(ls, nextId + 1)
<1> DEFINE n == Len(es)
           more == Append(es, e)
<1>1. /\ EntryAt(more) = EntryAt(es) \cup {n + 1} /\ n \in Nat
      /\ \A k \in EntryAt(es) : more[k] = es[k] /\ k \in 1 .. n
      /\ more[n + 1] = e /\ IdsOf(more) = IdsOf(es) \cup {e.id}
  BY MoreIds
<1>2. IdsOf(<<>>) = {}
  <2>1. EntryAt(<<>>) = {}
    BY EmptySeq DEF EntryAt
  <2> QED
    BY <2>1 DEF IdsOf
<1>3. e.type # "session" /\ e.id \in Nat /\ e.parentId \in Nat
  BY DEF Entry, Types, SettingTypes, ExtensionTypes, Ids, Null
<1>4. /\ EntryAt(<<e>>) = {1} /\ <<e>>[1] = e
      /\ IdsOf(<<e>>) = {e.id}
  <2>1. EntryAt(<<e>>) = {1} /\ <<e>>[1] = e
    BY <1>3 DEF EntryAt
  <2> QED
    BY <2>1 DEF IdsOf
<1>5. \A k \in EntryAt(ls) : ls[k] \in Entry /\ ls[k].parentId \in Nat /\ ls[k].id \in Nat
  BY EntryAtProperties DEF Entry, Ids, Null
<1>6. \A k \in EntryAt(es) : es[k] \in Entry /\ es[k].parentId \in Nat /\ es[k].id \in Nat
  BY EntryAtProperties DEF Entry, Ids, Null
<1> HIDE DEF more
<1>7. \A k \in EntryAt(ls) : ls[k].parentId # e.id
  BY <1>5 DEF Older, NewIn
<1>8. \A k \in EntryAt(es) : es[k].parentId # e.id
  BY <1>6 DEF Older, NewIn
<1>9. ASSUME Sound(es, <<>>)
      PROVE  Sound(more, <<>>)
  <2> SUFFICES ASSUME NEW k \in EntryAt(more), more[k].parentId \in IdsOf(more)
               PROVE  \E j \in EntryAt(more) : j < k /\ more[j].id = more[k].parentId
    BY <1>2 DEF Sound, ClosedUnder
  <2>1. CASE k \in EntryAt(es)
    <3>1. es[k].parentId \in IdsOf(es)
      BY <1>1, <1>8, <2>1
    <3>2. PICK j \in EntryAt(es) : j < k /\ es[j].id = es[k].parentId
      BY <1>9, <2>1, <3>1 DEF Sound, ClosedUnder
    <3> QED
      BY <1>1, <2>1, <3>2
  <2>2. CASE k = n + 1
    <3>1. e.parentId \in IdsOf(es)
      BY <1>1, <1>3, <2>2 DEF NewIn
    <3>2. PICK j \in EntryAt(es) : es[j].id = e.parentId
      BY <3>1 DEF IdsOf
    <3> QED
      BY <1>1, <2>2, <3>2
  <2> QED
    BY <1>1, <2>1, <2>2
<1>10. Sound(ls, es) => Sound(ls, more)
  BY <1>1, <1>7 DEF Sound, ClosedUnder
<1>11. Sound(ls, <<>>) => Sound(ls, <<e>>)
  BY <1>2, <1>4, <1>7 DEF Sound, ClosedUnder
<1>12. Sound(<<e>>, <<>>)
  BY <1>2, <1>3, <1>4 DEF Sound, ClosedUnder, NewIn
<1>13. Older(more, nextId + 1)
  <2> SUFFICES ASSUME NEW k \in EntryAt(more)
               PROVE  more[k].parentId < more[k].id /\ more[k].id < nextId + 1
    BY DEF Older
  <2>1. CASE k \in EntryAt(es)
    BY <1>1, <1>6, <2>1 DEF Older
  <2>2. CASE k = n + 1
    BY <1>1, <1>3, <2>2 DEF NewIn
  <2> QED
    BY <1>1, <2>1, <2>2
<1>14. Older(<<e>>, nextId + 1)
  BY <1>3, <1>4 DEF Older, NewIn
<1>15. Older(ls, nextId + 1)
  BY <1>5 DEF Older
<1> QED
  BY <1>9, <1>10, <1>11, <1>12, <1>13, <1>14, <1>15 DEF more

(* Older ids are older still later on.                                     *)
LEMMA OlderGrows ==
    ASSUME NEW ls \in Seq(Line), NEW m \in Nat, NEW n \in Nat, m <= n, Older(ls, m)
    PROVE  Older(ls, n)
<1>1. \A k \in EntryAt(ls) : ls[k].id \in Nat
  BY EntryAtProperties DEF Entry, Ids
<1> QED
  BY <1>1 DEF Older

(* Where ids do not decrease, parents come first.                          *)
LEMMA IncreasingSound ==
    ASSUME NEW ls \in Seq(Line), NEW n, Older(ls, n),
           \A q, r \in EntryAt(ls) : q <= r => ls[q].id <= ls[r].id
    PROVE  Sound(ls, <<>>)
<1>1. \A k \in EntryAt(ls) : k \in Nat /\ ls[k].id \in Nat /\ ls[k].parentId \in Nat
  BY EntryAtProperties DEF EntryAt, Entry, Ids, Null
<1>2. IdsOf(<<>>) = {}
  <2>1. EntryAt(<<>>) = {}
    BY EmptySeq DEF EntryAt
  <2> QED
    BY <2>1 DEF IdsOf
<1> SUFFICES ASSUME NEW k \in EntryAt(ls), ls[k].parentId \in IdsOf(ls)
             PROVE  \E j \in EntryAt(ls) : j < k /\ ls[j].id = ls[k].parentId
  BY <1>2 DEF Sound, ClosedUnder
<1>3. PICK j \in EntryAt(ls) : ls[j].id = ls[k].parentId
  BY DEF IdsOf
<1>4. ls[j].id < ls[k].id
  BY <1>3 DEF Older
<1>5. ~(k <= j)
  BY <1>1, <1>4
<1> QED
  BY <1>1, <1>3, <1>5

(* The number of entries up to position p.                                 *)
Rank(es, p) == Cardinality({q \in EntryAt(es) : q <= p})

(* Positions of entries are ranked in their order.                         *)
LEMMA RankProperties ==
    ASSUME NEW es \in Seq(Line)
    PROVE  /\ Cardinality(EntryAt(es)) \in Nat
           /\ \A p \in EntryAt(es) : Rank(es, p) \in 1 .. Cardinality(EntryAt(es))
           /\ \A p, q \in EntryAt(es) : p < q => Rank(es, p) < Rank(es, q)
<1> DEFINE at     == EntryAt(es)
           upTo(p) == {q \in at : q <= p}
<1>1. at \in SUBSET (1 .. Len(es)) /\ Len(es) \in Nat
  BY EntryAtProperties, LenProperties
<1>2. IsFiniteSet(at)
  <2>1. IsFiniteSet(1 .. Len(es))
    BY <1>1, FS_Interval
  <2> QED
    BY <1>1, <2>1, FS_Subset
<1> HIDE DEF at
<1>3. \A p : upTo(p) \in SUBSET at
  OBVIOUS
<1>4. \A p : IsFiniteSet(upTo(p)) /\ Cardinality(upTo(p)) <= Cardinality(at)
  BY <1>2, <1>3, FS_Subset
<1>5. Cardinality(at) \in Nat /\ \A p : Cardinality(upTo(p)) \in Nat
  BY <1>2, <1>4, FS_CardinalityType
<1>6. \A p \in at : Cardinality(upTo(p)) # 0
  <2> SUFFICES ASSUME NEW p \in at PROVE Cardinality(upTo(p)) # 0
    OBVIOUS
  <2>1. p \in upTo(p)
    BY <1>1
  <2> HIDE DEF upTo
  <2> QED
    BY <1>4, <2>1, FS_EmptySet
<1>7. ASSUME NEW p \in at, NEW q \in at, p < q
      PROVE  Cardinality(upTo(p)) < Cardinality(upTo(q))
  <2>1. upTo(p) \in SUBSET upTo(q) /\ q \in upTo(q) /\ q \notin upTo(p)
    <3>1. \A x \in at : x \in Nat
      BY <1>1
    <3>2. q <= q /\ ~(q <= p) /\ \A x \in at : x <= p => x <= q
      BY <1>7, <3>1
    <3> QED
      BY <3>2
  <2> HIDE DEF upTo
  <2>2. /\ Cardinality(upTo(p)) <= Cardinality(upTo(q))
        /\ Cardinality(upTo(p)) # Cardinality(upTo(q))
    BY <1>4, <2>1, FS_Subset
  <2> QED
    BY <1>5, <2>2
<1> HIDE DEF upTo
<1>8. \A p : Rank(es, p) = Cardinality(upTo(p))
  BY DEF Rank, upTo, at
<1> QED
  BY <1>4, <1>5, <1>6, <1>7, <1>8 DEF at

(* WithoutHeaders has the entries, each at its rank.                       *)
LEMMA WithoutHeadersLines ==
    ASSUME NEW es \in Seq(Line)
    PROVE  /\ \A p \in EntryAt(es) : /\ Rank(es, p) \in EntryAt(WithoutHeaders(es))
                                     /\ WithoutHeaders(es)[Rank(es, p)] = es[p]
           /\ \A k \in EntryAt(WithoutHeaders(es)) : \E p \in EntryAt(es) : Rank(es, p) = k
<1> DEFINE at     == EntryAt(es)
           N      == Cardinality(at)
           nth(k) == {p \in at : Cardinality({q \in at : q <= p}) = k}
           line(k) == IF nth(k) = {} THEN Header ELSE es[MaxOf(nth(k))]
           W      == WithoutHeaders(es)
<1>1. at \in SUBSET (1 .. Len(es)) /\ Len(es) \in Nat /\ W \in Seq(Line)
  BY EntryAtProperties, LenProperties, WithoutHeadersType
<1>2. /\ N \in Nat
      /\ \A p \in at : Rank(es, p) \in 1 .. N
      /\ \A p, q \in at : p < q => Rank(es, p) < Rank(es, q)
  BY RankProperties
<1>3. W = [k \in 1 .. N |-> line(k)]
  BY DEF WithoutHeaders
<1>4. \A p \in at : es[p].type # "session"
  BY DEF EntryAt
<1>5. \A k : nth(k) = {p \in at : Rank(es, p) = k}
  BY DEF Rank
<1> HIDE DEF W, N, at, nth
<1>6. Len(W) = N /\ \A k \in 1 .. N : W[k] = line(k)
  BY <1>2, <1>3
<1>7. \A p, q \in at : Rank(es, p) = Rank(es, q) => p = q
  <2> SUFFICES ASSUME NEW p \in at, NEW q \in at, Rank(es, p) = Rank(es, q), p # q
               PROVE  FALSE
    OBVIOUS
  <2>1. p \in Nat /\ q \in Nat /\ Rank(es, p) \in Nat /\ Rank(es, q) \in Nat
    BY <1>1, <1>2
  <2>2. p < q \/ q < p
    BY <2>1
  <2> QED
    BY <1>2, <2>1, <2>2
<1>8. ASSUME NEW p \in at
      PROVE  /\ Rank(es, p) \in EntryAt(W) /\ W[Rank(es, p)] = es[p]
  <2>1. nth(Rank(es, p)) = {p}
    BY <1>5, <1>7
  <2>2. MaxOf(nth(Rank(es, p))) = p
    <3>1. nth(Rank(es, p)) \in SUBSET (1 .. Len(es)) /\ nth(Rank(es, p)) # {}
      BY <1>1, <2>1
    <3>2. MaxOf(nth(Rank(es, p))) \in nth(Rank(es, p))
      BY <1>1, <3>1, MaxOfProperties
    <3> QED
      BY <2>1, <3>2
  <2>3. W[Rank(es, p)] = es[p]
    BY <1>2, <1>6, <2>1, <2>2
  <2> QED
    BY <1>2, <1>4, <1>6, <2>3 DEF EntryAt
<1>9. ASSUME NEW k \in EntryAt(W)
      PROVE  \E p \in at : Rank(es, p) = k
  <2>1. k \in 1 .. N /\ W[k].type # "session"
    BY <1>6 DEF EntryAt
  <2>2. nth(k) # {}
    BY <1>6, <2>1 DEF Header
  <2> QED
    BY <1>5, <2>2
<1> QED
  BY <1>8, <1>9 DEF W, at

(* What forkFrom writes is sound if what it read is.                       *)
LEMMA CopySound ==
    ASSUME NEW es \in Seq(Line), Sound(es, <<>>), NEW n, Older(es, n)
    PROVE  /\ Sound(<<Header>> \o WithoutHeaders(es), <<>>)
           /\ Older(<<Header>> \o WithoutHeaders(es), n)
<1> DEFINE W == WithoutHeaders(es)
           r(p) == Rank(es, p)
<1>1. /\ \A p \in EntryAt(es) : r(p) \in EntryAt(W) /\ W[r(p)] = es[p]
      /\ \A k \in EntryAt(W) : \E p \in EntryAt(es) : r(p) = k
      /\ \A p, q \in EntryAt(es) : p < q => r(p) < r(q)
  BY WithoutHeadersLines, RankProperties
<1>2. W \in Seq(Line) /\ <<Header>> \in Seq(Line) /\ <<>> \in Seq(Line)
  BY WithoutHeadersType, HeaderAlone, EmptySeq
<1>3. IdsOf(<<>>) = {}
  <2>1. EntryAt(<<>>) = {}
    BY EmptySeq DEF EntryAt
  <2> QED
    BY <2>1 DEF IdsOf
<1> HIDE DEF W, r
<1>4. IdsOf(W) \subseteq IdsOf(es)
  BY <1>1 DEF IdsOf
<1>5. Sound(W, <<>>)
  <2> SUFFICES ASSUME NEW k \in EntryAt(W), W[k].parentId \in IdsOf(W)
               PROVE  \E j \in EntryAt(W) : j < k /\ W[j].id = W[k].parentId
    BY <1>3 DEF Sound, ClosedUnder
  <2>1. PICK p \in EntryAt(es) : r(p) = k /\ W[k] = es[p]
    BY <1>1
  <2>2. PICK j \in EntryAt(es) : j < p /\ es[j].id = es[p].parentId
    BY <1>3, <1>4, <2>1 DEF Sound, ClosedUnder
  <2> QED
    BY <1>1, <2>1, <2>2
<1>6. Older(W, n)
  BY <1>1 DEF Older
<1> DEFINE H == <<Header>>
           s == H \o W
<1>7. Len(H) = 1 /\ Len(W) \in Nat /\ H[1].type = "session"
  BY <1>2, LenProperties DEF Header
<1> HIDE DEF H
<1>8. s \in Seq(Line) /\ Len(s) = 1 + Len(W)
      /\ \A k \in 1 .. 1 + Len(W) : s[k] = IF k <= 1 THEN H[k] ELSE W[k - 1]
  BY <1>2, <1>7, ConcatProperties DEF H
<1> HIDE DEF s
<1>9. /\ \A k \in EntryAt(s) : k - 1 \in EntryAt(W) /\ s[k] = W[k - 1] /\ k \in Int
      /\ \A k \in EntryAt(W) : k + 1 \in EntryAt(s) /\ s[k + 1] = W[k] /\ k \in Int
  <2>1. \A k \in EntryAt(s) : k - 1 \in EntryAt(W) /\ s[k] = W[k - 1] /\ k \in Int
    BY <1>7, <1>8 DEF EntryAt
  <2>2. \A k \in EntryAt(W) : k + 1 \in EntryAt(s) /\ s[k + 1] = W[k] /\ k \in Int
    BY <1>7, <1>8 DEF EntryAt
  <2> QED
    BY <2>1, <2>2
<1>10. Older(s, n)
  BY <1>6, <1>9 DEF Older
<1>11. Sound(s, <<>>)
  <2>1. IdsOf(s) \subseteq IdsOf(W)
    BY <1>9 DEF IdsOf
  <2> SUFFICES ASSUME NEW k \in EntryAt(s), s[k].parentId \in IdsOf(s)
               PROVE  \E j \in EntryAt(s) : j < k /\ s[j].id = s[k].parentId
    BY <1>3 DEF Sound, ClosedUnder
  <2>2. PICK j \in EntryAt(W) : j < k - 1 /\ W[j].id = W[k - 1].parentId
    BY <1>3, <1>5, <1>9, <2>1 DEF Sound, ClosedUnder
  <2>3. j + 1 < k
    BY <1>9, <2>2
  <2> QED
    BY <1>9, <2>2, <2>3
<1> QED
  BY <1>10, <1>11 DEF s, H, W

-----------------------------------------------------------------------------
(* What ParentsPrecede needs of memory and disk.                           *)

FilesSound == \A f \in Files : Sound(disk[f].lines, <<>>) /\ Older(disk[f].lines, nextId)

EntriesSound ==
    Alive => /\ fileEntries[1] = Header
             /\ Sound(fileEntries, <<>>) /\ Older(fileEntries, nextId)

(* The whole session may yet be written after what the file has.           *)
RestSound ==
    Alive /\ Persisting /\ ~(flushed /\ HasAssistant(fileEntries))
        => Sound(disk[sessionFile].lines, fileEntries)

ParentsInv == FilesSound /\ EntriesSound /\ RestSound

(* Writing sound lines after lines that stay sound keeps every file sound. *)
LEMMA WriteSound ==
    ASSUME TypeOK, FilesSound, NEW f, NEW c \in Content, NEW ls \in Seq(Line),
           NEW o \in Outcomes(c, ls), WriteFile(f, o), NEW n \in Nat, nextId <= n,
           Sound(c.lines, ls), Older(c.lines, n), Sound(ls, <<>>), Older(ls, n),
           ls # <<>> => ls[1] = Header \/ Len(ls) = 1
    PROVE  /\ \A g \in Files : Sound(disk'[g].lines, <<>>) /\ Older(disk'[g].lines, n)
           /\ f \in Files => Sound(disk'[f].lines, ls)
<1> DEFINE written == o.content.lines
<1>1. c.lines \in Seq(Line)
  BY ContentLines
<1>2. PICK m \in 0 .. Len(c.lines), a \in {1, 2}, k \in 0 .. Len(ls) :
        written = Splice(c.lines, ls, m, a, k)
  BY OutcomeShape
<1> HIDE DEF written
<1>3. /\ Splice(c.lines, ls, m, a, k) \in Seq(Line)
      /\ Sound(Splice(c.lines, ls, m, a, k), ls)
      /\ Older(Splice(c.lines, ls, m, a, k), n)
  BY <1>1, SpliceLines, SpliceSound, SpliceOlder
<1>4. written \in Seq(Line) /\ Sound(written, ls) /\ Older(written, n)
  BY <1>2, <1>3
<1>5. Sound(written, <<>>)
  BY <1>4, SoundBasics
<1>6. ASSUME NEW g \in Files
      PROVE  \/ g = f /\ disk'[g].lines = written
             \/ disk'[g].lines = disk[g].lines
  BY DEF WriteFile, TypeOK, written
<1>7. f \in Files => disk'[f].lines = written
  BY DEF WriteFile, TypeOK, written
<1>8. ASSUME NEW g \in Files
      PROVE  Sound(disk[g].lines, <<>>) /\ Older(disk[g].lines, n)
  <2>1. disk[g].lines \in Seq(Line) /\ nextId \in Nat
    BY ContentLines DEF TypeOK
  <2> QED
    BY <2>1, OlderGrows DEF FilesSound
<1>9. ASSUME NEW g \in Files
      PROVE  Sound(disk'[g].lines, <<>>) /\ Older(disk'[g].lines, n)
  BY <1>4, <1>5, <1>6, <1>8
<1> QED
  BY <1>4, <1>7, <1>9

(* An entry of the index is an entry of the list it was made from.         *)
LEMMA IndexedIds ==
    ASSUME NEW es \in Seq(Line), NEW i \in Ids, IndexOf(es)[i] # NoEntry
    PROVE  \E k \in EntryAt(es) : IndexOf(es)[i] = es[k] /\ es[k].id = i
<1> DEFINE at == {k \in EntryAt(es) : es[k].id = i}
<1>1. IndexOf(es)[i] = IF at = {} THEN NoEntry ELSE es[MaxOf(at)]
  BY DEF IndexOf
<1>2. at # {} /\ at \in SUBSET (1 .. Len(es)) /\ Len(es) \in Nat
  BY <1>1, EntryAtProperties, LenProperties
<1>3. MaxOf(at) \in at
  BY <1>2, MaxOfProperties
<1> QED
  BY <1>1, <1>2, <1>3

(* Every id the index knows was handed out.                                *)
LEMMA KnownIds ==
    ASSUME TypeOK, IndexInSync, EntriesSound, Alive, NEW i \in Ids, byId[i] # NoEntry
    PROVE  byId[i].id = i /\ byId[i].parentId < i /\ i < nextId /\ i \in IdsOf(fileEntries)
<1>1. fileEntries \in Seq(Line) /\ byId = IndexOf(fileEntries)
  BY DEF TypeOK, IndexInSync
<1>2. PICK k \in EntryAt(fileEntries) : byId[i] = fileEntries[k] /\ fileEntries[k].id = i
  BY <1>1, IndexedIds
<1> QED
  BY <1>2 DEF EntriesSound, Older, IdsOf

(* The entry an operation appends is new.                                  *)
LEMMA AppendsNew ==
    ASSUME TypeOK, IndexInSync, EntriesSound, Alive, NEW e \in Entry, e.id = nextId,
           e.parentId \in {Null, leafId} \/ Known(e.parentId)
    PROVE  NewIn(e) /\ nextId \in Nat
<1>1. nextId \in Nat /\ 0 < nextId
  BY BoundsAssumption DEF TypeOK
<1>2. CASE e.parentId = Null
  BY <1>1, <1>2 DEF NewIn, Null
<1>3. CASE e.parentId # Null
  <2>1. e.parentId \in Ids /\ byId[e.parentId] # NoEntry
    BY <1>3 DEF Entry, Known, IndexInSync
  <2> QED
    BY <1>1, <2>1, KnownIds DEF NewIn
<1> QED
  BY <1>2, <1>3

(* An append keeps parents first.                                          *)
LEMMA AppendKeepsParents ==
    ASSUME TypeOK, IndexInSync, ParentsInv, AppendStep
    PROVE  ParentsInv'
<1>1. PICK e \in Entry, labels \in [Ids -> Labels \cup {NoLabel}] :
        /\ CanAppend /\ e.id = nextId /\ AppendEntry(e, labels)
        /\ e.parentId \in {Null, leafId} \/ Known(e.parentId)
  BY DEF AppendStep
<1> DEFINE es == Append(fileEntries, e)
           ls == PersistLines(es, e)
           c  == FileContent(sessionFile)
           n  == nextId + 1
<1>2. PICK o \in Outcomes(c, ls) :
        /\ WriteFile(sessionFile, o)
        /\ \/ o.end = "kill" /\ Exit
           \/ /\ o.end # "kill"
              /\ fileEntries' = es
              /\ flushed' = IF o.end = "throw" THEN flushed ELSE FlushedAfter(es)
              /\ sessionFile' = sessionFile
        /\ nextId' = n
  BY <1>1 DEF AppendEntry
<1>3. Alive /\ NewIn(e) /\ nextId \in Nat /\ n \in Nat /\ nextId <= n
  <2>1. Alive
    BY <1>1 DEF CanAppend
  <2>2. NewIn(e) /\ nextId \in Nat
    BY <1>1, <2>1, AppendsNew DEF ParentsInv
  <2> QED
    BY <2>1, <2>2
<1>4. fileEntries \in Seq(Line) /\ es \in Seq(Line) /\ e \in Line /\ fileEntries # <<>>
  <2>1. e \in Line /\ fileEntries \in Seq(Line)
    BY DEF Line, TypeOK
  <2> QED
    BY <1>3, <2>1, AppendProperties DEF Alive
<1>5. ls \in Seq(Line) /\ (sessionFile = NoFile => ls = <<>>)
  BY <1>4, PersistLinesType
<1>6. c \in Content /\ c.lines \in Seq(Line) /\ (sessionFile \in Files => c = disk[sessionFile])
  BY ContentType, ContentLines DEF FileContent
<1>7. Older(c.lines, nextId) /\ Sound(c.lines, <<>>)
  <2>1. CASE sessionFile \in Files
    BY <1>6, <2>1 DEF ParentsInv, FilesSound
  <2>2. CASE sessionFile \notin Files
    <3>1. c.lines = <<>> /\ <<>> \in Seq(Line)
      BY <2>2, EmptySeq DEF FileContent, Absent
    <3> QED
      BY <3>1, SoundBasics
  <2> QED
    BY <2>1, <2>2
<1>8. /\ Sound(es, <<>>) /\ Older(es, n) /\ Sound(c.lines, <<e>>) /\ Sound(<<e>>, <<>>)
      /\ Older(<<e>>, n) /\ Older(c.lines, n)
      /\ Sound(c.lines, fileEntries) => Sound(c.lines, es)
  BY <1>3, <1>4, <1>6, <1>7, AppendSound DEF ParentsInv, EntriesSound
<1>9. es[1] = Header
  <2>1. Len(fileEntries) \in Nat /\ Len(fileEntries) # 0
    BY <1>4, EmptySeq, LenProperties
  <2>2. fileEntries[1] = Header
    BY <1>3 DEF ParentsInv, EntriesSound
  <2> QED
    BY <1>4, <2>1, <2>2, AppendProperties
<1>10. HasAssistant(fileEntries) => HasAssistant(es)
  <2>1. /\ Len(fileEntries) \in Nat /\ Len(es) = Len(fileEntries) + 1
        /\ \A k \in 1 .. Len(fileEntries) : es[k] = fileEntries[k]
    BY <1>4, AppendProperties, LenProperties
  <2> QED
    BY <2>1 DEF HasAssistant
<1> HIDE DEF es, c
<1>11. /\ Persisting /\ HasAssistant(es) /\ ~flushed => ls = es
       /\ Persisting /\ HasAssistant(es) /\ flushed => ls = <<e>>
       /\ ~(Persisting /\ HasAssistant(es)) => ls = <<>>
  BY DEF PersistLines
<1>12. Persisting => sessionFile \in Files
  BY DEF TypeOK, Persisting
<1>13. Persisting /\ ~(flushed /\ HasAssistant(fileEntries)) => Sound(c.lines, es)
  BY <1>3, <1>6, <1>8, <1>12 DEF ParentsInv, RestSound
<1> HIDE DEF ls
<1>14. /\ Sound(c.lines, ls) /\ Sound(ls, <<>>) /\ Older(ls, n)
       /\ ls # <<>> => ls[1] = Header \/ Len(ls) = 1
  <2>1. CASE Persisting /\ HasAssistant(es) /\ ~flushed
    BY <1>8, <1>9, <1>11, <1>13, <2>1
  <2>2. CASE Persisting /\ HasAssistant(es) /\ flushed
    BY <1>8, <1>11, <2>2
  <2>3. CASE ~(Persisting /\ HasAssistant(es))
    BY <1>6, <1>7, <1>11, <2>3, SoundBasics, EmptySeq
  <2> QED
    BY <2>1, <2>2, <2>3
<1>15. /\ \A g \in Files : Sound(disk'[g].lines, <<>>) /\ Older(disk'[g].lines, n)
       /\ sessionFile \in Files => Sound(disk'[sessionFile].lines, ls)
  BY <1>2, <1>3, <1>5, <1>6, <1>8, <1>14, WriteSound DEF ParentsInv
<1>16. FilesSound'
  BY <1>2, <1>15 DEF FilesSound
<1>17. EntriesSound'
  BY <1>2, <1>8, <1>9 DEF EntriesSound, Exit, Alive
<1>18. RestSound'
  <2> SUFFICES ASSUME Alive', Persisting', ~(flushed /\ HasAssistant(fileEntries))'
               PROVE  Sound(disk[sessionFile].lines, fileEntries)'
    BY DEF RestSound
  <2>1. /\ fileEntries' = es /\ sessionFile' = sessionFile
        /\ flushed' = IF o.end = "throw" THEN flushed ELSE FlushedAfter(es)
    BY <1>2 DEF Exit, Alive
  <2>2. Persisting /\ sessionFile \in Files
    BY <1>12, <2>1 DEF Persisting
  <2>3. CASE ls = es
    BY <1>15, <2>1, <2>2, <2>3
  <2>4. CASE Persisting /\ HasAssistant(es) /\ flushed
    <3>1. flushed'
      BY <2>1, <2>2, <2>4 DEF FlushedAfter
    <3> QED
      BY <2>1, <2>4, <3>1
  <2>5. CASE ~HasAssistant(es)
    <3>1. o \in Outcomes(c, <<>>)
      BY <1>11, <2>5
    <3>2. o.content = c
      BY <3>1, OutcomesOfNothing
    <3>3. disk'[sessionFile] = c
      BY <1>2, <2>2, <3>2 DEF WriteFile, TypeOK
    <3>4. Sound(c.lines, es)
      BY <1>10, <1>13, <2>2, <2>5
    <3> QED
      BY <2>1, <3>3, <3>4
  <2> QED
    BY <1>11, <2>2, <2>3, <2>4, <2>5
<1> QED
  BY <1>16, <1>17, <1>18 DEF ParentsInv

(* The lines of a fork after its header: the kept entries, then the labels. *)
LEMMA ForkLines ==
    ASSUME NEW kept \in Seq(Line), NEW labels \in Seq(Line)
    PROVE  LET s == <<Header>> \o kept \o labels IN
           \A k \in EntryAt(s) :
              \/ \E j \in 1 .. Len(kept) : k = 1 + j /\ s[k] = kept[j]
              \/ \E j \in 1 .. Len(labels) : k = 1 + Len(kept) + j /\ s[k] = labels[j]
<1> DEFINE H     == <<Header>>
           front == H \o kept
           s     == front \o labels
           P     == Len(kept)
           L     == Len(labels)
<1>1. P \in Nat /\ L \in Nat
  BY LenProperties
<1>2. H \in Seq(Line) /\ Len(H) = 1 /\ H[1].type = "session"
  BY HeaderAlone DEF Header
<1> HIDE DEF H
<1>3. /\ front \in Seq(Line) /\ Len(front) = 1 + P
      /\ \A k \in 1 .. 1 + P : front[k] = IF k <= 1 THEN H[k] ELSE kept[k - 1]
  <2>1. /\ front \in Seq(Line) /\ Len(front) = Len(H) + Len(kept)
        /\ \A k \in 1 .. Len(H) + Len(kept) :
              front[k] = IF k <= Len(H) THEN H[k] ELSE kept[k - Len(H)]
    BY <1>2, ConcatProperties
  <2> HIDE DEF front
  <2> QED
    BY <1>2, <2>1
<1> HIDE DEF front
<1>4. /\ Len(s) = 1 + P + L
      /\ \A k \in 1 .. 1 + P + L : s[k] = IF k <= 1 + P THEN front[k] ELSE labels[k - (1 + P)]
  <2>1. /\ Len(s) = Len(front) + Len(labels)
        /\ \A k \in 1 .. Len(front) + Len(labels) :
              s[k] = IF k <= Len(front) THEN front[k] ELSE labels[k - Len(front)]
    BY <1>3, ConcatProperties
  <2> HIDE DEF s
  <2> QED
    BY <1>3, <2>1
<1> HIDE DEF s
<1>5. ASSUME NEW k \in EntryAt(s)
      PROVE  \/ \E j \in 1 .. P : k = 1 + j /\ s[k] = kept[j]
             \/ \E j \in 1 .. L : k = 1 + P + j /\ s[k] = labels[j]
  <2>1. k \in 1 .. 1 + P + L /\ s[k].type # "session"
    BY <1>4 DEF EntryAt
  <2>2. CASE k <= 1 + P
    <3>1. k # 1
      BY <1>1, <1>2, <1>3, <1>4, <2>1, <2>2
    <3>2. k - 1 \in 1 .. P /\ k = 1 + (k - 1) /\ k \in 1 .. 1 + P /\ ~(k <= 1)
      BY <1>1, <2>1, <2>2, <3>1
    <3>3. s[k] = kept[k - 1]
      BY <1>3, <1>4, <2>1, <2>2, <3>2
    <3> QED
      BY <3>2, <3>3
  <2>3. CASE ~(k <= 1 + P)
    <3>1. k - (1 + P) \in 1 .. L /\ k = 1 + P + (k - (1 + P))
      BY <1>1, <2>1, <2>3
    <3>2. s[k] = labels[k - (1 + P)]
      BY <1>4, <2>1, <2>3
    <3> QED
      BY <3>1, <3>2
  <2> QED
    BY <2>2, <2>3
<1> QED
  BY <1>5 DEF s, front, H

(* A fork lists its ids in increasing order, each after its parent's.      *)
LEMMA ForkSound ==
    ASSUME TypeOK, IndexInSync, EntriesSound, Alive, NEW leaf, NEW walk,
           walk = GetBranch(byId, leaf), walk # <<>>,
           NEW path, path = WithoutLabels(walk), NEW labels, labels = ForkLabels(path),
           nextId + Len(labels) <= MaxId + 1
    PROVE  /\ Sound(ForkEntries(path, labels), <<>>)
           /\ Older(ForkEntries(path, labels), nextId + Len(labels))
<1> DEFINE es   == ForkEntries(path, labels)
           kept == [k \in 1 .. Len(path) |-> byId[path[k]]]
           P    == Len(path)
           L    == Len(labels)
<1>1. /\ es \in Seq(Line) /\ labels \in Seq(Line) /\ L \in Nat /\ P \in Nat
      /\ path \in Seq(Ids) /\ \A k \in 1 .. P : path[k] \in Ids /\ byId[path[k]] \in Entry
  <2>1. /\ es \in Seq(Line) /\ labels \in Seq(Line) /\ L \in Nat
        /\ path \in Seq(Ids) /\ \A k \in 1 .. P : byId[path[k]] \in Entry
    BY ForkType
  <2> QED
    BY <2>1, LenProperties, ElementOfSeq
<1>2. Increasing(path)
  BY InOrderType DEF WithoutLabels
<1>3. nextId \in Nat /\ 0 < nextId
  BY BoundsAssumption DEF TypeOK
<1>4. ASSUME NEW k \in 1 .. P
      PROVE  /\ byId[path[k]].id = path[k] /\ path[k] \in Nat
             /\ byId[path[k]].parentId < path[k] /\ path[k] < nextId
  <2>1. byId[path[k]] # NoEntry /\ path[k] \in Ids
    BY <1>1, NotEntries
  <2> QED
    BY <2>1, KnownIds DEF Ids
<1>5. ASSUME NEW k \in 1 .. L
      PROVE  /\ labels[k].id = nextId + k - 1 /\ k \in Nat
             /\ labels[k].parentId < nextId + k - 1
  <2> DEFINE targets == InOrder({i \in {path[j] : j \in 1 .. Len(path)} : labelsById[i] # NoLabel})
             last    == IF path = <<>> THEN Null ELSE path[Len(path)]
  <2>1. last \in Nat /\ last < nextId
    <3>1. CASE path = <<>>
      BY <1>3, <3>1 DEF Null
    <3>2. CASE path # <<>>
      <4>1. P \in 1 .. P
        BY <1>1, <3>2, EmptySeq
      <4> QED
        BY <1>4, <3>2, <4>1
    <3> QED
      BY <3>1, <3>2
  <2>2. Len(targets) \in Nat
    BY InOrderType, BoundsAssumption
  <2> HIDE DEF targets, last
  <2>3. labels = [j \in 1 .. Len(targets) |->
                    [id |-> nextId + j - 1,
                     parentId |-> IF j = 1 THEN last ELSE nextId + j - 2,
                     type |-> "label", ref |-> targets[j], val |-> labelsById[targets[j]]]]
    BY DEF ForkLabels, targets, last
  <2>4. L = Len(targets)
    BY <2>2, <2>3
  <2>5. labels[k].id = nextId + k - 1
    BY <2>3, <2>4
  <2>6. labels[k].parentId = IF k = 1 THEN last ELSE nextId + k - 2
    BY <2>3, <2>4
  <2>7. k \in Nat /\ k >= 1
    BY <1>1
  <2>8. CASE k = 1
    BY <1>3, <2>1, <2>5, <2>6, <2>7, <2>8
  <2>9. CASE k # 1
    BY <1>3, <2>5, <2>6, <2>7, <2>9
  <2> QED
    BY <2>8, <2>9
<1>6. kept \in Seq(Line) /\ Len(kept) = P /\ \A k \in 1 .. P : kept[k] = byId[path[k]]
  <2>1. \A k \in 1 .. P : byId[path[k]] \in Line
    BY <1>1 DEF Line
  <2> QED
    BY <1>1, <2>1
<1>7. es = <<Header>> \o kept \o labels
  BY DEF ForkEntries
<1> HIDE DEF es, kept
<1>8. ASSUME NEW k \in EntryAt(es)
      PROVE  \/ \E j \in 1 .. P : k = 1 + j /\ es[k] = byId[path[j]]
             \/ \E j \in 1 .. L : k = 1 + P + j /\ es[k] = labels[j]
  <2> DEFINE all == <<Header>> \o kept \o labels
  <2>1. \A q \in EntryAt(all) :
           \/ \E j \in 1 .. Len(kept) : q = 1 + j /\ all[q] = kept[j]
           \/ \E j \in 1 .. Len(labels) : q = 1 + Len(kept) + j /\ all[q] = labels[j]
    <3>1. kept \in Seq(Line) /\ labels \in Seq(Line)
      BY <1>1, <1>6
    <3> QED
      BY ONLY <3>1, ForkLines
  <2>2. es = all
    BY <1>7
  <2> HIDE DEF all
  <2>3. \/ \E j \in 1 .. Len(kept) : k = 1 + j /\ es[k] = kept[j]
        \/ \E j \in 1 .. Len(labels) : k = 1 + Len(kept) + j /\ es[k] = labels[j]
    BY <2>1, <2>2
  <2>4. CASE \E j \in 1 .. Len(kept) : k = 1 + j /\ es[k] = kept[j]
    <3>1. PICK j \in 1 .. Len(kept) : k = 1 + j /\ es[k] = kept[j]
      BY <2>4
    <3>2. j \in 1 .. P /\ kept[j] = byId[path[j]]
      BY <1>6
    <3> QED
      BY ONLY <3>1, <3>2
  <2>5. CASE \E j \in 1 .. Len(labels) : k = 1 + Len(kept) + j /\ es[k] = labels[j]
    <3>1. PICK j \in 1 .. L : k = 1 + Len(kept) + j /\ es[k] = labels[j]
      BY <2>5
    <3>2. Len(kept) = P
      BY <1>6
    <3> QED
      BY ONLY <3>1, <3>2
  <2> QED
    BY <2>3, <2>4, <2>5
<1>9. Older(es, nextId + L)
  <2> SUFFICES ASSUME NEW k \in EntryAt(es)
               PROVE  es[k].parentId < es[k].id /\ es[k].id < nextId + L
    BY DEF Older
  <2>1. ASSUME NEW j \in 1 .. P, es[k] = byId[path[j]]
        PROVE  es[k].parentId < es[k].id /\ es[k].id < nextId + L
    <3>1. path[j] < nextId + L
      BY <1>1, <1>3, <1>4
    <3> QED
      BY <1>4, <2>1, <3>1
  <2>2. ASSUME NEW j \in 1 .. L, es[k] = labels[j]
        PROVE  es[k].parentId < es[k].id /\ es[k].id < nextId + L
    <3>1. nextId + j - 1 < nextId + L
      BY <1>1, <1>3
    <3> QED
      BY <1>5, <2>2, <3>1
  <2> QED
    BY <1>8, <2>1, <2>2
<1>10. ASSUME NEW q \in EntryAt(es), NEW r \in EntryAt(es), q <= r
       PROVE  es[q].id <= es[r].id
  <2>1. ASSUME NEW i \in 1 .. P, NEW j \in 1 .. P, q = 1 + i, r = 1 + j,
               es[q] = byId[path[i]], es[r] = byId[path[j]]
        PROVE  es[q].id <= es[r].id
    <3>1. i < j \/ i = j
      BY <1>1, <1>10, <2>1
    <3>2. i < j => path[i] < path[j]
      BY <1>2 DEF Increasing
    <3>3. path[i] <= path[j]
      BY <1>4, <3>1, <3>2
    <3> QED
      BY <1>4, <2>1, <3>3
  <2>2. ASSUME NEW i \in 1 .. P, NEW j \in 1 .. L, es[q] = byId[path[i]], es[r] = labels[j]
        PROVE  es[q].id <= es[r].id
    <3>1. path[i] <= nextId + j - 1
      BY <1>1, <1>3, <1>4, <1>5
    <3> QED
      BY <1>4, <1>5, <2>2, <3>1
  <2>3. ASSUME NEW i \in 1 .. L, NEW j \in 1 .. P, q = 1 + P + i, r = 1 + j
        PROVE  FALSE
    BY <1>1, <1>10, <2>3
  <2>4. ASSUME NEW i \in 1 .. L, NEW j \in 1 .. L, q = 1 + P + i, r = 1 + P + j,
               es[q] = labels[i], es[r] = labels[j]
        PROVE  es[q].id <= es[r].id
    <3>1. nextId + i - 1 <= nextId + j - 1
      BY <1>1, <1>3, <1>10, <2>4
    <3> QED
      BY <1>5, <2>4, <3>1
  <2> QED
    BY <1>8, <2>1, <2>2, <2>3, <2>4
<1>11. Sound(es, <<>>)
  BY <1>1, <1>9, <1>10, IncreasingSound
<1> QED
  BY <1>9, <1>11 DEF es

(* A file without lines is as good as any.                                 *)
LEMMA NothingSound ==
    ASSUME NEW c \in {Empty, Absent}, NEW es \in Seq(Line), NEW n
    PROVE  c \in Content /\ Sound(c.lines, es) /\ Older(c.lines, n)
<1>1. c \in Content /\ c.lines = <<>>
  <2>1. <<>> \in Seq(Line)
    BY EmptySeq
  <2>2. CASE c = Empty
    BY <2>1, <2>2 DEF Content, Empty, Tails
  <2>3. CASE c = Absent
    BY <2>3 DEF Content, Absent
  <2> QED
    BY <2>2, <2>3
<1> QED
  BY <1>1, SoundBasics

(* The manager of a new session, whose file has no line. *)
LEMMA ResetKeepsParents ==
    ASSUME TypeOK, FilesSound, NEW f, ResetTo(f), UNCHANGED <<disk, nextId>>,
           f # NoFile => disk[f] = Absent
    PROVE  ParentsInv'
<1>1. fileEntries' = <<Header>> /\ sessionFile' = f /\ disk' = disk /\ nextId' = nextId
  BY DEF ResetTo
<1>2. FilesSound'
  BY <1>1 DEF FilesSound
<1>3. <<>> \in Seq(Line) /\ Sound(<<Header>>, <<>>) /\ Older(<<Header>>, nextId) /\ <<Header>>[1] = Header
  BY SoundBasics, HeaderAlone, EmptySeq
<1>4. EntriesSound'
  BY <1>1, <1>3 DEF EntriesSound
<1>5. f # NoFile => Sound(disk[f].lines, <<Header>>)
  BY HeaderAlone, NothingSound
<1>6. RestSound'
  BY <1>1, <1>5 DEF RestSound, Persisting
<1> QED
  BY <1>2, <1>4, <1>6 DEF ParentsInv

(* setSessionFile keeps parents first.                                     *)
LEMMA SetSessionFileKeepsParents ==
    ASSUME TypeOK, FilesSound, NEW f \in Files, SetSessionFile(f)
    PROVE  ParentsInv'
<1> DEFINE es == LoadEntriesFromFile(disk[f])
<1>1. nextId' = nextId /\ nextId \in Nat
  BY DEF SetSessionFile, TypeOK
<1>2. CASE /\ es # <<>> /\ BuildIndex(es) /\ sessionFile' = f /\ flushed' = TRUE
           /\ UNCHANGED <<disk, damaged>>
  <2>1. es \in Seq(Line) /\ es = disk[f].lines /\ es[1] = Header
    BY <1>2, LoadType DEF LoadEntriesFromFile, TypeOK
  <2> HIDE DEF es
  <2>2. Sound(es, <<>>) /\ Older(es, nextId) /\ Sound(es, es)
    BY <2>1, SoundBasics DEF FilesSound
  <2>3. fileEntries' = es /\ disk' = disk /\ sessionFile' = f
    BY <1>2 DEF BuildIndex
  <2>4. FilesSound'
    BY <1>1, <2>3 DEF FilesSound
  <2>5. EntriesSound'
    BY <1>1, <2>1, <2>2, <2>3 DEF EntriesSound
  <2>6. RestSound'
    BY <2>1, <2>2, <2>3 DEF RestSound
  <2> QED
    BY <2>4, <2>5, <2>6 DEF ParentsInv
<1>3. CASE \E o \in Outcomes(Empty, <<Header>>) :
             /\ WriteFile(f, o)
             /\ \/ o.end # "ok" /\ Exit
                \/ /\ o.end = "ok" /\ fileEntries' = <<Header>>
                   /\ sessionFile' = f /\ flushed' = TRUE
  <2>1. PICK o \in Outcomes(Empty, <<Header>>) :
             /\ WriteFile(f, o)
             /\ \/ o.end # "ok" /\ Exit
                \/ /\ o.end = "ok" /\ fileEntries' = <<Header>>
                   /\ sessionFile' = f /\ flushed' = TRUE
    BY <1>3
  <2>2. /\ <<>> \in Seq(Line) /\ Sound(<<Header>>, <<>>) /\ Older(<<Header>>, nextId)
        /\ <<Header>>[1] = Header /\ <<Header>> \in Seq(Line)
    BY SoundBasics, HeaderAlone, EmptySeq
  <2>3. /\ Empty \in Content /\ Sound(Empty.lines, <<Header>>) /\ Older(Empty.lines, nextId)
    BY <2>2, NothingSound
  <2>4. /\ \A g \in Files : Sound(disk'[g].lines, <<>>) /\ Older(disk'[g].lines, nextId)
        /\ Sound(disk'[f].lines, <<Header>>)
    <3> DEFINE H == <<Header>>
    <3>1. /\ o \in Outcomes(Empty, H) /\ WriteFile(f, o) /\ nextId \in Nat /\ nextId <= nextId
          /\ H \in Seq(Line) /\ H[1] = Header /\ Sound(H, <<>>) /\ Older(H, nextId)
          /\ Empty \in Content /\ Sound(Empty.lines, H) /\ Older(Empty.lines, nextId)
      BY <1>1, <2>1, <2>2, <2>3
    <3> HIDE DEF H
    <3>2. /\ \A g \in Files : Sound(disk'[g].lines, <<>>) /\ Older(disk'[g].lines, nextId)
          /\ f \in Files => Sound(disk'[f].lines, H)
      BY <3>1, WriteSound
    <3> QED
      BY <3>2 DEF H
  <2>5. FilesSound'
    BY <1>1, <2>4 DEF FilesSound
  <2>6. EntriesSound'
    BY <1>1, <2>1, <2>2 DEF EntriesSound, Exit, Alive
  <2>7. RestSound'
    BY <2>1, <2>4 DEF RestSound, Exit, Alive
  <2> QED
    BY <2>5, <2>6, <2>7 DEF ParentsInv
<1>4. CASE ~disk[f].exists /\ ResetTo(f) /\ UNCHANGED <<disk, damaged>>
  <2>1. disk[f] = Absent
    BY <1>4 DEF TypeOK, Content
  <2> QED
    BY <1>1, <1>4, <2>1, ResetKeepsParents
<1> QED
  BY <1>2, <1>3, <1>4 DEF SetSessionFile

(* A manager over entries es whose file f, if any, may yet get them.       *)
LEMMA BuiltKeepsParents ==
    ASSUME NEW es \in Seq(Line), es[1] = Header, Sound(es, <<>>), Older(es, nextId'),
           ~Exit => fileEntries' = es,
           \A g \in Files : Sound(disk'[g].lines, <<>>) /\ Older(disk'[g].lines, nextId'),
           ~Exit /\ Persisting' => Sound(disk'[sessionFile'].lines, es)
    PROVE  ParentsInv'
<1>1. FilesSound'
  BY DEF FilesSound
<1>2. EntriesSound'
  BY DEF EntriesSound, Exit, Alive
<1>3. RestSound'
  BY DEF RestSound, Exit, Alive
<1> QED
  BY <1>1, <1>2, <1>3 DEF ParentsInv

(* createBranchedSession keeps parents first.                              *)
LEMMA CreateBranchedSessionKeepsParents ==
    ASSUME TypeOK, FilesOwned, IndexInSync, ParentsInv, NEW leaf, NEW f \in Files \cup {NoFile},
           CreateBranchedSession(leaf, f)
    PROVE  ParentsInv'
<1>1. PICK es, n :
        /\ es \in Seq(Line) /\ es # <<>> /\ es[1] = Header
        /\ n \in Nat /\ nextId <= n /\ nextId' = n
        /\ Sound(es, <<>>) /\ Older(es, n)
        /\ \E o \in IF Persisting /\ HasAssistant(es)
                      THEN Outcomes(Empty, es) ELSE Outcomes(FileContent(f), <<>>) :
              /\ WriteFile(f, o)
              /\ \/ o.end = "kill" /\ Exit
                 \/ o.end # "kill" /\ BuildIndex(es) /\ sessionFile' = f
  <2>1. PICK walk \in {GetBranch(byId, leaf)} : \E path \in {WithoutLabels(walk)} :
         \E labels \in {ForkLabels(path)} : \E es \in {ForkEntries(path, labels)} :
         /\ walk # <<>>
         /\ nextId + Len(labels) <= MaxId + 1
         /\ \E o \in IF Persisting /\ HasAssistant(es)
                       THEN Outcomes(Empty, es) ELSE Outcomes(FileContent(f), <<>>) :
               /\ WriteFile(f, o)
               /\ \/ o.end = "kill" /\ Exit
                  \/ /\ o.end # "kill" /\ BuildIndex(es) /\ sessionFile' = f
                     /\ flushed' = IF o.end = "throw" THEN flushed ELSE FlushedAfter(es)
         /\ nextId' = nextId + Len(labels)
    BY DEF CreateBranchedSession
  <2> DEFINE path   == WithoutLabels(walk)
             labels == ForkLabels(path)
             es     == ForkEntries(path, labels)
             n      == nextId + Len(labels)
  <2>2. /\ walk = GetBranch(byId, leaf) /\ walk # <<>> /\ n <= MaxId + 1 /\ nextId' = n
        /\ \E o \in IF Persisting /\ HasAssistant(es)
                      THEN Outcomes(Empty, es) ELSE Outcomes(FileContent(f), <<>>) :
               /\ WriteFile(f, o)
               /\ \/ o.end = "kill" /\ Exit
                  \/ o.end # "kill" /\ BuildIndex(es) /\ sessionFile' = f
    BY <2>1
  <2>3. /\ es \in Seq(Line) /\ labels \in Seq(Line) /\ Len(labels) \in Nat
        /\ path \in Seq(Ids) /\ \A k \in 1 .. Len(path) : byId[path[k]] \in Entry
    BY <2>2, ForkType
  <2>4. es # <<>> /\ es[1] = Header
    BY <2>3, ForkFirst
  <2>5. Alive /\ nextId \in Nat
    BY DEF CreateBranchedSession, TypeOK
  <2>6. Sound(es, <<>>) /\ Older(es, n)
    BY <2>2, <2>5, ForkSound DEF ParentsInv
  <2>7. n \in Nat /\ nextId <= n
    BY <2>3, <2>5
  <2> HIDE DEF es, n
  <2> QED
    BY <2>2, <2>3, <2>4, <2>6, <2>7
<1>2. PICK o \in IF Persisting /\ HasAssistant(es)
                   THEN Outcomes(Empty, es) ELSE Outcomes(FileContent(f), <<>>) :
        /\ WriteFile(f, o)
        /\ \/ o.end = "kill" /\ Exit
           \/ o.end # "kill" /\ BuildIndex(es) /\ sessionFile' = f
  BY <1>1
<1>3. FileContent(f) = Absent
  BY DEF CreateBranchedSession, Fresh, FilesOwned, FileContent, Files, NoFile
<1>4. PICK c \in {Empty, Absent}, ls \in {es, <<>>} : o \in Outcomes(c, ls)
  BY <1>2, <1>3
<1>5. /\ <<>> \in Seq(Line) /\ ls \in Seq(Line) /\ (ls # <<>> => ls[1] = Header)
      /\ Sound(ls, <<>>) /\ Older(ls, n)
  BY <1>1, SoundBasics, EmptySeq
<1>6. c \in Content /\ Sound(c.lines, ls) /\ Older(c.lines, n)
  BY <1>5, NothingSound
<1>7. /\ \A g \in Files : Sound(disk'[g].lines, <<>>) /\ Older(disk'[g].lines, n)
      /\ f \in Files => Sound(disk'[f].lines, ls)
  BY <1>1, <1>2, <1>4, <1>5, <1>6, WriteSound DEF ParentsInv
<1>8. f \in Files => Sound(disk'[f].lines, es)
  <2>1. CASE ls = es
    BY <1>7, <2>1
  <2>2. CASE ls = <<>>
    <3>1. o.content = c
      BY <1>4, <2>2, OutcomesOfNothing
    <3>2. f \in Files => disk'[f] = c
      BY <1>2, <3>1 DEF WriteFile, TypeOK
    <3> QED
      BY <1>1, <3>2, NothingSound
  <2> QED
    BY <2>1, <2>2
<1>9. ~Exit => fileEntries' = es /\ sessionFile' = f
  BY <1>2 DEF BuildIndex
<1>10. ~Exit /\ Persisting' => Sound(disk'[sessionFile'].lines, es)
  BY <1>8, <1>9 DEF Persisting
<1> QED
  BY <1>1, <1>7, <1>9, <1>10, BuiltKeepsParents

(* forkFrom keeps parents first.                                           *)
LEMMA ForkFromKeepsParents ==
    ASSUME TypeOK, FilesSound, NEW src \in Files, NEW f \in Files, ForkFrom(src, f)
    PROVE  ParentsInv'
<1> DEFINE es     == LoadEntriesFromFile(disk[src])
           copied == <<Header>> \o WithoutHeaders(es)
<1>1. PICK o \in Outcomes(Absent, copied) :
        /\ WriteFile(f, o)
        /\ \/ o.end # "ok" /\ Exit
           \/ o.end = "ok" /\ BuildIndex(copied) /\ sessionFile' = f
  BY DEF ForkFrom
<1>2. nextId' = nextId /\ nextId \in Nat /\ nextId <= nextId
  BY DEF ForkFrom, TypeOK
<1>3. es \in Seq(Line) /\ es = disk[src].lines
  BY LoadType DEF ForkFrom, LoadEntriesFromFile, TypeOK
<1>4. Sound(es, <<>>) /\ Older(es, nextId)
  BY <1>3 DEF FilesSound
<1> HIDE DEF es
<1>5. Sound(copied, <<>>) /\ Older(copied, nextId)
  BY <1>3, <1>4, CopySound
<1>6. copied \in Seq(Line) /\ copied # <<>> /\ copied[1] = Header
  <2> DEFINE rest == WithoutHeaders(es)
  <2>1. /\ <<Header>> \in Seq(Line) /\ <<Header>>[1] = Header /\ Len(<<Header>>) = 1
        /\ rest \in Seq(Line) /\ Len(rest) \in Nat
    BY <1>3, WithoutHeadersType, HeaderAlone, LenProperties
  <2>2. <<Header>> # <<>>
    BY <2>1, EmptySeq
  <2> HIDE DEF rest
  <2> QED
    BY <2>1, <2>2, ConcatProperties, ConcatEqualIffEmpty DEF rest
<1> HIDE DEF copied
<1>7. Absent \in Content /\ Sound(Absent.lines, copied) /\ Older(Absent.lines, nextId)
  BY <1>6, NothingSound
<1>8. /\ \A g \in Files : Sound(disk'[g].lines, <<>>) /\ Older(disk'[g].lines, nextId)
      /\ Sound(disk'[f].lines, copied)
  BY <1>1, <1>2, <1>5, <1>6, <1>7, WriteSound
<1>9. ~Exit => fileEntries' = copied /\ sessionFile' = f
  BY <1>1 DEF BuildIndex
<1> QED
  BY <1>2, <1>5, <1>6, <1>8, <1>9, BuiltKeepsParents

(* Every step keeps parents first.                                         *)
LEMMA StepKeepsParents ==
    ASSUME TypeOK, FilesOwned, IndexInSync, ParentsInv, [Next]_vars
    PROVE  ParentsInv'
<1>1. CASE AppendStep
  BY <1>1, AppendKeepsParents
<1>2. CASE (\E i \in Ids : Branch(i)) \/ ResetLeaf \/ UNCHANGED vars
  <2>1. UNCHANGED <<disk, nextId, fileEntries, sessionFile, flushed>>
    BY <1>2 DEF Branch, ResetLeaf, vars
  <2> QED
    BY <2>1 DEF ParentsInv, FilesSound, EntriesSound, RestSound, Alive, Persisting
<1>3. ASSUME NEW f \in Files, NewSession(f) PROVE ParentsInv'
  BY <1>3, ResetKeepsParents DEF NewSession, Fresh, FilesOwned, ParentsInv
<1>4. CASE InMemory
  BY <1>4, ResetKeepsParents DEF InMemory, ParentsInv
<1>5. ASSUME NEW f \in Files, SetSessionFile(f) PROVE ParentsInv'
  BY <1>5, SetSessionFileKeepsParents DEF ParentsInv
<1>6. ASSUME NEW i \in Ids, NEW f \in Files \cup {NoFile}, CreateBranchedSession(i, f)
      PROVE  ParentsInv'
  BY <1>6, CreateBranchedSessionKeepsParents
<1>7. ASSUME NEW src \in Files, NEW f \in Files, ForkFrom(src, f) PROVE ParentsInv'
  BY <1>7, ForkFromKeepsParents DEF ParentsInv
<1>8. CASE Quit
  <2>1. disk' = disk /\ nextId' = nextId /\ fileEntries' = <<>>
    BY <1>8 DEF Quit, Exit
  <2> QED
    BY <2>1 DEF ParentsInv, FilesSound, EntriesSound, RestSound, Alive
<1> QED
  BY <1>1, <1>2, <1>3, <1>4, <1>5, <1>6, <1>7, <1>8, StepCases

(* The lists of entries, in memory and in the files, stay sound.           *)
LEMMA StaysSound == Spec => []ParentsInv
<1>1. Init => ParentsInv
  <2> SUFFICES ASSUME Init PROVE ParentsInv
    OBVIOUS
  <2>1. ASSUME NEW f \in Files
        PROVE  Sound(disk[f].lines, <<>>) /\ Older(disk[f].lines, nextId)
    <3>1. disk[f] \in {Empty, Absent} /\ <<>> \in Seq(Line)
      BY EmptySeq DEF Init
    <3> QED
      BY <3>1, NothingSound DEF Empty, Absent
  <2> QED
    BY <2>1 DEF Init, ParentsInv, FilesSound, EntriesSound, RestSound, Alive
<1>2. TypeOK /\ FilesOwned /\ IndexInSync /\ ParentsInv /\ [Next]_vars => ParentsInv'
  BY StepKeepsParents
<1> QED
  BY <1>1, <1>2, TypeCorrect, FilesStayOwned, IndexStaysInSync, PTL DEF Spec

(* Whatever is appended, forked, reloaded or lost with a line of a file,   *)
(* no entry comes before its parent: getBranch and buildSessionContext     *)
(* follow parent pointers to ever earlier entries, and come to an end.     *)
THEOREM ParentsComeFirst == Spec => []ParentsPrecede
<1>1. TypeOK /\ IndexInSync /\ ParentsInv => ParentsPrecede
  <2> SUFFICES ASSUME TypeOK, IndexInSync, ParentsInv, NEW k \in EntryAt(fileEntries),
                      fileEntries[k].parentId # Null, byId[fileEntries[k].parentId] # NoEntry
               PROVE  \E j \in EntryAt(fileEntries) :
                         j < k /\ fileEntries[j].id = fileEntries[k].parentId
    BY DEF ParentsPrecede
  <2>1. Alive
    BY EmptySeq DEF EntryAt, Alive
  <2>2. fileEntries[k].parentId \in Ids
    BY EntryAtProperties DEF TypeOK, Entry
  <2>3. fileEntries[k].parentId \in IdsOf(fileEntries)
    BY <2>1, <2>2, KnownIds DEF ParentsInv
  <2>4. Sound(fileEntries, <<>>)
    BY <2>1 DEF ParentsInv, EntriesSound
  <2> QED
    BY <2>3, <2>4 DEF Sound, ClosedUnder
<1> QED
  BY <1>1, TypeCorrect, IndexStaysInSync, StaysSound, PTL

-----------------------------------------------------------------------------
(* Increasing sequences of ids.                                            *)

(* The ids of a sequence. *)
Members(w) == {w[k] : k \in 1 .. Len(w)}

(* Ids are numbers, and null is none of them. *)
LEMMA IdsNat == Ids \subseteq Nat /\ 0 \notin Ids /\ MaxId \in Nat
BY BoundsAssumption DEF Ids

(* The members of a sequence of ids are numbers. *)
LEMMA IdSeq ==
    ASSUME NEW w \in Seq(Ids)
    PROVE  Len(w) \in Nat /\ w \in [1 .. Len(w) -> Ids] /\ \A k \in 1 .. Len(w) : w[k] \in Ids /\ w[k] \in Nat
BY IdsNat, LenProperties, ElementOfSeq

(* An increasing sequence of ids is a walk: it is no longer than there are *)
(* ids.                                                                    *)
LEMMA IncreasingIsWalk ==
    ASSUME NEW w \in Seq(Ids), Increasing(w)
    PROVE  w \in Walks
<1>1. Len(w) \in Nat /\ w \in [1 .. Len(w) -> Ids] /\ \A k \in 1 .. Len(w) : w[k] \in Ids /\ w[k] \in Nat
  BY IdSeq
<1>2. \A k \in 1 .. Len(w) : k <= w[k]
  <2> DEFINE T == {k \in 1 .. Len(w) : ~(k <= w[k])}
  <2> SUFFICES ASSUME T # {} PROVE FALSE
    OBVIOUS
  <2>1. T \in SUBSET Nat
    OBVIOUS
  <2>2. PICK k \in T : \A j \in T : k <= j
    <3> HIDE DEF T
    <3> QED
      BY <2>1, NatMin
  <2>3. k \in 1 .. Len(w) /\ w[k] < k /\ w[k] \in Ids
    BY <1>1, <2>2
  <2>4. k # 1
    BY <1>1, <2>3, IdsNat
  <2>5. k - 1 \in 1 .. Len(w) /\ k - 1 < k
    BY <1>1, <2>3, <2>4
  <2>6. k - 1 \notin T
    BY <2>2, <2>5
  <2>7. k - 1 <= w[k - 1]
    BY <2>5, <2>6
  <2>8. w[k - 1] < w[k]
    BY <2>3, <2>5 DEF Increasing
  <2> QED
    BY <1>1, <2>3, <2>5, <2>7, <2>8
<1>3. Len(w) <= MaxId
  <2>1. CASE Len(w) = 0
    BY <2>1, IdsNat
  <2>2. CASE Len(w) # 0
    <3>1. Len(w) \in 1 .. Len(w)
      BY <1>1, <2>2
    <3>2. Len(w) <= w[Len(w)] /\ w[Len(w)] <= MaxId
      BY <1>1, <1>2, <3>1 DEF Ids
    <3> QED
      BY <1>1, <3>1, <3>2, IdsNat
  <2> QED
    BY <2>1, <2>2
<1>4. w \in IdSequences
  BY <1>1, <1>3, IdsNat DEF IdSequences
<1> QED
  BY <1>4 DEF Walks

(* And a walk is one. *)
LEMMA WalksIncrease ==
    ASSUME NEW w \in Walks
    PROVE  w \in Seq(Ids) /\ Increasing(w)
BY WalksType DEF Walks

(* It agrees with any other of the same ids, up to the end of either. *)
LEMMA SameMembersAgree ==
    ASSUME NEW v \in Seq(Ids), NEW w \in Seq(Ids), Increasing(v), Increasing(w), Members(v) = Members(w)
    PROVE  Len(v) <= Len(w) /\ \A k \in 1 .. Len(v) : v[k] = w[k]
<1>1. /\ Len(v) \in Nat /\ \A k \in 1 .. Len(v) : v[k] \in Nat
      /\ Len(w) \in Nat /\ \A k \in 1 .. Len(w) : w[k] \in Nat
  BY IdSeq
<1> DEFINE T == {k \in 1 .. Len(v) : ~(k <= Len(w) /\ v[k] = w[k])}
<1>2. T = {}
  <2> SUFFICES ASSUME T # {} PROVE FALSE
    OBVIOUS
  <2>1. T \in SUBSET Nat
    OBVIOUS
  <2>2. PICK k \in T : \A j \in T : k <= j
    <3> HIDE DEF T
    <3> QED
      BY <2>1, NatMin
  <2>3. k \in 1 .. Len(v)
    BY <2>2
  <2>4. \A j \in 1 .. Len(v) : j < k => j \in 1 .. Len(w) /\ v[j] = w[j]
    <3> SUFFICES ASSUME NEW j \in 1 .. Len(v), j < k PROVE j \in 1 .. Len(w) /\ v[j] = w[j]
      OBVIOUS
    <3>1. j \notin T
      BY <1>1, <2>2, <2>3
    <3> QED
      BY <1>1, <3>1
  <2>5. PICK m \in 1 .. Len(w) : v[k] = w[m]
    <3>1. v[k] \in Members(w)
      BY <2>3 DEF Members
    <3> QED
      BY <3>1 DEF Members
  <2>6. ~(m < k)
    <3> SUFFICES ASSUME m < k PROVE FALSE
      OBVIOUS
    <3>1. m \in 1 .. Len(v)
      BY <1>1, <2>3, <2>5
    <3>2. v[m] < v[k] /\ v[m] = w[m]
      BY <2>3, <2>4, <3>1 DEF Increasing
    <3> QED
      BY <1>1, <2>3, <2>5, <3>1, <3>2
  <2>7. k \in 1 .. Len(w) /\ w[k] # v[k]
    <3>1. k \in 1 .. Len(w)
      BY <1>1, <2>3, <2>5, <2>6
    <3> QED
      BY <1>1, <2>2, <3>1
  <2>8. w[k] < v[k]
    <3>1. k < m
      BY <1>1, <2>5, <2>6, <2>7
    <3> QED
      BY <2>5, <2>7, <3>1 DEF Increasing
  <2>9. PICK p \in 1 .. Len(v) : v[p] = w[k]
    <3>1. w[k] \in Members(v)
      BY <2>7 DEF Members
    <3> QED
      BY <3>1 DEF Members
  <2>10. CASE p < k
    <3>1. w[p] = w[k] /\ p \in 1 .. Len(w) /\ w[p] < w[k]
      BY <2>4, <2>7, <2>9, <2>10 DEF Increasing
    <3> QED
      BY <1>1, <3>1
  <2>11. CASE k <= p
    <3>1. v[k] <= v[p]
      <4>1. k = p \/ k < p
        BY <1>1, <2>3, <2>9, <2>11
      <4> QED
        BY <1>1, <2>3, <2>9, <4>1 DEF Increasing
    <3> QED
      BY <1>1, <2>3, <2>7, <2>8, <2>9, <3>1
  <2> QED
    BY <1>1, <2>3, <2>9, <2>10, <2>11
<1>3. \A k \in 1 .. Len(v) : k <= Len(w) /\ v[k] = w[k]
  BY <1>2
<1>4. Len(v) <= Len(w)
  BY <1>1, <1>3
<1> QED
  BY <1>3, <1>4

(* So there is one increasing sequence of given ids only. *)
LEMMA SameMembers ==
    ASSUME NEW v \in Seq(Ids), NEW w \in Seq(Ids), Increasing(v), Increasing(w), Members(v) = Members(w)
    PROVE  v = w
<1>1. Len(v) <= Len(w) /\ \A k \in 1 .. Len(v) : v[k] = w[k]
  BY SameMembersAgree
<1>2. Len(w) <= Len(v)
  BY SameMembersAgree
<1>3. /\ Len(v) \in Nat /\ v \in [1 .. Len(v) -> Ids]
      /\ Len(w) \in Nat /\ w \in [1 .. Len(w) -> Ids]
  BY IdSeq
<1>4. Len(v) = Len(w)
  <2>1. Len(v) \in Nat /\ Len(w) \in Nat /\ Len(v) <= Len(w) /\ Len(w) <= Len(v)
    BY <1>1, <1>2, <1>3
  <2> QED
    BY <2>1
<1> QED
  BY <1>1, <1>3, <1>4

(* ... and there is one. *)
LEMMA MembersInOrder ==
    ASSUME NEW S \in SUBSET Ids
    PROVE  \E w \in Walks : Members(w) = S
<1> DEFINE Lists(w, m) == w \in Seq(Ids) /\ Increasing(w) /\ Members(w) = {i \in S : i <= m}
           T == {m \in 0 .. MaxId : ~\E w : Lists(w, m)}
<1>0. MaxId \in Nat /\ \A i \in S : i \in Nat /\ i # 0 /\ i <= MaxId
  BY IdsNat DEF Ids
<1>1. T = {}
  <2> SUFFICES ASSUME T # {} PROVE FALSE
    OBVIOUS
  <2>1. T \in SUBSET Nat
    BY IdsNat
  <2>2. PICK m \in T : \A j \in T : m <= j
    <3> HIDE DEF T
    <3> QED
      BY <2>1, NatMin
  <2>3. m \in 0 .. MaxId /\ m \in Nat /\ ~\E w : Lists(w, m)
    BY <2>2, IdsNat
  <2>4. m # 0
    <3> SUFFICES ASSUME m = 0 PROVE FALSE
      OBVIOUS
    <3>1. <<>> \in Seq(Ids) /\ Len(<<>>) = 0
      BY EmptySeq
    <3>2. Increasing(<<>>) /\ Members(<<>>) = {}
      BY <3>1 DEF Increasing, Members
    <3>3. {i \in S : i <= 0} = {}
      BY <1>0
    <3>4. Lists(<<>>, m)
      BY <3>1, <3>2, <3>3
    <3> QED
      BY <2>3, <3>4
  <2>5. m - 1 \in 0 .. MaxId /\ ~(m <= m - 1)
    BY <2>3, <2>4, IdsNat
  <2>6. m - 1 \notin T
    BY <2>2, <2>5
  <2>7. PICK w : Lists(w, m - 1)
    BY <2>5, <2>6
  <2>8. /\ w \in Seq(Ids) /\ Increasing(w) /\ Members(w) = {i \in S : i <= m - 1}
        /\ Len(w) \in Nat /\ \A k \in 1 .. Len(w) : w[k] \in Nat /\ w[k] <= m - 1
    <3>1. w \in Seq(Ids) /\ Increasing(w) /\ Members(w) = {i \in S : i <= m - 1}
      BY <2>7
    <3>2. \A k \in 1 .. Len(w) : w[k] <= m - 1
      BY <3>1 DEF Members
    <3> QED
      BY <3>1, <3>2, IdSeq
  <2> HIDE DEF Lists
  <2>9. CASE m \in S
    <3> DEFINE u == Append(w, m)
    <3>1. /\ u \in Seq(Ids) /\ Len(u) = Len(w) + 1 /\ u[Len(w) + 1] = m
          /\ \A k \in 1 .. Len(w) : u[k] = w[k]
      BY <2>8, <2>9, AppendProperties
    <3> HIDE DEF u
    <3>2. Increasing(u)
      <4> SUFFICES ASSUME NEW j \in 1 .. Len(w) + 1, NEW k \in 1 .. Len(w) + 1, j < k PROVE u[j] < u[k]
        BY <3>1 DEF Increasing
      <4>1. j \in 1 .. Len(w)
        BY <2>8
      <4>2. CASE k \in 1 .. Len(w)
        BY <2>8, <3>1, <4>1, <4>2 DEF Increasing
      <4>3. CASE k = Len(w) + 1
        BY <2>3, <2>8, <3>1, <4>1, <4>3
      <4> QED
        BY <2>8, <4>2, <4>3
    <3>3. Members(u) = Members(w) \cup {m}
      <4>1. ASSUME NEW i \in Members(u) PROVE i \in Members(w) \cup {m}
        <5>1. PICK k \in 1 .. Len(w) + 1 : i = u[k]
          BY <3>1, <4>1 DEF Members
        <5>2. k \in 1 .. Len(w) \/ k = Len(w) + 1
          BY <2>8
        <5> QED
          BY <3>1, <5>1, <5>2 DEF Members
      <4>2. ASSUME NEW i \in Members(w) PROVE i \in Members(u)
        <5>1. PICK k \in 1 .. Len(w) : i = w[k]
          BY <4>2 DEF Members
        <5>2. k \in 1 .. Len(u) /\ u[k] = i
          BY <2>8, <3>1, <5>1
        <5> QED
          BY <5>2 DEF Members
      <4>3. m \in Members(u)
        <5>1. Len(w) + 1 \in 1 .. Len(u)
          BY <2>8, <3>1
        <5> QED
          BY <3>1, <5>1 DEF Members
      <4> QED
        BY <4>1, <4>2, <4>3
    <3>4. {i \in S : i <= m - 1} \cup {m} = {i \in S : i <= m}
      <4>1. \A i \in S : i <= m <=> i <= m - 1 \/ i = m
        BY <1>0, <2>3
      <4> QED
        BY <2>3, <2>9, <4>1
    <3>5. Lists(u, m)
      BY <2>8, <3>1, <3>2, <3>3, <3>4 DEF Lists
    <3> QED
      BY <2>3, <3>5
  <2>10. CASE m \notin S
    <3>1. {i \in S : i <= m - 1} = {i \in S : i <= m}
      <4>1. \A i \in S : i <= m <=> i <= m - 1
        BY <1>0, <2>3, <2>10
      <4> QED
        BY <4>1
    <3>2. Lists(w, m)
      BY <2>8, <3>1 DEF Lists
    <3> QED
      BY <2>3, <3>2
  <2> QED
    BY <2>9, <2>10
<1>2. \E w : Lists(w, MaxId)
  <2>1. MaxId \in 0 .. MaxId
    BY <1>0
  <2> HIDE DEF Lists
  <2> QED
    BY <1>1, <2>1
<1>3. {i \in S : i <= MaxId} = S
  BY <1>0
<1> QED
  BY <1>2, <1>3, IncreasingIsWalk

(* InOrder lists exactly its set, *)
LEMMA InOrderLists ==
    ASSUME NEW S \in SUBSET Ids
    PROVE  InOrder(S) \in Seq(Ids) /\ Increasing(InOrder(S)) /\ Members(InOrder(S)) = S
<1> DEFINE Spells(w) == {w[k] : k \in 1 .. Len(w)} = S
<1>1. \E w \in Walks : Spells(w)
  BY MembersInOrder DEF Members
<1>2. InOrder(S) = CHOOSE w \in Walks : Spells(w)
  BY <1>1 DEF InOrder
<1>3. InOrder(S) \in Walks /\ Spells(InOrder(S))
  BY <1>1, <1>2
<1> QED
  BY <1>3, WalksIncrease DEF Members

(* ... and is the only list of it. *)
LEMMA InOrderIs ==
    ASSUME NEW w \in Seq(Ids), Increasing(w)
    PROVE  InOrder(Members(w)) = w
<1>1. Members(w) \in SUBSET Ids
  BY IdSeq DEF Members
<1>2. /\ InOrder(Members(w)) \in Seq(Ids) /\ Increasing(InOrder(Members(w)))
      /\ Members(InOrder(Members(w))) = Members(w)
  BY <1>1, InOrderLists
<1> QED
  BY <1>2, SameMembers

(* A suffix of a list in order lists what is not before its first. *)
LEMMA SuffixInOrder ==
    ASSUME NEW S \in SUBSET Ids, NEW k \in 1 .. Len(InOrder(S))
    PROVE  SubSeq(InOrder(S), k, Len(InOrder(S))) = InOrder({i \in S : InOrder(S)[k] <= i})
<1>1. PICK D : D = InOrder(S)
  OBVIOUS
<1>2. /\ D \in Seq(Ids) /\ Increasing(D) /\ Members(D) = S /\ k \in 1 .. Len(D)
      /\ Len(D) \in Nat /\ \A j \in 1 .. Len(D) : D[j] \in Nat /\ D[j] \in Ids
  BY <1>1, InOrderLists, IdSeq
<1> DEFINE w == SubSeq(D, k, Len(D))
<1>3. /\ w \in Seq(Ids) /\ Len(w) = Len(D) - k + 1
      /\ \A j \in 1 .. Len(D) - k + 1 : w[j] = D[k + j - 1]
  BY <1>2, SubSeqProperties
<1> HIDE DEF w
<1>4. Increasing(w)
  <2> SUFFICES ASSUME NEW i \in 1 .. Len(D) - k + 1, NEW j \in 1 .. Len(D) - k + 1, i < j PROVE w[i] < w[j]
    BY <1>3 DEF Increasing
  <2>1. k + i - 1 \in 1 .. Len(D) /\ k + j - 1 \in 1 .. Len(D) /\ k + i - 1 < k + j - 1
    BY <1>2
  <2> QED
    BY <1>2, <1>3, <2>1 DEF Increasing
<1>5. Members(w) = {i \in S : D[k] <= i}
  <2>1. ASSUME NEW i \in Members(w) PROVE i \in S /\ D[k] <= i
    <3>1. PICK j \in 1 .. Len(D) - k + 1 : i = w[j]
      BY <1>3, <2>1 DEF Members
    <3>2. k + j - 1 \in 1 .. Len(D) /\ i = D[k + j - 1] /\ (k = k + j - 1 \/ k < k + j - 1)
      BY <1>2, <1>3, <3>1
    <3>3. i \in S
      BY <1>2, <3>2 DEF Members
    <3>4. D[k] <= i
      BY <1>2, <3>2, SMTT(30) DEF Increasing
    <3> QED
      BY <3>3, <3>4
  <2>2. ASSUME NEW i \in S, D[k] <= i PROVE i \in Members(w)
    <3>1. PICK j \in 1 .. Len(D) : i = D[j]
      BY <1>2 DEF Members
    <3>2. ~(j < k)
      BY <1>2, <2>2, <3>1 DEF Increasing
    <3>3. j - k + 1 \in 1 .. Len(w) /\ k + (j - k + 1) - 1 = j
      BY <1>2, <1>3, <3>2
    <3>4. w[j - k + 1] = i
      BY <1>3, <3>1, <3>3
    <3> QED
      BY <3>3, <3>4 DEF Members
  <2> QED
    BY <2>1, <2>2
<1>6. InOrder(Members(w)) = w
  BY <1>3, <1>4, InOrderIs
<1> QED
  BY <1>1, <1>5, <1>6 DEF w

(* Two lists in order, all of the first before all of the second, make one. *)
LEMMA JoinInOrder ==
    ASSUME NEW S \in SUBSET Ids, NEW T \in SUBSET Ids, \A s \in S, t \in T : s < t
    PROVE  InOrder(S) \o InOrder(T) = InOrder(S \cup T)
<1>1. PICK v : v = InOrder(S)
  OBVIOUS
<1>2. PICK u : u = InOrder(T)
  OBVIOUS
<1>3. /\ v \in Seq(Ids) /\ Increasing(v) /\ Members(v) = S /\ Len(v) \in Nat
      /\ u \in Seq(Ids) /\ Increasing(u) /\ Members(u) = T /\ Len(u) \in Nat
  BY <1>1, <1>2, InOrderLists, IdSeq
<1> DEFINE w == v \o u
<1>4. /\ w \in Seq(Ids) /\ Len(w) = Len(v) + Len(u)
      /\ \A k \in 1 .. Len(v) + Len(u) : w[k] = IF k <= Len(v) THEN v[k] ELSE u[k - Len(v)]
  BY <1>3, ConcatProperties
<1> HIDE DEF w
<1>5. /\ \A k \in 1 .. Len(v) : w[k] = v[k] /\ w[k] \in S
      /\ \A k \in 1 .. Len(u) : w[Len(v) + k] = u[k] /\ u[k] \in T
      /\ \A k \in 1 .. Len(v) + Len(u) : k \in 1 .. Len(v) \/ k - Len(v) \in 1 .. Len(u)
  <2>1. \A k \in 1 .. Len(v) : k \in 1 .. Len(v) + Len(u) /\ k <= Len(v)
    BY <1>3
  <2>2. \A k \in 1 .. Len(u) : /\ Len(v) + k \in 1 .. Len(v) + Len(u) /\ ~(Len(v) + k <= Len(v))
                               /\ Len(v) + k - Len(v) = k
    BY <1>3
  <2>3. \A k \in 1 .. Len(v) + Len(u) : k \in 1 .. Len(v) \/ k - Len(v) \in 1 .. Len(u)
    BY <1>3
  <2>4. \A k \in 1 .. Len(v) : w[k] = v[k]
    BY <1>4, <2>1
  <2>5. \A k \in 1 .. Len(u) : w[Len(v) + k] = u[k]
    BY <1>4, <2>2
  <2>6. (\A k \in 1 .. Len(v) : v[k] \in S) /\ (\A k \in 1 .. Len(u) : u[k] \in T)
    BY <1>3 DEF Members
  <2> QED
    BY <2>3, <2>4, <2>5, <2>6
<1>6. Increasing(w)
  <2> SUFFICES ASSUME NEW j \in 1 .. Len(v) + Len(u), NEW k \in 1 .. Len(v) + Len(u), j < k PROVE w[j] < w[k]
    BY <1>4 DEF Increasing
  <2>1. CASE j \in 1 .. Len(v) /\ k \in 1 .. Len(v)
    BY <1>3, <1>5, <2>1 DEF Increasing
  <2>2. CASE j \in 1 .. Len(v) /\ k - Len(v) \in 1 .. Len(u)
    <3>1. Len(v) + (k - Len(v)) = k
      BY <1>3
    <3>2. w[k] \in T /\ w[j] \in S
      BY <1>5, <2>2, <3>1
    <3> QED
      BY <3>2
  <2>3. CASE j \notin 1 .. Len(v) /\ j - Len(v) \in 1 .. Len(u) /\ k - Len(v) \in 1 .. Len(u)
    <3>1. Len(v) + (k - Len(v)) = k /\ Len(v) + (j - Len(v)) = j /\ j - Len(v) < k - Len(v)
      BY <1>3
    <3>2. w[k] = u[k - Len(v)] /\ w[j] = u[j - Len(v)]
      BY <1>5, <2>3, <3>1
    <3> QED
      BY <1>3, <2>3, <3>1, <3>2 DEF Increasing
  <2>4. k \in 1 .. Len(v) => j \in 1 .. Len(v)
    BY <1>3
  <2> QED
    BY <1>5, <2>1, <2>2, <2>3, <2>4
<1>7. Members(w) = S \cup T
  <2>1. ASSUME NEW i \in Members(w) PROVE i \in S \cup T
    <3>1. PICK k \in 1 .. Len(v) + Len(u) : i = w[k]
      BY <1>4, <2>1 DEF Members
    <3>2. k - Len(v) \in 1 .. Len(u) => Len(v) + (k - Len(v)) = k
      BY <1>3
    <3> QED
      BY <1>5, <3>1, <3>2
  <2>2. ASSUME NEW i \in S PROVE i \in Members(w)
    <3>1. PICK k \in 1 .. Len(v) : i = v[k]
      BY <1>3 DEF Members
    <3>2. k \in 1 .. Len(w) /\ w[k] = i
      BY <1>3, <1>4, <1>5, <3>1
    <3> QED
      BY <3>2 DEF Members
  <2>3. ASSUME NEW i \in T PROVE i \in Members(w)
    <3>1. PICK k \in 1 .. Len(u) : i = u[k]
      BY <1>3 DEF Members
    <3>2. Len(v) + k \in 1 .. Len(w) /\ w[Len(v) + k] = i
      BY <1>3, <1>4, <1>5, <3>1
    <3> QED
      BY <3>2 DEF Members
  <2> QED
    BY <2>1, <2>2, <2>3
<1>8. InOrder(Members(w)) = w
  BY <1>4, <1>6, InOrderIs
<1> QED
  BY <1>1, <1>2, <1>7, <1>8 DEF w

(* Nothing is listed of no ids. *)
LEMMA NothingInOrder == InOrder({}) = <<>>
<1>1. InOrder({}) \in Seq(Ids) /\ Members(InOrder({})) = {} /\ Len(InOrder({})) \in Nat
  BY InOrderLists, IdSeq
<1>2. Len(InOrder({})) = 0
  <2>1. 1 \notin 1 .. Len(InOrder({}))
    BY <1>1 DEF Members
  <2> QED
    BY <1>1, <2>1
<1> QED
  BY <1>1, <1>2, EmptySeq

-----------------------------------------------------------------------------
(* There is one walk to a leaf.                                            *)

(* Two walks to a leaf agree as far back as both go, *)
LEMMA WalksAgree ==
    ASSUME NEW ix, NEW leaf, NEW v \in Seq(Ids), NEW w \in Seq(Ids),
           IsWalk(ix, leaf, v), IsWalk(ix, leaf, w), Len(v) <= Len(w)
    PROVE  \A d \in 0 .. Len(v) - 1 : v[Len(v) - d] = w[Len(w) - d]
<1>1. /\ Len(v) \in Nat /\ Len(w) \in Nat /\ v[Len(v)] = leaf /\ w[Len(w)] = leaf
      /\ \A k \in 2 .. Len(v) : ix[v[k]].parentId = v[k - 1]
      /\ \A k \in 2 .. Len(w) : ix[w[k]].parentId = w[k - 1]
  BY IdSeq DEF IsWalk
<1> DEFINE T == {d \in 0 .. Len(v) - 1 : v[Len(v) - d] # w[Len(w) - d]}
<1> SUFFICES ASSUME T # {} PROVE FALSE
  OBVIOUS
<1>2. T \in SUBSET Nat
  BY <1>1
<1>3. PICK d \in T : \A j \in T : d <= j
  <2> HIDE DEF T
  <2> QED
    BY <1>2, NatMin
<1>4. d \in 0 .. Len(v) - 1 /\ d \in Nat /\ v[Len(v) - d] # w[Len(w) - d]
  BY <1>2, <1>3
<1>5. d # 0
  BY <1>1, <1>4
<1>6. d - 1 \in 0 .. Len(v) - 1 /\ ~(d <= d - 1)
  BY <1>1, <1>4, <1>5
<1>7. v[Len(v) - (d - 1)] = w[Len(w) - (d - 1)]
  <2>1. d - 1 \notin T
    BY <1>3, <1>6
  <2> HIDE DEF T
  <2> QED
    BY <1>6, <2>1 DEF T
<1>8. /\ Len(v) - (d - 1) \in 2 .. Len(v) /\ Len(v) - (d - 1) - 1 = Len(v) - d
      /\ Len(w) - (d - 1) \in 2 .. Len(w) /\ Len(w) - (d - 1) - 1 = Len(w) - d
  <2>1. /\ Len(v) \in Nat /\ Len(w) \in Nat /\ Len(v) <= Len(w)
        /\ d \in Nat /\ d # 0 /\ d <= Len(v) - 1
    BY <1>1, <1>4, <1>5
  <2>2. Len(v) - (d - 1) \in 2 .. Len(v) /\ Len(w) - (d - 1) \in 2 .. Len(w)
    BY <2>1
  <2>3. Len(v) - (d - 1) - 1 = Len(v) - d /\ Len(w) - (d - 1) - 1 = Len(w) - d
    BY <2>1
  <2> QED
    BY <2>2, <2>3
<1>9. /\ ix[v[Len(v) - (d - 1)]].parentId = v[Len(v) - d]
      /\ ix[w[Len(w) - (d - 1)]].parentId = w[Len(w) - d]
  BY <1>1, <1>8
<1> QED
  BY <1>4, <1>7, <1>9

(* ... and that is to the root of both. *)
LEMMA WalksEqual ==
    ASSUME NEW ix, NEW leaf, NEW v \in Seq(Ids), NEW w \in Seq(Ids),
           IsWalk(ix, leaf, v), IsWalk(ix, leaf, w), Len(v) <= Len(w)
    PROVE  v = w
<1>1. /\ Len(v) \in Nat /\ Len(w) \in Nat /\ Len(v) # 0
      /\ v \in [1 .. Len(v) -> Ids] /\ w \in [1 .. Len(w) -> Ids]
  BY IdSeq, EmptySeq DEF IsWalk
<1>2. \A d \in 0 .. Len(v) - 1 : v[Len(v) - d] = w[Len(w) - d]
  BY WalksAgree
<1>3. Len(v) = Len(w)
  <2> SUFFICES ASSUME Len(v) # Len(w) PROVE FALSE
    OBVIOUS
  <2>0. Len(v) \in Nat /\ Len(w) \in Nat /\ Len(v) # 0 /\ Len(v) <= Len(w) /\ Len(v) # Len(w)
    BY <1>1
  <2> DEFINE m == Len(w) - Len(v) + 1
  <2>1. m \in 2 .. Len(w) /\ m \in 1 .. Len(w) /\ m - 1 \in 1 .. Len(w)
    BY <2>0
  <2>2. v[1] = w[m]
    <3>1. Len(v) - 1 \in 0 .. Len(v) - 1 /\ Len(v) - (Len(v) - 1) = 1 /\ Len(w) - (Len(v) - 1) = m
      BY <2>0
    <3>2. v[Len(v) - (Len(v) - 1)] = w[Len(w) - (Len(v) - 1)]
      BY <1>2, <3>1
    <3> QED
      BY <3>1, <3>2
  <2> HIDE DEF m
  <2>3. ix[w[m]].parentId = w[m - 1] /\ ix[w[m - 1]] # NoEntry
    BY <2>1 DEF IsWalk
  <2>4. ix[v[1]].parentId = Null \/ ix[ix[v[1]].parentId] = NoEntry
    BY DEF IsWalk
  <2>5. w[m - 1] \in Ids
    BY <1>1, <2>1
  <2> QED
    BY <2>2, <2>3, <2>4, <2>5, IdsNat DEF Null
<1>4. ASSUME NEW k \in 1 .. Len(v) PROVE v[k] = w[k]
  <2>1. Len(v) - k \in 0 .. Len(v) - 1 /\ Len(v) - (Len(v) - k) = k
    BY <1>1
  <2> QED
    BY <1>2, <1>3, <2>1
<1> QED
  BY <1>1, <1>3, <1>4

(* So getBranch returns the walk there is. *)
LEMMA BranchIs ==
    ASSUME NEW ix, NEW leaf, NEW w \in Seq(Ids), Increasing(w), IsWalk(ix, leaf, w)
    PROVE  GetBranch(ix, leaf) = w
<1>1. w \in Walks
  BY IncreasingIsWalk
<1> DEFINE Fits(v) == IF v = <<>> THEN \A u \in Walks : ~IsWalk(ix, leaf, u) ELSE IsWalk(ix, leaf, v)
<1>2. \E v \in Walks : Fits(v)
  BY <1>1 DEF IsWalk
<1>3. GetBranch(ix, leaf) = CHOOSE v \in Walks : Fits(v)
  BY DEF GetBranch
<1>4. GetBranch(ix, leaf) \in Walks /\ Fits(GetBranch(ix, leaf))
  BY <1>2, <1>3
<1>5. PICK v : v = GetBranch(ix, leaf)
  OBVIOUS
<1>6. v \in Seq(Ids) /\ IsWalk(ix, leaf, v)
  BY <1>1, <1>4, <1>5, WalksIncrease
<1>7. Len(v) <= Len(w) \/ Len(w) <= Len(v)
  BY <1>6, IdSeq
<1> QED
  BY <1>5, <1>6, <1>7, WalksEqual

(* No entry, no branch. *)
LEMMA BranchOfNull ==
    ASSUME NEW ix
    PROVE  GetBranch(ix, Null) = <<>>
<1> SUFFICES ASSUME GetBranch(ix, Null) # <<>> PROVE FALSE
  OBVIOUS
<1>1. PICK w \in Walks : IsWalk(ix, Null, w)
  BY GetBranchType
<1>2. w \in Seq(Ids) /\ w # <<>> /\ w[Len(w)] = Null
  BY <1>1, WalksIncrease DEF IsWalk
<1>3. Len(w) \in 1 .. Len(w)
  BY <1>2, IdSeq, EmptySeq
<1> QED
  BY <1>2, <1>3, IdSeq, IdsNat DEF Null

-----------------------------------------------------------------------------
(* A compaction keeps a suffix of the context.                             *)

(* The ids of the entries the model sees at the positions a .. b.          *)
Seen(ix, path, a, b) == {path[k] : k \in {j \in a .. b : InContext(ix[path[j]])}}

(* Concatenation of ids is associative. *)
LEMMA IdsAssociate ==
    \A x, y, z \in Seq(Ids) : (x \o y) \o z = x \o (y \o z)
<1> TAKE x, y, z \in Seq(Ids)
<1> QED
  BY ConcatAssociative

(* What the model sees is everything it can from some position on, after   *)
(* a compaction perhaps.                                                   *)
LEMMA ContextShape ==
    ASSUME NEW ix, NEW path \in Seq(Ids), Increasing(path)
    PROVE  \E lo \in 1 .. Len(path) + 1 :
              \/ ContextOf(ix, path) = InOrder(Seen(ix, path, lo, Len(path)))
              \/ \E c \in 1 .. Len(path) :
                    /\ ~InContext(ix[path[c]])
                    /\ ContextOf(ix, path) = <<path[c]>> \o InOrder(Seen(ix, path, lo, Len(path)))
<1> DEFINE P == Len(path)
           cs == {k \in 1 .. P : ix[path[k]].type = "compaction"}
           seen(a, b) == InOrder(Seen(ix, path, a, b))
<1>1. P \in Nat /\ \A k \in 1 .. P : path[k] \in Ids /\ path[k] \in Nat
  BY IdSeq
<1>2. CASE cs = {}
  <2>1. ContextOf(ix, path) = seen(1, P)
    BY <1>2 DEF ContextOf, Seen
  <2> QED
    BY <1>1, <2>1
<1>3. CASE cs # {}
  <2>1. PICK c : c = MaxOf(cs)
    OBVIOUS
  <2>2. c \in 1 .. P /\ ix[path[c]].type = "compaction"
    <3>1. c \in cs
      <4>1. cs \in SUBSET (1 .. P)
        OBVIOUS
      <4> HIDE DEF cs
      <4> QED
        BY <1>1, <1>3, <2>1, <4>1, MaxOfProperties
    <3> QED
      BY <3>1
  <2> DEFINE from == {k \in 1 .. c - 1 : path[k] = ix[path[c]].ref}
  <2>3. ContextOf(ix, path) =
          <<path[c]>> \o (IF from = {} THEN <<>> ELSE seen(MaxOf(from), c - 1)) \o seen(c + 1, P)
    BY <1>3, <2>1 DEF ContextOf, Seen
  <2>4. ~InContext(ix[path[c]])
    BY <2>2 DEF InContext
  <2>5. <<path[c]>> \in Seq(Ids) /\ <<path[c]>> \o <<>> = <<path[c]>>
    BY <1>1, <2>2
  <2>6. CASE from = {}
    <3>1. ContextOf(ix, path) = <<path[c]>> \o seen(c + 1, P)
      BY <2>3, <2>5, <2>6
    <3>2. c + 1 \in 1 .. P + 1
      BY <1>1, <2>2
    <3> QED
      BY <2>2, <2>4, <3>1, <3>2
  <2>7. CASE from # {}
    <3>1. PICK m : m = MaxOf(from)
      OBVIOUS
    <3>2. m \in 1 .. c - 1
      <4>1. from \in SUBSET (1 .. c - 1) /\ c - 1 \in Nat
        BY <1>1, <2>2
      <4> HIDE DEF from
      <4> QED
        BY <2>7, <3>1, <4>1, MaxOfProperties
    <3>3. ContextOf(ix, path) = <<path[c]>> \o seen(m, c - 1) \o seen(c + 1, P)
      BY <2>3, <2>7, <3>1
    <3>4. Seen(ix, path, m, c - 1) \cup Seen(ix, path, c + 1, P) = Seen(ix, path, m, P)
      <4>1. \A j \in m .. P : j \in m .. c - 1 \/ j = c \/ j \in c + 1 .. P
        BY <1>1, <2>2, <3>2
      <4>2. \A j \in m .. c - 1 : j \in m .. P
        BY <1>1, <2>2, <3>2
      <4>3. \A j \in c + 1 .. P : j \in m .. P
        BY <1>1, <2>2, <3>2
      <4> QED
        BY <2>4, <4>1, <4>2, <4>3 DEF Seen
    <3>5. /\ Seen(ix, path, m, c - 1) \in SUBSET Ids /\ Seen(ix, path, c + 1, P) \in SUBSET Ids
          /\ \A s \in Seen(ix, path, m, c - 1), t \in Seen(ix, path, c + 1, P) : s < t
      <4>1. /\ \A j \in m .. c - 1 : j \in 1 .. P /\ j < c
            /\ \A j \in c + 1 .. P : j \in 1 .. P /\ c < j
        BY <1>1, <2>2, <3>2
      <4>2. /\ Seen(ix, path, m, c - 1) \in SUBSET Ids
            /\ Seen(ix, path, c + 1, P) \in SUBSET Ids
        BY <1>1, <4>1 DEF Seen
      <4>3. ASSUME NEW j \in m .. c - 1, NEW k \in c + 1 .. P PROVE path[j] < path[k]
        <5>1. j \in 1 .. P /\ k \in 1 .. P /\ j < k
          BY <1>1, <2>2, <3>2, <4>1
        <5> QED
          BY <5>1 DEF Increasing
      <4> QED
        BY <4>2, <4>3 DEF Seen
    <3>6. seen(m, c - 1) \o seen(c + 1, P) = seen(m, P)
      BY <3>4, <3>5, JoinInOrder
    <3>7. seen(m, c - 1) \in Seq(Ids) /\ seen(c + 1, P) \in Seq(Ids)
      BY <3>5, InOrderLists
    <3>8. <<path[c]>> \o seen(m, c - 1) \o seen(c + 1, P) = <<path[c]>> \o seen(m, P)
      <4>1. PICK v : v = seen(m, c - 1)
        OBVIOUS
      <4>2. PICK u : u = seen(c + 1, P)
        OBVIOUS
      <4>3. PICK x : x = <<path[c]>>
        OBVIOUS
      <4>4. v \in Seq(Ids) /\ u \in Seq(Ids) /\ x \in Seq(Ids) /\ v \o u = seen(m, P)
        BY <2>5, <3>6, <3>7, <4>1, <4>2, <4>3
      <4> HIDE DEF seen
      <4>5. (x \o v) \o u = x \o (v \o u)
        BY <4>4, IdsAssociate
      <4> QED
        BY <4>1, <4>2, <4>3, <4>4, <4>5
    <3>9. m \in 1 .. P + 1
      BY <1>1, <2>2, <3>2
    <3> QED
      BY <2>2, <2>4, <3>3, <3>8, <3>9 DEF seen
  <2> QED
    BY <2>6, <2>7
<1> QED
  BY <1>2, <1>3

(* A list without the id in front of it. *)
LEMMA TailOfFirst == \A n \in Ids, D \in Seq(Ids) : Tail(<<n>> \o D) = D
<1> TAKE n \in Ids, D \in Seq(Ids)
<1>1. PICK h : h = <<n>>
  OBVIOUS
<1>2. h \in Seq(Ids) /\ Len(h) = 1 /\ Len(D) \in Nat
  BY <1>1, LenProperties
<1>3. PICK w : w = h \o D
  OBVIOUS
<1>4. /\ w \in Seq(Ids) /\ Len(w) = 1 + Len(D)
      /\ \A k \in 1 .. 1 + Len(D) : w[k] = IF k <= 1 THEN h[k] ELSE D[k - 1]
  <2>1. /\ h \o D \in Seq(Ids) /\ Len(h \o D) = Len(h) + Len(D)
        /\ \A j \in 1 .. Len(h) + Len(D) : (h \o D)[j] = IF j <= Len(h) THEN h[j] ELSE D[j - Len(h)]
    BY <1>2, ConcatProperties
  <2> QED
    BY <1>2, <1>3, <2>1
<1>5. w # <<>>
  BY <1>2, <1>4, EmptySeq
<1>6. /\ Tail(w) \in Seq(Ids) /\ Len(Tail(w)) = Len(w) - 1
      /\ \A i \in 1 .. Len(Tail(w)) : Tail(w)[i] = w[i + 1]
  BY <1>4, <1>5, HeadTailProperties
<1>7. PICK t : t = Tail(w)
  OBVIOUS
<1>8. t \in Seq(Ids) /\ Len(t) = Len(D) /\ \A i \in 1 .. Len(D) : t[i] = w[i + 1]
  BY <1>2, <1>4, <1>6, <1>7
<1>9. \A i \in 1 .. Len(D) : t[i] = D[i]
  <2> SUFFICES ASSUME NEW i \in 1 .. Len(D) PROVE t[i] = D[i]
    OBVIOUS
  <2>1. i + 1 \in 1 .. 1 + Len(D) /\ ~(i + 1 <= 1) /\ (i + 1) - 1 = i
    BY <1>2
  <2> QED
    BY <1>4, <1>8, <2>1
<1>10. t = D
  BY <1>8, <1>9, SeqEqual
<1> QED
  BY <1>1, <1>3, <1>7, <1>10

(* From an entry the model sees on, it sees what it can of the branch.     *)
LEMMA ContextFrom ==
    ASSUME NEW ix, NEW path \in Seq(Ids), Increasing(path),
           NEW before, before = ContextOf(ix, path),
           NEW k \in 1 .. Len(before), InContext(ix[before[k]])
    PROVE  \E m \in 1 .. Len(path) :
              /\ path[m] = before[k]
              /\ SubSeq(before, k, Len(before)) = InOrder(Seen(ix, path, m, Len(path)))
<1> DEFINE P == Len(path)
<1>1. P \in Nat /\ \A j \in 1 .. P : path[j] \in Ids /\ path[j] \in Nat
  BY IdSeq
<1>2. PICK lo \in 1 .. P + 1 :
              \/ before = InOrder(Seen(ix, path, lo, P))
              \/ \E c \in 1 .. P :
                    /\ ~InContext(ix[path[c]])
                    /\ before = <<path[c]>> \o InOrder(Seen(ix, path, lo, P))
  BY ContextShape
<1>3. PICK D : D = InOrder(Seen(ix, path, lo, P))
  OBVIOUS
<1>4. Seen(ix, path, lo, P) \in SUBSET Ids
  <2>1. \A j \in lo .. P : j \in 1 .. P
    BY <1>1
  <2> QED
    BY <1>1, <2>1 DEF Seen
<1>5. D \in Seq(Ids) /\ Members(D) = Seen(ix, path, lo, P) /\ Len(D) \in Nat
  BY <1>3, <1>4, InOrderLists, IdSeq
<1>6. PICK d \in 1 .. Len(D) :
        D[d] = before[k] /\ SubSeq(before, k, Len(before)) = SubSeq(D, d, Len(D))
  <2>1. CASE before = D
    BY <2>1
  <2>2. ASSUME NEW c \in 1 .. P, ~InContext(ix[path[c]]), before = <<path[c]>> \o D
        PROVE  \E d \in 1 .. Len(D) :
                 D[d] = before[k] /\ SubSeq(before, k, Len(before)) = SubSeq(D, d, Len(D))
    <3>1. path[c] \in Ids /\ <<path[c]>> \in Seq(Ids) /\ Len(<<path[c]>>) = 1 /\ <<path[c]>>[1] = path[c]
      BY <1>1
    <3>2. /\ before \in Seq(Ids) /\ Len(before) = 1 + Len(D) /\ before[1] = path[c]
          /\ \A j \in 1 .. Len(D) : before[1 + j] = D[j]
      <4>1. PICK h : h = <<path[c]>>
        OBVIOUS
      <4>2. h \in Seq(Ids) /\ Len(h) = 1 /\ h[1] = path[c] /\ before = h \o D
        BY <2>2, <3>1, <4>1
      <4>3. /\ before \in Seq(Ids) /\ Len(before) = Len(h) + Len(D)
            /\ \A j \in 1 .. Len(h) + Len(D) : before[j] = IF j <= Len(h) THEN h[j] ELSE D[j - Len(h)]
        <5>1. /\ h \o D \in Seq(Ids) /\ Len(h \o D) = Len(h) + Len(D)
              /\ \A j \in 1 .. Len(h) + Len(D) : (h \o D)[j] = IF j <= Len(h) THEN h[j] ELSE D[j - Len(h)]
          BY <1>5, <4>2, ConcatProperties
        <5> QED
          BY <4>2, <5>1, Zenon
      <4>4. /\ before \in Seq(Ids) /\ Len(before) = 1 + Len(D)
            /\ \A j \in 1 .. 1 + Len(D) : before[j] = IF j <= 1 THEN h[j] ELSE D[j - 1]
        BY <4>2, <4>3
      <4>5. \A j \in 1 .. Len(D) : before[1 + j] = D[j]
        <5> SUFFICES ASSUME NEW j \in 1 .. Len(D) PROVE before[1 + j] = D[j]
          OBVIOUS
        <5>1. 1 + j \in 1 .. 1 + Len(D) /\ ~(1 + j <= 1) /\ (1 + j) - 1 = j
          BY <1>5
        <5> QED
          BY <4>4, <5>1
      <4>6. 1 \in 1 .. 1 + Len(D)
        BY <1>5
      <4> QED
        BY <4>2, <4>4, <4>5, <4>6
    <3>3. k # 1
      BY <2>2, <3>2
    <3>4. k - 1 \in 1 .. Len(D) /\ 1 + (k - 1) = k
      <4>1. k \in 1 .. 1 + Len(D)
        BY <3>2
      <4> QED
        BY <1>5, <3>3, <4>1
    <3>5. D[k - 1] = before[k]
      BY <3>2, <3>4
    <3>6. SubSeq(before, k, Len(before)) = SubSeq(D, k - 1, Len(D))
      <4> DEFINE L == Len(D) - (k - 1) + 1
      <4>1. L \in Nat /\ Len(before) - k + 1 = L /\ k \in 1 .. Len(before) /\ Len(before) \in Nat
        BY <1>5, <3>2, <3>4
      <4>2. PICK a : a = SubSeq(before, k, Len(before))
        OBVIOUS
      <4>3. PICK b : b = SubSeq(D, k - 1, Len(D))
        OBVIOUS
      <4>4. /\ a \in Seq(Ids) /\ Len(a) = Len(before) - k + 1
            /\ \A j \in 1 .. Len(before) - k + 1 : a[j] = before[k + j - 1]
        <5>1. \A j \in k .. Len(before) : before[j] \in Ids
          BY <3>2, <4>1, ElementOfSeq
        <5>2. k <= Len(before) + 1 /\ k \in Int
          BY <4>1
        <5> QED
          BY <3>2, <4>1, <4>2, <5>1, <5>2, SubSeqProperties
      <4>5. /\ b \in Seq(Ids) /\ Len(b) = Len(D) - (k - 1) + 1
            /\ \A j \in 1 .. Len(D) - (k - 1) + 1 : b[j] = D[(k - 1) + j - 1]
        <5>1. \A j \in k - 1 .. Len(D) : D[j] \in Ids
          BY <1>5, <3>4, ElementOfSeq
        <5> QED
          BY <1>5, <3>4, <4>3, <5>1, SubSeqProperties, SMTT(30)
      <4>6. \A j \in 1 .. L : a[j] = b[j]
        <5> SUFFICES ASSUME NEW j \in 1 .. L PROVE a[j] = b[j]
          OBVIOUS
        <5>1. (k - 1) + j - 1 \in 1 .. Len(D) /\ k + j - 1 = 1 + ((k - 1) + j - 1)
          BY <1>5, <3>4
        <5>2. before[1 + ((k - 1) + j - 1)] = D[(k - 1) + j - 1]
          BY <3>2, <5>1
        <5>3. a[j] = before[k + j - 1]
          BY <4>1, <4>4
        <5>4. b[j] = D[(k - 1) + j - 1]
          BY <4>5
        <5> QED
          BY <5>1, <5>2, <5>3, <5>4
      <4>7. Len(a) = L /\ Len(b) = L
        BY <4>1, <4>4, <4>5
      <4> HIDE DEF L
      <4>8. a = b
        BY <4>4, <4>5, <4>6, <4>7, SeqEqual
      <4> QED
        BY <4>2, <4>3, <4>8
    <3> QED
      BY <3>4, <3>5, <3>6
  <2> QED
    BY <1>2, <1>3, <2>1, <2>2
<1>7. SubSeq(D, d, Len(D)) = InOrder({i \in Seen(ix, path, lo, P) : D[d] <= i})
  BY <1>3, <1>4, SuffixInOrder
<1>8. PICK m \in lo .. P : D[d] = path[m] /\ InContext(ix[path[m]])
  <2>1. D[d] \in Seen(ix, path, lo, P)
    BY <1>5 DEF Members
  <2> QED
    BY <2>1 DEF Seen
<1>9. m \in 1 .. P
  BY <1>1
<1>10. {i \in Seen(ix, path, lo, P) : path[m] <= i} = Seen(ix, path, m, P)
  <2>1. ASSUME NEW j \in lo .. P PROVE path[m] <= path[j] <=> j \in m .. P
    <3>1. j \in 1 .. P /\ (j < m \/ j = m \/ m < j)
      BY <1>1, <1>9
    <3>2. path[j] \in Nat /\ path[m] \in Nat
      BY <1>1, <1>9, <3>1
    <3>3. j < m => path[j] < path[m]
      BY <1>9, <3>1 DEF Increasing
    <3>4. m < j => path[m] < path[j]
      BY <1>9, <3>1 DEF Increasing
    <3> QED
      BY <1>1, <1>9, <3>1, <3>2, <3>3, <3>4
  <2>2. \A j \in m .. P : j \in lo .. P
    BY <1>1, <1>9
  <2> QED
    BY <2>1, <2>2 DEF Seen
<1> QED
  BY <1>6, <1>7, <1>8, <1>9, <1>10

(* What the model sees after a compaction of the branch that keeps from    *)
(* its entry at m.                                                         *)
LEMMA ContextCompacted ==
    ASSUME NEW ix \in [Ids -> Entry \cup {NoEntry}], NEW path \in Seq(Ids), Increasing(path),
           NEW n \in Ids, \A k \in 1 .. Len(path) : path[k] < n,
           NEW e \in Entry, e.type = "compaction",
           NEW m \in 1 .. Len(path), e.ref = path[m]
    PROVE  Tail(ContextOf([ix EXCEPT ![n] = e], Append(path, n))) = InOrder(Seen(ix, path, m, Len(path)))
<1> DEFINE P == Len(path)
           S == Seen(ix, path, m, P)
<1>1. PICK ix2 : ix2 = [ix EXCEPT ![n] = e]
  OBVIOUS
<1>2. PICK path2 : path2 = Append(path, n)
  OBVIOUS
<1>3. P \in Nat /\ n \in Nat /\ \A k \in 1 .. P : path[k] \in Ids /\ path[k] \in Nat
  BY IdSeq, IdsNat
<1>4. /\ Len(path2) = P + 1 /\ path2[P + 1] = n
      /\ \A k \in 1 .. P : path2[k] = path[k]
  BY <1>2, AppendProperties
<1>5. /\ ix2[n] = e
      /\ \A k \in 1 .. P : ix2[path2[k]] = ix[path[k]]
  BY <1>1, <1>3, <1>4
<1> DEFINE cs == {k \in 1 .. P + 1 : ix2[path2[k]].type = "compaction"}
           from == {k \in 1 .. P : path2[k] = e.ref}
<1>6. MaxOf(cs) = P + 1 /\ cs # {}
  <2>1. P + 1 \in cs /\ cs \in SUBSET (1 .. P + 1) /\ P + 1 \in Nat
    BY <1>3, <1>4, <1>5
  <2> HIDE DEF cs
  <2>2. MaxOf(cs) \in cs /\ \A k \in cs : k <= MaxOf(cs)
    BY <2>1, MaxOfProperties
  <2>3. MaxOf(cs) \in 1 .. P + 1 /\ P + 1 <= MaxOf(cs) /\ P + 1 \in Nat
    BY <2>1, <2>2
  <2> QED
    BY <2>1, <2>3
<1>7. from = {m} /\ MaxOf(from) = m
  <2>1. from = {m}
    <3>1. ASSUME NEW k \in 1 .. P, path[k] = path[m] PROVE k = m
      <4>1. k < m \/ k = m \/ m < k
        BY <1>3
      <4> QED
        BY <1>3, <3>1, <4>1 DEF Increasing
    <3> QED
      BY <1>4, <3>1
  <2>2. {m} \in SUBSET (1 .. P) /\ {m} # {}
    OBVIOUS
  <2>3. MaxOf({m}) \in {m}
    BY <1>3, <2>2, MaxOfProperties
  <2> QED
    BY <2>1, <2>3
<1>8. Seen(ix2, path2, m, P) = S
  <2>1. \A k \in m .. P : k \in 1 .. P
    BY <1>3
  <2> QED
    BY <1>4, <1>5, <2>1 DEF Seen
<1>9. Seen(ix2, path2, P + 2, P + 1) = {}
  <2>1. P + 2 .. P + 1 = {}
    BY <1>3
  <2> QED
    BY <2>1 DEF Seen
<1>10. ContextOf(ix2, path2) = <<n>> \o InOrder(S) \o <<>>
  <2>1. {k \in 1 .. Len(path2) : ix2[path2[k]].type = "compaction"} = cs
    BY <1>4
  <2>2. {k \in 1 .. (P + 1) - 1 : path2[k] = ix2[path2[P + 1]].ref} = from
    <3>1. (P + 1) - 1 = P
      BY <1>3
    <3> QED
      BY <1>4, <1>5, <3>1
  <2>3. (P + 1) - 1 = P /\ (P + 1) + 1 = P + 2
    BY <1>3
  <2> HIDE DEF cs, from
  <2>4. ContextOf(ix2, path2) = <<path2[P + 1]>> \o InOrder(Seen(ix2, path2, MaxOf(from), (P + 1) - 1))
                                  \o InOrder(Seen(ix2, path2, (P + 1) + 1, Len(path2)))
    BY <1>6, <1>7, <2>1, <2>2 DEF ContextOf, Seen
  <2> QED
    BY <1>4, <1>7, <1>8, <1>9, <2>3, <2>4, NothingInOrder
<1>11. S \in SUBSET Ids
  <2>1. \A k \in m .. P : k \in 1 .. P
    BY <1>3
  <2> QED
    BY <1>3, <2>1 DEF Seen
<1>12. PICK D : D = InOrder(S)
  OBVIOUS
<1>13. D \in Seq(Ids) /\ <<n>> \in Seq(Ids) /\ <<n>> \o D \in Seq(Ids)
  BY <1>11, <1>12, InOrderLists, ConcatProperties
<1>14. (<<n>> \o D) \o <<>> = <<n>> \o D
  BY <1>13, ConcatEmptySeq
<1>15. Tail(<<n>> \o D) = D
  BY <1>13, TailOfFirst
<1> QED
  BY <1>1, <1>2, <1>10, <1>12, <1>14, <1>15

(* The entries of the index, and their parents, were handed out before n.  *)
AllBelow(ix, n) == \A i \in Ids : ix[i] # NoEntry => i < n /\ ix[i].parentId < n

(* The index with one entry more.                                          *)
With(ix, n, e) == [ix EXCEPT ![n] = e]

(* A new entry at the leaf makes the branch one longer.                    *)
LEMMA BranchAppend ==
    ASSUME NEW ix \in [Ids -> Entry \cup {NoEntry}], NEW leaf \in Ids, NEW n \in Ids,
           AllBelow(ix, n),
           NEW e \in Entry, e.parentId = leaf, GetBranch(ix, leaf) # <<>>
    PROVE  /\ GetBranch(With(ix, n, e), n) = Append(GetBranch(ix, leaf), n)
           /\ GetBranch(ix, leaf) \in Seq(Ids) /\ Increasing(GetBranch(ix, leaf))
           /\ \A k \in 1 .. Len(GetBranch(ix, leaf)) : GetBranch(ix, leaf)[k] < n
<1>1. PICK w : w = GetBranch(ix, leaf)
  OBVIOUS
<1>2. PICK ix2 : ix2 = With(ix, n, e)
  OBVIOUS
<1>3. w \in Seq(Ids) /\ Increasing(w) /\ IsWalk(ix, leaf, w) /\ w # <<>>
  BY <1>1, GetBranchType, WalksIncrease
<1>4. Len(w) \in Nat /\ Len(w) # 0 /\ n \in Nat /\ \A k \in 1 .. Len(w) : w[k] \in Ids /\ w[k] \in Nat
  BY <1>3, IdSeq, IdsNat, EmptySeq
<1>5. \A k \in 1 .. Len(w) : ix[w[k]] # NoEntry /\ w[k] < n /\ ix[w[k]].parentId < n
  BY <1>3, <1>4 DEF IsWalk, AllBelow
<1>6. PICK u : u = Append(w, n)
  OBVIOUS
<1>7. /\ u \in Seq(Ids) /\ Len(u) = Len(w) + 1 /\ u[Len(w) + 1] = n
      /\ \A k \in 1 .. Len(w) : u[k] = w[k]
  BY <1>3, <1>6, AppendProperties
<1>8. \A k \in 1 .. Len(w) + 1 : k \in 1 .. Len(w) \/ k = Len(w) + 1
  BY <1>4
<1>9. Increasing(u)
  <2> SUFFICES ASSUME NEW j \in 1 .. Len(w) + 1, NEW k \in 1 .. Len(w) + 1, j < k PROVE u[j] < u[k]
    BY <1>7 DEF Increasing
  <2>1. j \in 1 .. Len(w)
    BY <1>4
  <2>2. CASE k \in 1 .. Len(w)
    BY <1>3, <1>7, <2>1, <2>2 DEF Increasing
  <2>3. CASE k = Len(w) + 1
    BY <1>5, <1>7, <2>1, <2>3
  <2> QED
    BY <1>8, <2>2, <2>3
<1>10. ix2[n] = e /\ \A i \in Ids : i # n => ix2[i] = ix[i]
  BY <1>2 DEF With
<1>11. \A k \in 1 .. Len(w) : ix2[u[k]] = ix[w[k]]
  <2> SUFFICES ASSUME NEW k \in 1 .. Len(w) PROVE ix2[u[k]] = ix[w[k]]
    OBVIOUS
  <2>1. w[k] # n
    BY <1>4, <1>5
  <2> QED
    BY <1>4, <1>7, <1>10, <2>1
<1>12. IsWalk(ix2, n, u)
  <2>1. u # <<>> /\ u[Len(u)] = n
    BY <1>4, <1>7, EmptySeq
  <2>2. \A k \in 1 .. Len(u) : ix2[u[k]] # NoEntry
    BY <1>5, <1>7, <1>8, <1>10, <1>11, NotEntries
  <2>3. ASSUME NEW k \in 2 .. Len(u) PROVE ix2[u[k]].parentId = u[k - 1]
    <3>1. CASE k \in 2 .. Len(w)
      <4>1. k \in 1 .. Len(w) /\ k - 1 \in 1 .. Len(w)
        BY <1>4, <3>1
      <4>2. ix[w[k]].parentId = w[k - 1]
        BY <1>3, <3>1 DEF IsWalk
      <4> QED
        BY <1>7, <1>11, <4>1, <4>2
    <3>2. CASE k = Len(w) + 1
      <4>1. Len(w) \in 1 .. Len(w) /\ k - 1 = Len(w)
        BY <1>4, <3>2
      <4>2. u[k - 1] = leaf
        BY <1>3, <1>7, <4>1 DEF IsWalk
      <4> QED
        BY <1>7, <1>10, <3>2, <4>2
    <3> QED
      BY <1>4, <1>7, <3>1, <3>2
  <2>4. ix2[u[1]].parentId = Null \/ ix2[ix2[u[1]].parentId] = NoEntry
    <3>1. 1 \in 1 .. Len(w)
      BY <1>4
    <3>2. ix2[u[1]].parentId = ix[w[1]].parentId
      BY <1>11, <3>1
    <3>3. ix[w[1]].parentId = Null \/ ix[ix[w[1]].parentId] = NoEntry
      BY <1>3 DEF IsWalk
    <3>4. ix[w[1]].parentId \in Ids \cup {Null} /\ ix[w[1]].parentId # n
      <4>1. ix[w[1]] \in Entry
        BY <1>4, <1>5, <3>1
      <4>2. ix[w[1]].parentId < n /\ ix[w[1]].parentId \in Ids \cup {Null}
        BY <1>5, <3>1, <4>1 DEF Entry
      <4> QED
        BY <1>4, <4>2, IdsNat DEF Null
    <3> QED
      BY <1>10, <3>2, <3>3, <3>4
  <2> QED
    BY <2>1, <2>2, <2>3, <2>4 DEF IsWalk
<1>13. GetBranch(ix2, n) = u
  BY <1>7, <1>9, <1>12, BranchIs
<1> QED
  BY <1>1, <1>2, <1>3, <1>5, <1>6, <1>13

(* What an append adds at the end.                                         *)
LEMMA AppendedIs ==
    ASSUME TypeOK, CanAppend, NEW e \in Entry, NEW labels, AppendEntry(e, labels), Appends("compaction")
    PROVE  /\ e.type = "compaction"
           /\ byId' = [byId EXCEPT ![e.id] = e] /\ leafId' = e.id
<1>1. fileEntries \in Seq(Line) /\ Len(fileEntries) \in Nat /\ e \in Line
  BY LenProperties DEF TypeOK, Line
<1>2. ~Exit
  <2>1. CASE Exit
    <3>1. Len(fileEntries') = 0
      BY <2>1, EmptySeq DEF Exit
    <3> QED
      BY <1>1, <3>1 DEF Appends
  <2> QED
    BY <2>1
<1>3. /\ fileEntries' = Append(fileEntries, e)
      /\ byId' = [byId EXCEPT ![e.id] = e] /\ leafId' = e.id
  BY <1>2, AppendEntryEffect
<1>4. fileEntries'[Len(fileEntries')] = e
  <2>1. Len(Append(fileEntries, e)) = Len(fileEntries) + 1 /\ Append(fileEntries, e)[Len(fileEntries) + 1] = e
    BY <1>1, AppendProperties
  <2> QED
    BY <1>3, <2>1
<1> QED
  BY <1>3, <1>4 DEF Appends

(* Two lists, one after the other.                                         *)
LEMMA ConcatElements ==
    ASSUME NEW S, NEW x \in Seq(S), NEW y \in Seq(S)
    PROVE  /\ x \o y \in Seq(S) /\ Len(x \o y) = Len(x) + Len(y)
           /\ \A k \in 1 .. Len(x) : (x \o y)[k] = x[k]
           /\ \A k \in 1 .. Len(y) : (x \o y)[Len(x) + k] = y[k]
<1>1. PICK w : w = x \o y
  OBVIOUS
<1>2. Len(x) \in Nat /\ Len(y) \in Nat
  BY LenProperties
<1>3. /\ w \in Seq(S) /\ Len(w) = Len(x) + Len(y)
      /\ \A k \in 1 .. Len(x) + Len(y) : w[k] = IF k <= Len(x) THEN x[k] ELSE y[k - Len(x)]
  <2>1. /\ x \o y \in Seq(S) /\ Len(x \o y) = Len(x) + Len(y)
        /\ \A k \in 1 .. Len(x) + Len(y) : (x \o y)[k] = IF k <= Len(x) THEN x[k] ELSE y[k - Len(x)]
    BY ConcatProperties
  <2> QED
    BY <1>1, <2>1
<1>4. \A k \in 1 .. Len(x) : w[k] = x[k]
  <2>1. \A k \in 1 .. Len(x) : k \in 1 .. Len(x) + Len(y) /\ k <= Len(x)
    BY <1>2
  <2> QED
    BY <1>3, <2>1
<1>5. \A k \in 1 .. Len(y) : w[Len(x) + k] = y[k]
  <2>1. \A k \in 1 .. Len(y) : /\ Len(x) + k \in 1 .. Len(x) + Len(y) /\ ~(Len(x) + k <= Len(x))
                               /\ (Len(x) + k) - Len(x) = k
    BY <1>2
  <2> QED
    BY <1>3, <2>1
<1> QED
  BY <1>1, <1>3, <1>4, <1>5

(* The last line of a fork with labels is a label.                         *)
LEMMA ForkEndsInLabel ==
    ASSUME TypeOK, NEW leaf, NEW walk, walk = GetBranch(byId, leaf), walk # <<>>,
           NEW path, path = WithoutLabels(walk), NEW labels, labels = ForkLabels(path),
           nextId + Len(labels) <= MaxId + 1, Len(labels) = 1,
           NEW es, es = ForkEntries(path, labels)
    PROVE  es[Len(es)].type = "label"
<1> DEFINE kept == [k \in 1 .. Len(path) |-> byId[path[k]]]
<1>1. /\ labels \in Seq(Line) /\ path \in Seq(Ids)
      /\ \A k \in 1 .. Len(path) : byId[path[k]] \in Entry
  BY ForkType
<1>2. kept \in Seq(Line)
  <2>1. \A k \in 1 .. Len(path) : byId[path[k]] \in Line
    BY <1>1 DEF Line
  <2> QED
    BY <1>1, <2>1, LenProperties
<1>3. PICK front : front = <<Header>> \o kept
  OBVIOUS
<1>4. front \in Seq(Line) /\ Len(front) \in Nat
  <2>1. <<Header>> \in Seq(Line)
    BY DEF Line
  <2> HIDE DEF kept
  <2>2. <<Header>> \o kept \in Seq(Line)
    BY <1>2, <2>1, ConcatProperties
  <2> QED
    BY <1>3, <2>2, LenProperties
<1>5. es = front \o labels
  BY <1>3 DEF ForkEntries
<1>6. Len(es) = Len(front) + 1 /\ es[Len(front) + 1] = labels[1]
  <2>1. PICK y : y = labels
    OBVIOUS
  <2>2. y \in Seq(Line) /\ Len(y) = 1 /\ 1 \in 1 .. Len(y) /\ es = front \o y
    <3>1. y \in Seq(Line)
      BY <1>1, <2>1
    <3>2. Len(y) = 1
      BY <2>1
    <3>3. 1 \in 1 .. Len(y)
      BY <3>2
    <3>4. es = front \o y
      BY <1>5, <2>1
    <3> QED
      BY <3>1, <3>2, <3>3, <3>4
  <2>3. Len(front \o y) = Len(front) + Len(y) /\ \A k \in 1 .. Len(y) : (front \o y)[Len(front) + k] = y[k]
    <3>1. front \in Seq(Line) /\ y \in Seq(Line)
      BY <1>4, <2>2
    <3>2. Len(front \o y) = Len(front) + Len(y)
      BY <3>1, ConcatElements
    <3>3. \A k \in 1 .. Len(y) : (front \o y)[Len(front) + k] = y[k]
      BY <3>1, ConcatElements
    <3> QED
      BY <3>2, <3>3
  <2>4. (front \o y)[Len(front) + 1] = y[1]
    BY <2>2, <2>3
  <2> QED
    BY <2>1, <2>2, <2>3, <2>4
<1>7. labels[1].type = "label"
  <2> DEFINE targets == InOrder({i \in {path[k] : k \in 1 .. Len(path)} : labelsById[i] # NoLabel})
             last    == IF path = <<>> THEN Null ELSE path[Len(path)]
             label(k) == [id |-> nextId + k - 1,
                          parentId |-> IF k = 1 THEN last ELSE nextId + k - 2,
                          type |-> "label", ref |-> targets[k], val |-> labelsById[targets[k]]]
  <2>1. labels = [k \in 1 .. Len(targets) |-> label(k)]
    BY DEF ForkLabels
  <2>2. Len(targets) \in Nat
    BY InOrderType, LenProperties
  <2> HIDE DEF targets, last
  <2>3. 1 \in 1 .. Len(targets)
    <3>1. Len(labels) = Len(targets)
      BY <2>1, <2>2
    <3> QED
      BY <2>2, <3>1
  <2> QED
    BY <2>1, <2>3
<1> QED
  BY <1>6, <1>7

(* Only appendCompaction appends a compaction.                             *)
LEMMA CompactionsAppended ==
    ASSUME TypeOK, [Next]_vars, Appends("compaction")
    PROVE  /\ CanAppend
           /\ \E e \in Entry : /\ e.type = "compaction" /\ e.id = nextId /\ e.parentId = leafId
                               /\ byId' = [byId EXCEPT ![nextId] = e] /\ leafId' = nextId
<1> DEFINE Added == /\ CanAppend
                    /\ \E e \in Entry : /\ e.type = "compaction" /\ e.id = nextId /\ e.parentId = leafId
                                        /\ byId' = [byId EXCEPT ![nextId] = e] /\ leafId' = nextId
<1>0. nextId \in Nat /\ nextId' = nextId + 1 /\ nextId' # nextId
  BY BoundsAssumption DEF TypeOK, Appends
<1>1. /\ leafId \in Ids \cup {Null} /\ Null \in Ids \cup {Null}
      /\ "none" \in Roles \cup Labels \cup {NoLabel}
      /\ SettingTypes \subseteq Types \ {"compaction"} /\ ExtensionTypes \subseteq Types \ {"compaction"}
      /\ {"message", "branch_summary", "label", "compaction"} \subseteq Types
  BY DEF TypeOK, NoLabel, Types, SettingTypes, ExtensionTypes
<1>2. ASSUME NEW type \in Types, NEW parent \in Ids \cup {Null}, NEW ref \in Ids \cup {Null},
             NEW val \in Roles \cup Labels \cup {NoLabel}, NEW labels,
             type = "label" => val \in Labels \cup {NoLabel},
             CanAppend, AppendEntry(NewEntry(type, parent, ref, val), labels)
      PROVE  /\ type = "compaction" /\ NewEntry(type, parent, ref, val) \in Entry
             /\ byId' = [byId EXCEPT ![nextId] = NewEntry(type, parent, ref, val)] /\ leafId' = nextId
  <2>1. NewEntry(type, parent, ref, val) \in Entry
    BY <1>2, NewEntryType
  <2>2. /\ NewEntry(type, parent, ref, val).type = type
        /\ NewEntry(type, parent, ref, val).id = nextId
    BY DEF NewEntry
  <2> QED
    BY <1>2, <2>1, <2>2, AppendedIs
<1>3. ASSUME NEW role \in Roles, AppendMessage(role) PROVE Added
  BY <1>1, <1>2, <1>3 DEF AppendMessage
<1>4. ASSUME NEW type \in SettingTypes \cup ExtensionTypes,
             AppendSettingsChange(type) \/ AppendExtensionEntry(type)
      PROVE  Added
  <2>1. type \in Types \ {"compaction"}
    BY <1>1
  <2>2. type # "label"
    BY DEF SettingTypes, ExtensionTypes
  <2> QED
    BY <1>1, <1>2, <1>4, <2>1, <2>2 DEF AppendSettingsChange, AppendExtensionEntry
<1>5. ASSUME NEW i \in Ids, AppendCompaction(i) PROVE Added
  <2>1. CanAppend /\ AppendEntry(NewEntry("compaction", leafId, i, "none"), labelsById)
    BY <1>5 DEF AppendCompaction
  <2>2. /\ NewEntry("compaction", leafId, i, "none") \in Entry
        /\ byId' = [byId EXCEPT ![nextId] = NewEntry("compaction", leafId, i, "none")]
        /\ leafId' = nextId
    BY <1>1, <1>2, <2>1
  <2>3. /\ NewEntry("compaction", leafId, i, "none").type = "compaction"
        /\ NewEntry("compaction", leafId, i, "none").id = nextId
        /\ NewEntry("compaction", leafId, i, "none").parentId = leafId
    BY DEF NewEntry
  <2> QED
    BY <2>1, <2>2, <2>3
<1>6. ASSUME NEW i \in Ids, NEW label \in Labels \cup {NoLabel}, AppendLabelChange(i, label) PROVE Added
  BY <1>1, <1>2, <1>6 DEF AppendLabelChange
<1>7. ASSUME NEW i \in Ids \cup {Null}, BranchWithSummary(i) PROVE Added
  BY <1>1, <1>2, <1>7 DEF BranchWithSummary
<1>8. ASSUME NEW i \in Ids, NEW f \in Files \cup {NoFile}, CreateBranchedSession(i, f) PROVE Added
  <2>1. PICK walk \in {GetBranch(byId, i)} : \E path \in {WithoutLabels(walk)} :
           \E labels \in {ForkLabels(path)} : \E es \in {ForkEntries(path, labels)} :
              /\ walk # <<>> /\ nextId + Len(labels) <= MaxId + 1
              /\ Exit \/ fileEntries' = es
              /\ nextId' = nextId + Len(labels)
    BY <1>8 DEF CreateBranchedSession, BuildIndex
  <2>2. PICK path \in {WithoutLabels(walk)} :
           \E labels \in {ForkLabels(path)} : \E es \in {ForkEntries(path, labels)} :
              /\ walk # <<>> /\ nextId + Len(labels) <= MaxId + 1
              /\ Exit \/ fileEntries' = es
              /\ nextId' = nextId + Len(labels)
    BY <2>1
  <2>3. PICK labels, es :
              /\ labels = ForkLabels(path) /\ es = ForkEntries(path, labels)
              /\ walk # <<>> /\ nextId + Len(labels) <= MaxId + 1
              /\ Exit \/ fileEntries' = es
              /\ nextId' = nextId + Len(labels)
    BY <2>2
  <2>4. Len(labels) = 1
    <3>1. labels \in Seq(Line)
      BY <2>1, <2>2, <2>3, ForkType
    <3>2. PICK n : n = Len(labels)
      OBVIOUS
    <3>3. n \in Nat /\ nextId + n = nextId + 1
      BY <1>0, <2>3, <3>1, <3>2, LenProperties
    <3>4. n = 1
      BY <1>0, <3>3
    <3> QED
      BY <3>2, <3>4
  <2>5. es[Len(es)].type = "label"
    BY <2>1, <2>2, <2>3, <2>4, ForkEndsInLabel
  <2>6. ~Exit
    <3>1. CASE Exit
      <4>1. Len(fileEntries') = 0 /\ Len(fileEntries) \in Nat
        BY <3>1, EmptySeq, LenProperties DEF Exit, TypeOK
      <4> QED
        BY <4>1 DEF Appends
    <3> QED
      BY <3>1
  <2> QED
    BY <2>3, <2>5, <2>6 DEF Appends
<1>9. UNCHANGED nextId => Added
  BY <1>0
<1> QED
  BY <1>3, <1>4, <1>5, <1>6, <1>7, <1>8, <1>9
     DEF Next, Branch, ResetLeaf, NewSession, InMemory, SetSessionFile, ForkFrom, Quit, vars

(* A compaction step.                                                      *)
LEMMA CompactionKeeps ==
    ASSUME TypeOK, IndexInSync, ParentsInv, [Next]_vars, Appends("compaction"),
           NEW path, path = GetBranch(byId, leafId), NEW path2, path2 = GetBranch(byId', leafId'),
           NEW before, before = ContextOf(byId, path), NEW after, after = ContextOf(byId', path2),
           NEW k \in 1 .. Len(before), before[k] = byId'[leafId'].ref, InContext(byId[before[k]])
    PROVE  Tail(after) = SubSeq(before, k, Len(before))
<1>1. CanAppend /\ Alive /\ nextId \in Ids
  BY CompactionsAppended DEF CanAppend
<1>2. PICK e \in Entry : /\ e.type = "compaction" /\ e.id = nextId /\ e.parentId = leafId
                         /\ byId' = [byId EXCEPT ![nextId] = e] /\ leafId' = nextId
  BY CompactionsAppended
<1>3. byId \in [Ids -> Entry \cup {NoEntry}] /\ leafId \in Ids \cup {Null}
  BY DEF TypeOK
<1>4. path # <<>>
  <2> SUFFICES ASSUME path = <<>> PROVE FALSE
    OBVIOUS
  <2>1. path \in Seq(Ids) /\ Increasing(path) /\ Len(path) = 0
    BY EmptySeq DEF Increasing
  <2>2. PICK lo \in 1 .. Len(path) + 1 :
              \/ ContextOf(byId, path) = InOrder(Seen(byId, path, lo, Len(path)))
              \/ \E c \in 1 .. Len(path) :
                    /\ ~InContext(byId[path[c]])
                    /\ ContextOf(byId, path) = <<path[c]>> \o InOrder(Seen(byId, path, lo, Len(path)))
    BY <2>1, ContextShape
  <2>3. before = InOrder(Seen(byId, path, lo, 0)) /\ lo = 1
    BY <2>1, <2>2
  <2>4. Seen(byId, path, lo, 0) = {}
    <3>1. lo .. 0 = {}
      BY <2>3
    <3> QED
      BY <3>1 DEF Seen
  <2>5. before = <<>>
    BY <2>3, <2>4, NothingInOrder
  <2>6. Len(before) = 0
    BY <2>5, EmptySeq
  <2> QED
    BY <2>6
<1>5. leafId # Null
  BY <1>4, BranchOfNull
<1>6. AllBelow(byId, nextId)
  <2> SUFFICES ASSUME NEW i \in Ids, byId[i] # NoEntry PROVE i < nextId /\ byId[i].parentId < nextId
    BY DEF AllBelow
  <2>1. i < nextId /\ byId[i].parentId < i
    BY <1>1, KnownIds DEF ParentsInv
  <2>2. byId[i].parentId \in Ids \cup {Null}
    BY <1>3 DEF Entry
  <2>3. i \in Nat /\ nextId \in Nat
    BY <1>1, IdsNat
  <2>4. byId[i].parentId \in Nat
    <3>1. \A x \in Ids \cup {Null} : x \in Nat
      BY IdsNat DEF Null
    <3> QED
      BY <2>2, <3>1
  <2> QED
    BY <2>1, <2>3, <2>4
<1>7. /\ path2 = Append(path, nextId) /\ path \in Seq(Ids) /\ Increasing(path)
      /\ \A j \in 1 .. Len(path) : path[j] < nextId
  <2>1. leafId \in Ids /\ GetBranch(byId, leafId) # <<>>
    BY <1>3, <1>4, <1>5
  <2>2. /\ GetBranch(With(byId, nextId, e), nextId) = Append(GetBranch(byId, leafId), nextId)
        /\ GetBranch(byId, leafId) \in Seq(Ids) /\ Increasing(GetBranch(byId, leafId))
        /\ \A j \in 1 .. Len(GetBranch(byId, leafId)) : GetBranch(byId, leafId)[j] < nextId
    <3>1. /\ byId \in [Ids -> Entry \cup {NoEntry}] /\ leafId \in Ids /\ nextId \in Ids
          /\ AllBelow(byId, nextId)
          /\ e \in Entry /\ e.parentId = leafId /\ GetBranch(byId, leafId) # <<>>
      BY <1>1, <1>2, <1>3, <1>6, <2>1
    <3>2. GetBranch(With(byId, nextId, e), nextId) = Append(GetBranch(byId, leafId), nextId)
      BY <3>1, BranchAppend
    <3>3. GetBranch(byId, leafId) \in Seq(Ids) /\ Increasing(GetBranch(byId, leafId))
      BY <3>1, GetBranchType, WalksIncrease
    <3>4. \A j \in 1 .. Len(GetBranch(byId, leafId)) : GetBranch(byId, leafId)[j] < nextId
      BY <3>1, BranchAppend
    <3> QED
      BY <3>2, <3>3, <3>4
  <2>3. path2 = GetBranch(With(byId, nextId, e), nextId)
    BY <1>2, Zenon DEF With
  <2> QED
    BY <2>2, <2>3, Zenon
<1>8. PICK m \in 1 .. Len(path) :
              /\ path[m] = before[k]
              /\ SubSeq(before, k, Len(before)) = InOrder(Seen(byId, path, m, Len(path)))
  BY <1>7, ContextFrom
<1>9. e.ref = path[m]
  BY <1>1, <1>2, <1>3, <1>8
<1>10. Tail(after) = InOrder(Seen(byId, path, m, Len(path)))
  <2>1. Tail(ContextOf([byId EXCEPT ![nextId] = e], Append(path, nextId)))
          = InOrder(Seen(byId, path, m, Len(path)))
    BY <1>1, <1>2, <1>3, <1>7, <1>9, ContextCompacted
  <2>2. after = ContextOf([byId EXCEPT ![nextId] = e], Append(path, nextId))
    BY <1>2, <1>7, Zenon
  <2> QED
    BY <2>1, <2>2, Zenon
<1> QED
  BY <1>8, <1>10

(* Whatever was appended, branched to, forked or reopened before, a        *)
(* compaction that keeps from an entry of the context leaves a suffix of   *)
(* that context after its summary: appendCompaction and                    *)
(* buildSessionContext agree on what is kept.                              *)
THEOREM CompactionsKeepSuffix == Spec => CompactionKeepsSuffix
<1>1. TypeOK /\ IndexInSync /\ ParentsInv /\ [Next]_vars =>
        (Appends("compaction") =>
        \A path \in {GetBranch(byId, leafId)}, path2 \in {GetBranch(byId', leafId')} :
        \A before \in {ContextOf(byId, path)}, after \in {ContextOf(byId', path2)} :
        \A k \in 1 .. Len(before) :
            before[k] = byId'[leafId'].ref /\ InContext(byId[before[k]])
              => Tail(after) = SubSeq(before, k, Len(before)))
  <2> SUFFICES ASSUME TypeOK, IndexInSync, ParentsInv, [Next]_vars, Appends("compaction"),
                      NEW path \in {GetBranch(byId, leafId)}, NEW path2 \in {GetBranch(byId', leafId')},
                      NEW before \in {ContextOf(byId, path)}, NEW after \in {ContextOf(byId', path2)},
                      NEW k \in 1 .. Len(before), before[k] = byId'[leafId'].ref, InContext(byId[before[k]])
               PROVE  Tail(after) = SubSeq(before, k, Len(before))
    OBVIOUS
  <2> QED
    BY CompactionKeeps, SMTT(30)
<1> QED
  BY <1>1, TypeCorrect, IndexStaysInSync, StaysSound, PTL DEF Spec, CompactionKeepsSuffix

-----------------------------------------------------------------------------
(* A fork keeps its path.                                                  *)

(* The label entries a fork adds: one for each label on the path.          *)
LabelsFor(path, labels) ==
    /\ Len(labels) \in Nat /\ labels \in Seq({labels[j] : j \in 1 .. Len(labels)})
    /\ \A j \in 1 .. Len(labels) :
          /\ labels[j].id = nextId + j - 1 /\ labels[j].type = "label"
          /\ labels[j].parentId = IF j = 1 THEN path[Len(path)] ELSE nextId + j - 2
          /\ labels[j].val = labelsById[labels[j].ref]
    /\ \A k \in 1 .. Len(path) :
          labelsById[path[k]] # NoLabel => \E j \in 1 .. Len(labels) : labels[j].ref = path[k]
    /\ path = <<>> => Len(labels) = 0

(* ForkLabels makes them. *)
LEMMA LabelsOfFork ==
    ASSUME NEW path \in Seq(Ids), NEW labels, labels = ForkLabels(path)
    PROVE  LabelsFor(path, labels)
<1> DEFINE S == {i \in {path[k] : k \in 1 .. Len(path)} : labelsById[i] # NoLabel}
           last == IF path = <<>> THEN Null ELSE path[Len(path)]
<1>1. S \in SUBSET Ids
  BY IdSeq
<1>2. PICK targets : targets = InOrder(S)
  OBVIOUS
<1>3. targets \in Seq(Ids) /\ Members(targets) = S /\ Len(targets) \in Nat
  BY <1>1, <1>2, InOrderLists, IdSeq
<1> DEFINE label(k) == [id |-> nextId + k - 1,
                        parentId |-> IF k = 1 THEN last ELSE nextId + k - 2,
                        type |-> "label", ref |-> targets[k], val |-> labelsById[targets[k]]]
<1>4. labels = [k \in 1 .. Len(targets) |-> label(k)]
  BY <1>2 DEF ForkLabels
<1>5. path = <<>> => Len(targets) = 0
  <2> SUFFICES ASSUME path = <<>> PROVE Len(targets) = 0
    OBVIOUS
  <2>1. S = {}
    <3>1. Len(path) = 0
      BY EmptySeq
    <3> QED
      BY <3>1
  <2> QED
    BY <1>2, <2>1, NothingInOrder, EmptySeq
<1>6. \A k \in 1 .. Len(path) : labelsById[path[k]] # NoLabel => path[k] \in S
  OBVIOUS
<1>7. Len(targets) # 0 => last = path[Len(path)]
  BY <1>5
<1> HIDE DEF S, last
<1>8. Len(labels) = Len(targets) /\ labels \in Seq({labels[j] : j \in 1 .. Len(labels)})
  <2>1. Len(labels) = Len(targets) /\ DOMAIN labels = 1 .. Len(targets)
    BY <1>3, <1>4
  <2>2. labels = [k \in 1 .. Len(targets) |-> labels[k]]
    BY <1>4
  <2> QED
    BY <1>3, <2>1, <2>2
<1>9. \A j \in 1 .. Len(targets) : labels[j] = label(j)
  BY <1>4
<1>10. \A j \in 1 .. Len(labels) :
                 /\ labels[j].id = nextId + j - 1 /\ labels[j].type = "label"
                 /\ labels[j].parentId = IF j = 1 THEN path[Len(path)] ELSE nextId + j - 2
                 /\ labels[j].val = labelsById[labels[j].ref]
  <2> SUFFICES ASSUME NEW j \in 1 .. Len(targets)
               PROVE  /\ labels[j].id = nextId + j - 1 /\ labels[j].type = "label"
                      /\ labels[j].parentId = IF j = 1 THEN path[Len(path)] ELSE nextId + j - 2
                      /\ labels[j].val = labelsById[labels[j].ref]
    BY <1>8
  <2>1. last = path[Len(path)]
    BY <1>3, <1>7
  <2>2. labels[j] = label(j)
    BY <1>9
  <2>3. PICK v : v = labels[j]
    OBVIOUS
  <2>4. /\ v.id = nextId + j - 1 /\ v.type = "label" /\ v.ref = targets[j]
        /\ v.parentId = IF j = 1 THEN last ELSE nextId + j - 2
        /\ v.val = labelsById[targets[j]]
    BY <2>2, <2>3
  <2> HIDE DEF label
  <2> QED
    BY <2>1, <2>3, <2>4
<1>11. \A k \in 1 .. Len(path) :
                 labelsById[path[k]] # NoLabel => \E j \in 1 .. Len(labels) : labels[j].ref = path[k]
  <2> SUFFICES ASSUME NEW k \in 1 .. Len(path), labelsById[path[k]] # NoLabel
               PROVE  \E j \in 1 .. Len(targets) : labels[j].ref = path[k]
    BY <1>8
  <2>1. PICK j \in 1 .. Len(targets) : path[k] = targets[j]
    BY <1>3, <1>6 DEF Members
  <2>2. labels[j] = label(j)
    BY <1>9
  <2>3. labels[j].ref = targets[j]
    BY <2>2
  <2> HIDE DEF label
  <2> QED
    BY <2>1, <2>3
<1> HIDE DEF label
<1> QED
  BY <1>3, <1>5, <1>8, <1>10, <1>11 DEF LabelsFor

(* es is the fork of path: the header, the entries of path, the labels.    *)
ForkOf(es, path, labels) ==
    /\ es \in Seq(Line) /\ path \in Seq(Ids) /\ Increasing(path) /\ LabelsFor(path, labels)
    /\ EntryAt(es) = 2 .. 1 + Len(path) + Len(labels)
    /\ \A j \in 1 .. Len(path) :
          es[1 + j] = byId[path[j]] /\ es[1 + j].id = path[j] /\ es[1 + j].type # "label"
    /\ \A j \in 1 .. Len(labels) :
          es[1 + Len(path) + j] = labels[j] /\ labels[j].id \in Ids
    /\ \A k \in 1 .. Len(path) :
          /\ byId[path[k]] \in Entry /\ byId[path[k]].parentId < path[k] /\ path[k] < nextId

(* The entries createBranchedSession makes of a path are its fork.         *)
LEMMA ForkIs ==
    ASSUME TypeOK, IndexInSync, EntriesSound, Alive,
           NEW leaf, NEW walk, walk = GetBranch(byId, leaf), walk # <<>>,
           NEW path, path = WithoutLabels(walk), NEW labels, labels = ForkLabels(path),
           NEW es \in Seq(Line), es = ForkEntries(path, labels)
    PROVE  ForkOf(es, path, labels)
<1> DEFINE P    == Len(path)
           L    == Len(labels)
           kept == [k \in 1 .. P |-> byId[path[k]]]
           S    == {i \in {walk[k] : k \in 1 .. Len(walk)} : byId[i].type # "label"}
<1>1. /\ walk \in Seq(Ids) /\ Increasing(walk)
      /\ \A k \in 1 .. Len(walk) : walk[k] \in Ids /\ byId[walk[k]] # NoEntry
  BY GetBranchType, WalksIncrease, IdSeq DEF IsWalk
<1>2. path = InOrder(S)
  BY DEF WithoutLabels
<1>3. S \in SUBSET Ids /\ \A i \in S : byId[i] # NoEntry /\ byId[i].type # "label"
  BY <1>1
<1>4. /\ path \in Seq(Ids) /\ Increasing(path) /\ P \in Nat
      /\ \A k \in 1 .. P : path[k] \in Ids /\ path[k] \in S
  <2> HIDE DEF S
  <2>1. /\ path \in Seq(Ids) /\ Increasing(path) /\ Members(path) = S
    BY <1>2, <1>3, InOrderLists
  <2>2. \A k \in 1 .. P : path[k] \in S
    BY <2>1 DEF Members
  <2> QED
    BY <2>1, <2>2, IdSeq
<1>5. ASSUME NEW k \in 1 .. P
      PROVE  /\ byId[path[k]] \in Entry /\ byId[path[k]].id = path[k] /\ byId[path[k]].type # "label"
             /\ byId[path[k]].parentId < path[k] /\ path[k] < nextId
  <2>1. path[k] \in Ids /\ byId[path[k]] # NoEntry /\ byId[path[k]].type # "label"
    BY <1>3, <1>4
  <2>2. byId[path[k]] \in Entry
    BY <2>1 DEF TypeOK
  <2>3. byId[path[k]].id = path[k] /\ byId[path[k]].parentId < path[k] /\ path[k] < nextId
    BY <2>1, KnownIds
  <2> QED
    BY <2>1, <2>2, <2>3
<1>6. LabelsFor(path, labels)
  BY <1>4, LabelsOfFork
<1>15. /\ L \in Nat /\ labels \in Seq({labels[j] : j \in 1 .. L})
       /\ \A j \in 1 .. L : labels[j].type = "label"
  BY <1>6 DEF LabelsFor
<1> DEFINE M == Line \cup {labels[j] : j \in 1 .. L}
<1>7. PICK front : front = <<Header>> \o kept
  OBVIOUS
<1>8. /\ kept \in Seq(Line) /\ Len(kept) = P /\ \A k \in 1 .. P : kept[k] = byId[path[k]]
  <2>1. \A k \in 1 .. P : byId[path[k]] \in Line
    BY <1>5 DEF Line
  <2> QED
    BY <1>4, <2>1
<1>9. /\ front \in Seq(Line) /\ Len(front) = 1 + P /\ front[1] = Header
      /\ \A k \in 1 .. P : front[1 + k] = byId[path[k]]
  <2>1. PICK h : h = <<Header>>
    OBVIOUS
  <2>2. h \in Seq(Line) /\ Len(h) = 1 /\ h[1] = Header
    BY <2>1 DEF Line
  <2> HIDE DEF kept
  <2>3. front = h \o kept
    BY <1>7, <2>1
  <2>4. /\ h \o kept \in Seq(Line) /\ Len(h \o kept) = Len(h) + Len(kept)
        /\ \A k \in 1 .. Len(h) : (h \o kept)[k] = h[k]
        /\ \A k \in 1 .. Len(kept) : (h \o kept)[Len(h) + k] = kept[k]
    BY <1>8, <2>2, ConcatElements
  <2> QED
    BY <1>8, <2>2, <2>3, <2>4
<1>10. es = front \o labels
  BY <1>7 DEF ForkEntries
<1>11. front \in Seq(M) /\ labels \in Seq(M)
  <2>1. Line \subseteq M /\ {labels[j] : j \in 1 .. L} \subseteq M
    OBVIOUS
  <2> HIDE DEF M
  <2> QED
    BY <1>15, <1>9, <2>1, SeqMonotonic
<1>12. /\ Len(es) = 1 + P + L /\ es[1] = Header
       /\ \A k \in 1 .. P : es[1 + k] = byId[path[k]]
       /\ \A k \in 1 .. L : es[1 + P + k] = labels[k]
  <2> HIDE DEF M
  <2>1. /\ Len(es) = Len(front) + L
        /\ \A k \in 1 .. Len(front) : es[k] = front[k]
        /\ \A k \in 1 .. L : es[Len(front) + k] = labels[k]
    BY <1>10, <1>11, ConcatElements
  <2>2. \A k \in 1 .. P : 1 + k \in 1 .. 1 + P
    BY <1>4
  <2>3. 1 \in 1 .. 1 + P
    BY <1>4
  <2>4. Len(es) = 1 + P + L /\ es[1] = Header
    BY <1>9, <2>1, <2>3
  <2>5. \A k \in 1 .. P : es[1 + k] = byId[path[k]]
    BY <1>9, <2>1, <2>2
  <2>6. \A k \in 1 .. L : es[1 + P + k] = labels[k]
    <3> SUFFICES ASSUME NEW k \in 1 .. L PROVE es[1 + P + k] = labels[k]
      OBVIOUS
    <3>1. Len(front) + k = 1 + P + k
      BY <1>9
    <3>2. es[Len(front) + k] = labels[k]
      BY <2>1
    <3> QED
      BY <3>1, <3>2
  <2> QED
    BY <2>4, <2>5, <2>6
<1>13. \A j \in 1 .. L : labels[j].id \in Ids
  <2> SUFFICES ASSUME NEW j \in 1 .. L PROVE labels[j].id \in Ids
    OBVIOUS
  <2>1. 1 + P + j \in 1 .. Len(es)
    BY <1>4, <1>15, <1>12, SMTT(30)
  <2>2. labels[j] \in Line
    BY <1>12, <2>1, ElementOfSeq
  <2>3. labels[j].type = "label"
    BY <1>15
  <2> QED
    BY <2>2, <2>3 DEF Line, Entry, Header
<1>14. EntryAt(es) = 2 .. 1 + P + L
  <2>1. ASSUME NEW k \in 2 .. 1 + P + L PROVE es[k].type # "session" /\ k \in 1 .. Len(es)
    <3>0. k \in 1 .. Len(es)
      BY <1>4, <1>15, <1>12
    <3>1. CASE k <= 1 + P
      <4>1. k - 1 \in 1 .. P /\ 1 + (k - 1) = k
        BY <1>4, <3>1
      <4>2. es[k] = byId[path[k - 1]] /\ byId[path[k - 1]] \in Entry
        BY <1>5, <1>12, <4>1
      <4> QED
        BY <3>0, <4>2 DEF Entry, Types, SettingTypes, ExtensionTypes
    <3>2. CASE ~(k <= 1 + P)
      <4>1. k - (1 + P) \in 1 .. L /\ 1 + P + (k - (1 + P)) = k
        BY <1>4, <1>15, <3>2
      <4>2. es[k] = labels[k - (1 + P)]
        BY <1>12, <4>1
      <4> QED
        BY <1>15, <3>0, <4>1, <4>2
    <3> QED
      BY <3>1, <3>2
  <2>2. ASSUME NEW k \in EntryAt(es) PROVE k \in 2 .. 1 + P + L
    <3>1. k \in 1 .. Len(es) /\ es[k].type # "session"
      BY <2>2 DEF EntryAt
    <3>2. k # 1
      BY <1>12, <3>1 DEF Header
    <3> QED
      BY <1>4, <1>15, <1>12, <3>1, <3>2
  <2> QED
    BY <2>1, <2>2 DEF EntryAt
<1> HIDE DEF kept, S, M
<1> QED
  BY <1>4, <1>5, <1>6, <1>12, <1>13, <1>14 DEF ForkOf

(* What _buildIndex makes of a fork.                                       *)
LEMMA ForkIndex ==
    ASSUME NEW es, NEW path, NEW labels, ForkOf(es, path, labels), nextId \in Nat
    PROVE  /\ \A k \in 1 .. Len(path) : IndexOf(es)[path[k]] = byId[path[k]]
           /\ \A j \in 1 .. Len(labels) : IndexOf(es)[nextId + j - 1] = labels[j]
           /\ \A i \in Ids : IndexOf(es)[i] # NoEntry =>
                 \/ i >= nextId
                 \/ \E k \in 1 .. Len(path) : i = path[k]
           /\ Len(labels) # 0 => LastId(es) = nextId + Len(labels) - 1
           /\ Len(labels) = 0 /\ Len(path) # 0 => LastId(es) = path[Len(path)]
           /\ Len(labels) = 0 /\ Len(path) = 0 => LastId(es) = Null
<1> DEFINE P == Len(path)
           L == Len(labels)
           N == 1 + P + L
<1>1. /\ es \in Seq(Line) /\ path \in Seq(Ids) /\ Increasing(path)
      /\ P \in Nat /\ L \in Nat /\ N \in Nat /\ EntryAt(es) = 2 .. N
      /\ \A k \in 1 .. P : path[k] \in Ids /\ path[k] \in Nat
  <2>1. es \in Seq(Line) /\ path \in Seq(Ids) /\ Increasing(path) /\ EntryAt(es) = 2 .. N
    BY DEF ForkOf
  <2>2. L \in Nat
    BY DEF ForkOf, LabelsFor
  <2>3. P \in Nat /\ \A k \in 1 .. P : path[k] \in Ids /\ path[k] \in Nat
    BY <2>1, IdSeq
  <2>4. N \in Nat
    BY <2>2, <2>3
  <2> QED
    BY <2>1, <2>2, <2>3, <2>4
<1>2. /\ \A k \in 1 .. P : es[1 + k] = byId[path[k]] /\ es[1 + k].id = path[k] /\ path[k] < nextId
      /\ \A j \in 1 .. L : es[1 + P + j] = labels[j] /\ labels[j].id = nextId + j - 1 /\ labels[j].id \in Ids
  BY DEF ForkOf, LabelsFor
<1>3. \A q \in 2 .. N : \/ q - 1 \in 1 .. P /\ 1 + (q - 1) = q
                        \/ q - 1 - P \in 1 .. L /\ 1 + P + (q - 1 - P) = q
  BY <1>1
<1>4. /\ \A k \in 1 .. P : 1 + k \in 2 .. N
      /\ \A j \in 1 .. L : 1 + P + j \in 2 .. N
  BY <1>1
<1>5. \A q \in 2 .. N : \/ q - 1 \in 1 .. P /\ es[q].id = path[q - 1]
                        \/ q - 1 - P \in 1 .. L /\ es[q].id = nextId + (q - 1 - P) - 1
  <2> SUFFICES ASSUME NEW q \in 2 .. N
               PROVE  \/ q - 1 \in 1 .. P /\ es[q].id = path[q - 1]
                      \/ q - 1 - P \in 1 .. L /\ es[q].id = nextId + (q - 1 - P) - 1
    OBVIOUS
  <2>1. CASE q - 1 \in 1 .. P /\ 1 + (q - 1) = q
    <3>1. es[1 + (q - 1)].id = path[q - 1]
      BY <1>2, <2>1
    <3> QED
      BY <2>1, <3>1
  <2>2. CASE q - 1 - P \in 1 .. L /\ 1 + P + (q - 1 - P) = q
    <3>1. es[1 + P + (q - 1 - P)].id = nextId + (q - 1 - P) - 1
      BY <1>2, <2>2
    <3> QED
      BY <2>2, <3>1
  <2> QED
    BY <1>3, <2>1, <2>2
<1>6. ASSUME NEW q \in 2 .. N, NEW r \in 2 .. N, es[q].id = es[r].id PROVE q = r
  <2>0. q \in Nat /\ r \in Nat
    BY <1>1
  <2>1. CASE q - 1 \in 1 .. P /\ es[q].id = path[q - 1] /\ r - 1 \in 1 .. P /\ es[r].id = path[r - 1]
    <3>1. q - 1 < r - 1 \/ q - 1 = r - 1 \/ r - 1 < q - 1
      BY <2>0
    <3>2. path[q - 1] = path[r - 1] /\ path[q - 1] \in Nat
      BY <1>1, <1>6, <2>1
    <3>3. q - 1 < r - 1 => path[q - 1] < path[r - 1]
      BY <1>1, <2>1 DEF Increasing
    <3>4. r - 1 < q - 1 => path[r - 1] < path[q - 1]
      BY <1>1, <2>1 DEF Increasing
    <3>5. q - 1 = r - 1
      BY <3>1, <3>2, <3>3, <3>4
    <3> QED
      BY <2>0, <3>5
  <2>2. CASE /\ q - 1 - P \in 1 .. L /\ es[q].id = nextId + (q - 1 - P) - 1
             /\ r - 1 - P \in 1 .. L /\ es[r].id = nextId + (r - 1 - P) - 1
    <3>1. nextId + (q - 1 - P) - 1 = nextId + (r - 1 - P) - 1
      BY <1>6, <2>2
    <3>2. P \in Nat
      BY <1>1
    <3> QED
      BY <2>0, <3>1, <3>2
  <2>3. ASSUME NEW a \in 2 .. N, NEW b \in 2 .. N, a - 1 \in 1 .. P, es[a].id = path[a - 1],
               b - 1 - P \in 1 .. L, es[b].id = nextId + (b - 1 - P) - 1
        PROVE  es[a].id # es[b].id
    <3>1. path[a - 1] < nextId /\ path[a - 1] \in Nat
      BY <1>1, <1>2, <2>3
    <3>2. b - 1 - P \in Nat /\ b - 1 - P >= 1
      BY <1>1, <2>3
    <3>3. nextId + (b - 1 - P) - 1 >= nextId
      BY <3>2
    <3> QED
      BY <2>3, <3>1, <3>3
  <2> QED
    BY <1>5, <1>6, <2>1, <2>2, <2>3
<1>7. ASSUME NEW q \in 2 .. N, es[q].id \in Ids PROVE IndexOf(es)[es[q].id] = es[q]
  <2> DEFINE at == {r \in EntryAt(es) : es[r].id = es[q].id}
  <2>1. at = {q}
    BY <1>1, <1>6
  <2>2. {q} \in SUBSET (1 .. N) /\ {q} # {}
    BY <1>1
  <2>3. MaxOf({q}) \in {q}
    BY <1>1, <2>2, MaxOfProperties
  <2>4. IndexOf(es)[es[q].id] = IF at = {} THEN NoEntry ELSE es[MaxOf(at)]
    BY <1>7 DEF IndexOf
  <2> HIDE DEF at
  <2> QED
    BY <2>1, <2>3, <2>4
<1>8. ASSUME NEW k \in 1 .. P PROVE IndexOf(es)[path[k]] = byId[path[k]]
  <2>1. 1 + k \in 2 .. N /\ es[1 + k].id = path[k] /\ es[1 + k] = byId[path[k]] /\ path[k] \in Ids
    BY <1>1, <1>2, <1>4
  <2> QED
    BY <1>7, <2>1
<1>9. ASSUME NEW j \in 1 .. L PROVE IndexOf(es)[nextId + j - 1] = labels[j]
  <2>1. /\ 1 + P + j \in 2 .. N /\ es[1 + P + j] = labels[j] /\ labels[j].id \in Ids
        /\ labels[j].id = nextId + j - 1
    BY <1>2, <1>4
  <2> QED
    BY <1>7, <2>1
<1>10. ASSUME NEW i \in Ids, IndexOf(es)[i] # NoEntry
       PROVE  i >= nextId \/ \E k \in 1 .. P : i = path[k]
  <2>1. PICK q \in EntryAt(es) : es[q].id = i
    BY <1>1, <1>10, IndexedIds
  <2>2. q \in 2 .. N
    BY <1>1
  <2>3. CASE q - 1 \in 1 .. P /\ es[q].id = path[q - 1]
    BY <2>1, <2>3
  <2>4. CASE q - 1 - P \in 1 .. L /\ es[q].id = nextId + (q - 1 - P) - 1
    <3>1. q - 1 - P \in Nat /\ q - 1 - P >= 1
      BY <1>1, <2>4
    <3> QED
      BY <2>1, <2>4, <3>1
  <2> QED
    BY <1>5, <2>2, <2>3, <2>4
<1>11. N >= 2 => LastId(es) = es[N].id
  <2> SUFFICES ASSUME N >= 2 PROVE LastId(es) = es[N].id
    OBVIOUS
  <2>1. N \in EntryAt(es) /\ EntryAt(es) \in SUBSET (1 .. N)
    BY <1>1
  <2>2. MaxOf(EntryAt(es)) \in EntryAt(es) /\ \A r \in EntryAt(es) : r <= MaxOf(EntryAt(es))
    BY <1>1, <2>1, MaxOfProperties
  <2>3. MaxOf(EntryAt(es)) \in 2 .. N /\ N <= MaxOf(EntryAt(es))
    BY <1>1, <2>1, <2>2
  <2>4. MaxOf(EntryAt(es)) = N
    BY <1>1, <2>3
  <2> QED
    BY <2>1, <2>4 DEF LastId
<1>12. L # 0 => LastId(es) = nextId + L - 1
  <2> SUFFICES ASSUME L # 0 PROVE LastId(es) = nextId + L - 1
    OBVIOUS
  <2>1. L \in 1 .. L /\ N >= 2 /\ N = 1 + P + L
    BY <1>1
  <2> QED
    BY <1>2, <1>11, <2>1
<1>13. L = 0 /\ P # 0 => LastId(es) = path[P]
  <2> SUFFICES ASSUME L = 0, P # 0 PROVE LastId(es) = path[P]
    OBVIOUS
  <2>1. P \in 1 .. P /\ N >= 2 /\ N = 1 + P
    BY <1>1
  <2> QED
    BY <1>2, <1>11, <2>1
<1>14. L = 0 /\ P = 0 => LastId(es) = Null
  <2> SUFFICES ASSUME L = 0, P = 0 PROVE LastId(es) = Null
    OBVIOUS
  <2>1. EntryAt(es) = {}
    BY <1>1
  <2> QED
    BY <2>1 DEF LastId
<1> QED
  BY <1>8, <1>9, <1>10, <1>12, <1>13, <1>14

(* The labels a fork has for its path are those of before.                 *)
LEMMA ForkHasLabels ==
    ASSUME NEW es, NEW path, NEW labels, ForkOf(es, path, labels), NEW k \in 1 .. Len(path)
    PROVE  LabelsOf(es)[path[k]] = labelsById[path[k]]
<1> DEFINE P  == Len(path)
           L  == Len(labels)
           at == {q \in EntryAt(es) : es[q].type = "label" /\ es[q].ref = path[k]}
<1>1. /\ es \in Seq(Line) /\ path \in Seq(Ids) /\ LabelsFor(path, labels)
      /\ EntryAt(es) = 2 .. 1 + P + L
  BY DEF ForkOf
<1>2. P \in Nat /\ L \in Nat /\ path[k] \in Ids
  BY <1>1, IdSeq DEF LabelsFor
<1>3. /\ \A j \in 1 .. P : es[1 + j].type # "label"
      /\ \A j \in 1 .. L : es[1 + P + j] = labels[j]
  BY DEF ForkOf
<1>4. ASSUME NEW q \in at
      PROVE  es[q].val = labelsById[path[k]]
  <2>1. q \in 2 .. 1 + P + L /\ es[q].type = "label" /\ es[q].ref = path[k]
    BY <1>1
  <2>2. q - 1 \notin 1 .. P
    <3> SUFFICES ASSUME q - 1 \in 1 .. P PROVE FALSE
      OBVIOUS
    <3>1. 1 + (q - 1) = q
      BY <2>1
    <3>2. es[1 + (q - 1)].type # "label"
      BY <1>3
    <3> QED
      BY <2>1, <3>1, <3>2
  <2>3. q - 1 - P \in 1 .. L /\ 1 + P + (q - 1 - P) = q
    BY <1>2, <2>1, <2>2
  <2>4. es[q] = labels[q - 1 - P]
    BY <1>3, <2>3
  <2>5. labels[q - 1 - P].val = labelsById[labels[q - 1 - P].ref]
    BY <1>1, <2>3 DEF LabelsFor
  <2> QED
    BY <2>1, <2>4, <2>5
<1>5. labelsById[path[k]] # NoLabel => at # {}
  <2> SUFFICES ASSUME labelsById[path[k]] # NoLabel PROVE at # {}
    OBVIOUS
  <2>1. PICK j \in 1 .. L : labels[j].ref = path[k]
    BY <1>1 DEF LabelsFor
  <2>2. 1 + P + j \in 2 .. 1 + P + L
    BY <1>2
  <2>3. es[1 + P + j].type = "label" /\ es[1 + P + j].ref = path[k]
    <3>1. labels[j].type = "label"
      BY <1>1 DEF LabelsFor
    <3>2. es[1 + P + j] = labels[j]
      BY <1>3
    <3> QED
      BY <2>1, <3>1, <3>2
  <2> QED
    BY <1>1, <2>2, <2>3
<1>6. LabelsOf(es)[path[k]] = IF at = {} THEN NoLabel ELSE es[MaxOf(at)].val
  BY <1>2 DEF LabelsOf
<1>7. at # {} => MaxOf(at) \in at
  <2>1. at \in SUBSET (1 .. 1 + P + L) /\ 1 + P + L \in Nat
    BY <1>1, <1>2
  <2> HIDE DEF at
  <2> QED
    BY <2>1, MaxOfProperties
<1> HIDE DEF at
<1> QED
  BY <1>4, <1>5, <1>6, <1>7

(* The branch of a fork: the path, then the labels.                        *)
LEMMA ForkHasPath ==
    ASSUME NEW es, NEW path, NEW labels, ForkOf(es, path, labels), nextId \in Nat \ {0},
           path # <<>>, NEW walk \in Seq(Ids), NEW leaf, IsWalk(byId, leaf, walk), IsPrefix(path, walk)
    PROVE  /\ IsPrefix(path, GetBranch(IndexOf(es), LastId(es)))
           /\ \A k \in 1 .. Len(GetBranch(IndexOf(es), LastId(es))) :
                 k > Len(path) => IndexOf(es)[GetBranch(IndexOf(es), LastId(es))[k]].type = "label"
<1> DEFINE P == Len(path)
           L == Len(labels)
<1>1. PICK ix : ix = IndexOf(es)
  OBVIOUS
<1>2. /\ path \in Seq(Ids) /\ Increasing(path) /\ P \in Nat /\ P # 0 /\ L \in Nat
      /\ \A k \in 1 .. P : path[k] \in Ids /\ path[k] \in Nat
  BY IdSeq, EmptySeq DEF ForkOf, LabelsFor
<1>3. /\ \A k \in 1 .. P : ix[path[k]] = byId[path[k]]
      /\ \A j \in 1 .. L : ix[nextId + j - 1] = labels[j]
      /\ \A i \in Ids : ix[i] # NoEntry => i >= nextId \/ \E k \in 1 .. P : i = path[k]
      /\ L # 0 => LastId(es) = nextId + L - 1
      /\ L = 0 => LastId(es) = path[P]
  BY <1>1, <1>2, ForkIndex, SMTT(30)
<1>4. /\ \A k \in 1 .. P : /\ byId[path[k]] \in Entry /\ byId[path[k]].parentId < path[k]
                           /\ path[k] < nextId
      /\ \A j \in 1 .. L : nextId + j - 1 \in Ids /\ labels[j].type = "label"
                           /\ labels[j].parentId = IF j = 1 THEN path[P] ELSE nextId + j - 2
  BY DEF ForkOf, LabelsFor
<1>5. PICK ids : ids = [j \in 1 .. L |-> nextId + j - 1]
  OBVIOUS
<1>6. ids \in Seq(Ids) /\ Len(ids) = L /\ \A j \in 1 .. L : ids[j] = nextId + j - 1
  BY <1>2, <1>4, <1>5
<1>7. PICK w : w = path \o ids
  OBVIOUS
<1>8. /\ w \in Seq(Ids) /\ Len(w) = P + L
      /\ \A k \in 1 .. P : w[k] = path[k]
      /\ \A j \in 1 .. L : w[P + j] = nextId + j - 1
  <2>1. /\ w \in Seq(Ids) /\ Len(w) = P + Len(ids)
        /\ \A k \in 1 .. P : w[k] = path[k]
        /\ \A j \in 1 .. Len(ids) : w[P + j] = ids[j]
    <3>1. path \in Seq(Ids) /\ ids \in Seq(Ids)
      BY <1>2, <1>6
    <3>2. path \o ids \in Seq(Ids) /\ Len(path \o ids) = P + Len(ids)
      BY <3>1, ConcatElements
    <3>3. \A k \in 1 .. P : (path \o ids)[k] = path[k]
      BY <3>1, ConcatElements
    <3>4. \A j \in 1 .. Len(ids) : (path \o ids)[P + j] = ids[j]
      BY <3>1, ConcatElements
    <3> QED
      BY <1>7, <3>2, <3>3, <3>4
  <2> QED
    BY <1>6, <2>1
<1>9. \A k \in 1 .. P + L : \/ k \in 1 .. P
                            \/ k - P \in 1 .. L /\ P + (k - P) = k
  BY <1>2
<1>10. \A k \in 1 .. P + L : k \notin 1 .. P => /\ k - P \in 1 .. L
                                               /\ w[k] = nextId + (k - P) - 1
  <2> SUFFICES ASSUME NEW k \in 1 .. P + L, k \notin 1 .. P
               PROVE  k - P \in 1 .. L /\ w[k] = nextId + (k - P) - 1
    OBVIOUS
  <2>1. k - P \in 1 .. L /\ P + (k - P) = k
    BY <1>9
  <2>2. w[P + (k - P)] = nextId + (k - P) - 1
    BY <1>8, <2>1
  <2> QED
    BY <2>1, <2>2
<1>11. Increasing(w)
  <2> SUFFICES ASSUME NEW j \in 1 .. P + L, NEW k \in 1 .. P + L, j < k PROVE w[j] < w[k]
    BY <1>8 DEF Increasing
  <2>1. CASE k \in 1 .. P
    <3>1. j \in 1 .. P
      BY <2>1
    <3> QED
      BY <1>2, <1>8, <2>1, <3>1 DEF Increasing
  <2>2. CASE k \notin 1 .. P /\ j \in 1 .. P
    <3>1. w[j] < nextId /\ w[j] \in Nat
      BY <1>2, <1>4, <1>8, <2>2
    <3>2. k - P \in 1 .. L /\ w[k] = nextId + (k - P) - 1
      BY <1>10, <2>2
    <3>3. nextId + (k - P) - 1 >= nextId
      BY <1>2, <3>2
    <3> QED
      BY <3>1, <3>2, <3>3
  <2>3. CASE k \notin 1 .. P /\ j \notin 1 .. P
    <3>1. w[k] = nextId + (k - P) - 1 /\ w[j] = nextId + (j - P) - 1
      BY <1>10, <2>3
    <3>2. nextId + (j - P) - 1 < nextId + (k - P) - 1
      BY <1>2
    <3> QED
      BY <3>1, <3>2
  <2> QED
    BY <2>1, <2>2, <2>3
<1>12. \A k \in 1 .. P + L : /\ k \in 1 .. P => ix[w[k]] = byId[path[k]]
                             /\ k \notin 1 .. P => ix[w[k]] = labels[k - P]
  BY <1>3, <1>8, <1>10
<1>13. IsWalk(ix, LastId(es), w)
  <2>1. w # <<>> /\ w[Len(w)] = LastId(es)
    <3>1. CASE L = 0
      <4>1. P \in 1 .. P /\ P + L = P
        BY <1>2, <3>1
      <4> QED
        BY <1>2, <1>3, <1>8, <3>1, <4>1, EmptySeq
    <3>2. CASE L # 0
      <4>1. L \in 1 .. L
        BY <1>2, <3>2
      <4>2. P + L # 0
        BY <1>2
      <4> QED
        BY <1>3, <1>8, <3>2, <4>1, <4>2, EmptySeq
    <3> QED
      BY <3>1, <3>2
  <2>2. \A k \in 1 .. Len(w) : ix[w[k]] # NoEntry
    <3> SUFFICES ASSUME NEW k \in 1 .. P + L PROVE ix[w[k]] # NoEntry
      BY <1>8
    <3>1. CASE k \in 1 .. P
      BY <1>4, <1>12, <3>1, NotEntries
    <3>2. CASE k \notin 1 .. P
      <4>1. ix[w[k]].type = "label"
        BY <1>4, <1>10, <1>12, <3>2
      <4> QED
        BY <4>1 DEF NoEntry
    <3> QED
      BY <3>1, <3>2
  <2>3. walk[1] = path[1] /\ 1 \in 1 .. P /\ 1 \in 1 .. P + L
        /\ \A k \in 1 .. P : walk[k] = path[k] /\ k \in 1 .. Len(walk)
    <3>1. \A k \in 1 .. P : walk[k] = path[k]
      BY <1>2, PrefixElements
    <3>2. P <= Len(walk) /\ Len(walk) \in Nat
      BY LenProperties DEF IsPrefix
    <3> QED
      BY <1>2, <3>1, <3>2
  <2>4. ASSUME NEW k \in 2 .. Len(w) PROVE ix[w[k]].parentId = w[k - 1]
    <3>0. k \in 1 .. P + L /\ k - 1 \in 1 .. P + L
      BY <1>2, <1>8
    <3>1. CASE k \in 1 .. P
      <4>1. k - 1 \in 1 .. P /\ k \in 2 .. Len(walk)
        BY <1>2, <2>3, <3>1
      <4>2. byId[walk[k]].parentId = walk[k - 1]
        BY <4>1 DEF IsWalk
      <4> QED
        BY <1>8, <1>12, <2>3, <3>0, <3>1, <4>1, <4>2
    <3>2. CASE k = P + 1
      <4>1. k \notin 1 .. P /\ k - P = 1 /\ k - 1 = P /\ P \in 1 .. P /\ 1 \in 1 .. L
        BY <1>2, <3>0, <3>2
      <4> QED
        BY <1>4, <1>8, <1>12, <3>0, <4>1, ZenonT(30)
    <3>3. CASE k \notin 1 .. P /\ k # P + 1
      <4>1. /\ k - 1 \notin 1 .. P /\ k - P \in 1 .. L /\ k - P # 1
            /\ nextId + (k - P) - 2 = nextId + ((k - 1) - P) - 1
        BY <1>2, <3>0, <3>3
      <4>2. w[k - 1] = nextId + ((k - 1) - P) - 1
        BY <1>10, <3>0, <4>1
      <4>3. ix[w[k]].parentId = nextId + (k - P) - 2
        BY <1>4, <1>12, <3>0, <3>3, <4>1
      <4> QED
        BY <4>1, <4>2, <4>3
    <3> QED
      BY <3>1, <3>2, <3>3
  <2>5. LET root == ix[w[1]].parentId IN root = Null \/ ix[root] = NoEntry
    <3>1. ix[w[1]].parentId = byId[path[1]].parentId
      BY <1>12, <2>3
    <3>2. byId[path[1]].parentId = Null \/ byId[byId[path[1]].parentId] = NoEntry
      BY <2>3 DEF IsWalk
    <3> SUFFICES ASSUME byId[path[1]].parentId # Null, ix[byId[path[1]].parentId] # NoEntry PROVE FALSE
      BY <3>1
    <3>3. byId[path[1]].parentId \in Ids /\ byId[path[1]].parentId < path[1] /\ path[1] < nextId
      BY <1>4, <2>3 DEF Entry
    <3>4. byId[path[1]].parentId \in Nat /\ path[1] \in Nat
      BY <1>2, <2>3, <3>3, IdsNat
    <3>5. ~(byId[path[1]].parentId >= nextId)
      BY <3>3, <3>4
    <3>6. PICK k \in 1 .. P : byId[path[1]].parentId = path[k]
      BY <1>3, <3>3, <3>5
    <3>7. k = 1 \/ 1 < k
      BY <1>2
    <3>8. ~(path[k] < path[1])
      BY <1>2, <2>3, <3>7 DEF Increasing
    <3> QED
      BY <3>3, <3>6, <3>8
  <2> QED
    BY <2>1, <2>2, <2>4, <2>5 DEF IsWalk
<1>14. GetBranch(ix, LastId(es)) = w
  BY <1>8, <1>11, <1>13, BranchIs
<1>15. IsPrefix(path, w)
  BY <1>2, <1>8, PrefixFromElements
<1>16. \A k \in 1 .. P + L : k > P => ix[w[k]].type = "label"
  <2> SUFFICES ASSUME NEW k \in 1 .. P + L, k > P PROVE ix[w[k]].type = "label"
    OBVIOUS
  <2>1. k \notin 1 .. P
    BY <1>2
  <2> QED
    BY <1>4, <1>10, <1>12, <2>1
<1> QED
  BY <1>1, <1>8, <1>14, <1>15, <1>16

(* A step to entries that do not extend those before rebuilds the indexes. *)
LEMMA RebuiltUnlessExtended ==
    ASSUME TypeOK, [Next]_vars, fileEntries' # <<>>, ~IsPrefix(fileEntries, fileEntries')
    PROVE  BuildIndex(fileEntries')
<1>1. fileEntries \in Seq(Line) /\ IsPrefix(fileEntries, fileEntries) /\ ~Exit
  <2>1. fileEntries \in Seq(Line) /\ Len(fileEntries) \in Nat
    BY LenProperties DEF TypeOK
  <2> QED
    BY <2>1, SubSeqFull DEF IsPrefix, Exit
<1>2. CASE AppendStep
  <2>1. PICK e \in Entry : fileEntries' = Append(fileEntries, e)
    BY <1>1, <1>2, AppendEntryEffect DEF AppendStep
  <2>2. e \in Line /\ <<e>> \in Seq(Line)
    BY DEF Line
  <2> QED
    BY <1>1, <2>1, <2>2, AppendIsConcat, PrefixOfConcat
<1>3. CASE (\E i \in Ids : Branch(i)) \/ ResetLeaf \/ UNCHANGED vars
  BY <1>1, <1>3 DEF Branch, ResetLeaf, vars
<1>4. ASSUME fileEntries' = <<Header>>, byId' = NoIndex, labelsById' = NoLabels, leafId' = Null
      PROVE  BuildIndex(fileEntries')
  <2>1. LastId(<<Header>>) = Null
    <3>1. EntryAt(<<Header>>) = {}
      BY DEF EntryAt, Header
    <3> QED
      BY <3>1 DEF LastId
  <2> QED
    BY <1>4, <2>1, IndexOfHeader, LabelsOfHeader DEF BuildIndex
<1>5. ASSUME NEW f \in Files, NewSession(f) PROVE BuildIndex(fileEntries')
  BY <1>4, <1>5 DEF NewSession, ResetTo
<1>6. CASE InMemory
  BY <1>4, <1>6 DEF InMemory, ResetTo
<1>7. ASSUME NEW es, BuildIndex(es) PROVE BuildIndex(fileEntries')
  BY <1>7 DEF BuildIndex
<1>8. ASSUME NEW f \in Files, SetSessionFile(f) PROVE BuildIndex(fileEntries')
  BY <1>1, <1>4, <1>7, <1>8 DEF SetSessionFile, ResetTo
<1>9. ASSUME NEW i \in Ids, NEW f \in Files \cup {NoFile}, CreateBranchedSession(i, f)
      PROVE  BuildIndex(fileEntries')
  BY <1>1, <1>7, <1>9 DEF CreateBranchedSession
<1>10. ASSUME NEW src \in Files, NEW f \in Files, ForkFrom(src, f) PROVE BuildIndex(fileEntries')
  BY <1>1, <1>7, <1>10 DEF ForkFrom
<1>11. CASE Quit
  BY <1>1, <1>11 DEF Quit
<1> QED
  BY <1>2, <1>3, <1>5, <1>6, <1>8, <1>9, <1>10, <1>11, StepCases

(* A fork step.                                                            *)
LEMMA ForkKeeps ==
    ASSUME TypeOK, TypeOK', IndexInSync, ParentsInv, [Next]_vars, NEW walk \in ForkedWalks,
           NEW path, path = WithoutLabels(walk), NEW fork, fork = GetBranch(byId', leafId'),
           IsPrefix(path, walk)
    PROVE  /\ IsPrefix(path, fork)
           /\ \A k \in 1 .. Len(fork) : k > Len(path) => byId'[fork[k]].type = "label"
           /\ \A k \in 1 .. Len(path) : labelsById'[path[k]] = labelsById[path[k]]
<1>1. /\ Alive /\ fileEntries' # <<>> /\ ~IsPrefix(fileEntries, fileEntries')
      /\ walk \in {GetBranch(byId, i) : i \in Ids} \ {<<>>}
      /\ \E p \in {WithoutLabels(walk)} : fileEntries' = ForkEntries(p, ForkLabels(p))
  BY DEF ForkedWalks
<1>2. PICK leaf \in Ids : walk = GetBranch(byId, leaf)
  BY <1>1
<1>3. PICK labels : labels = ForkLabels(path)
  OBVIOUS
<1>4. PICK es : es = fileEntries'
  OBVIOUS
<1>5. /\ walk # <<>> /\ es = ForkEntries(path, labels) /\ es \in Seq(Line)
  BY <1>1, <1>3, <1>4 DEF TypeOK
<1>6. ForkOf(es, path, labels)
  BY <1>1, <1>2, <1>3, <1>5, ForkIs DEF ParentsInv
<1>7. byId' = IndexOf(es) /\ labelsById' = LabelsOf(es) /\ leafId' = LastId(es)
  <2>1. BuildIndex(fileEntries')
    BY <1>1, RebuiltUnlessExtended
  <2> QED
    BY <1>4, <2>1 DEF BuildIndex
<1>8. nextId \in Nat \ {0}
  BY BoundsAssumption DEF TypeOK
<1>9. walk \in Seq(Ids) /\ IsWalk(byId, leaf, walk)
  BY <1>2, <1>5, GetBranchType, WalksIncrease
<1>10. \A k \in 1 .. Len(path) : labelsById'[path[k]] = labelsById[path[k]]
  BY <1>6, <1>7, ForkHasLabels
<1>11. fork = GetBranch(IndexOf(es), LastId(es))
  BY <1>7
<1>12. CASE path # <<>>
  <2>1. /\ IsPrefix(path, GetBranch(IndexOf(es), LastId(es)))
        /\ \A k \in 1 .. Len(GetBranch(IndexOf(es), LastId(es))) :
              k > Len(path) => IndexOf(es)[GetBranch(IndexOf(es), LastId(es))[k]].type = "label"
    BY <1>6, <1>8, <1>9, <1>12, ForkHasPath
  <2>2. /\ IsPrefix(path, fork)
        /\ \A k \in 1 .. Len(fork) : k > Len(path) => byId'[fork[k]].type = "label"
    BY <1>7, <1>11, <2>1
  <2> QED
    BY <1>10, <2>2
<1>13. CASE path = <<>>
  <2>1. Len(path) = 0 /\ Len(labels) = 0
    BY <1>6, <1>13, EmptySeq DEF ForkOf, LabelsFor
  <2>2. LastId(es) = Null
    BY <1>6, <1>8, <2>1, ForkIndex
  <2>3. fork = <<>>
    BY <1>11, <2>2, BranchOfNull
  <2>4. Len(fork) = 0
    BY <2>3, EmptySeq
  <2>5. IsPrefix(path, fork)
    BY <1>13, <2>3, EmptyIsPrefix, EmptySeq
  <2> QED
    BY <1>10, <2>4, <2>5
<1> QED
  BY <1>12, <1>13

(* When createBranchedSession forks from a path without labels between its *)
(* entries, the fork's branch is that path, entry for entry, with nothing  *)
(* but labels after it, and getLabel answers for each entry what it did.   *)
THEOREM ForksKeepPath == Spec => ForkKeepsPath
<1>1. TypeOK /\ TypeOK' /\ IndexInSync /\ ParentsInv /\ [Next]_vars =>
        (\A walk \in ForkedWalks :
         \A path \in {WithoutLabels(walk)}, fork \in {GetBranch(byId', leafId')} :
            IsPrefix(path, walk) =>
              /\ IsPrefix(path, fork)
              /\ \A k \in 1 .. Len(fork) : k > Len(path) => byId'[fork[k]].type = "label"
              /\ \A k \in 1 .. Len(path) :
                    labelsById'[path[k]] = labelsById[path[k]])
  <2> SUFFICES ASSUME TypeOK, TypeOK', IndexInSync, ParentsInv, [Next]_vars, NEW walk \in ForkedWalks,
                      NEW path \in {WithoutLabels(walk)}, NEW fork \in {GetBranch(byId', leafId')},
                      IsPrefix(path, walk)
               PROVE  /\ IsPrefix(path, fork)
                      /\ \A k \in 1 .. Len(fork) : k > Len(path) => byId'[fork[k]].type = "label"
                      /\ \A k \in 1 .. Len(path) : labelsById'[path[k]] = labelsById[path[k]]
    OBVIOUS
  <2> QED
    BY ForkKeeps
<1> QED
  BY <1>1, TypeCorrect, IndexStaysInSync, StaysSound, PTL DEF Spec, ForkKeepsPath

=============================================================================
