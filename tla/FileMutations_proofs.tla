------------------------ MODULE FileMutations_proofs ------------------------
(***************************************************************************)
(* The file mutation queue, for any number of calls, files and answers.    *)
(***************************************************************************)
EXTENDS FileMutations, TLAPS

-----------------------------------------------------------------------------
(* Types. *)

LEMMA FileTypes ==
    \A c \in MutationCalls : FileOf(c) \in RealFiles /\ PathOf[c] \in Keys /\ FileOf(c) \in Keys
BY DEF FileOf, RealFiles, MutatedPaths, Keys

LEMMA KeyTypes == ASSUME NEW c \in MutationCalls PROVE KeyOf(c) \in Keys
BY FileTypes DEF KeyOf

LEMMA TailTypes ==
    ASSUME MutationTypeOK, NEW C PROVE TailsAfter(C) \in [Keys -> MutationCalls \cup {NoCall}]
BY DEF MutationTypeOK, TailsAfter

LEMMA SettleTypes ==
    ASSUME MutationTypeOK, NEW c \in MutationCalls, NEW how \in {"ok", "error", "aborted"},
           SettleCall(c, how)
    PROVE  /\ outcome' \in [MutationCalls -> {"none", "ok", "error", "aborted"}]
           /\ queueTail' \in [Keys -> MutationCalls \cup {NoCall}]
<1>1. CASE Settled(c)
  BY <1>1 DEF SettleCall, MutationTypeOK
<1>2. CASE ~Settled(c)
  BY <1>2, TailTypes DEF SettleCall, MutationTypeOK
<1>. QED BY <1>1, <1>2

(* A file that was there stays there, and only such a file is read. *)
Present ==
    /\ \A f \in RealFiles : files[f] = Missing \/ "missing" \notin files[f]
    /\ \A c \in MutationCalls : step[c] = "read" => files[FileOf(c)] # Missing

Typed == MutationTypeOK /\ Present

LEMMA InitTyped == MutationInit => Typed
<1>. SUFFICES ASSUME MutationInit PROVE Typed
  OBVIOUS
<1>1. [c \in MutationCalls |-> PathOf[c]] \in [MutationCalls -> Keys]
  BY FileTypes
<1>2. files \in [RealFiles -> SUBSET (MutationCalls \cup Missing \cup Original \cup Mixed)]
  BY DEF MutationInit
<1>3. /\ [k \in Keys |-> NoCall] \in [Keys -> MutationCalls \cup {NoCall}]
      /\ [c \in MutationCalls |-> NoCall] \in [MutationCalls -> MutationCalls \cup {NoCall}]
      /\ [c \in MutationCalls |-> "idle"]
            \in [MutationCalls -> Inside \cup {"idle", "queued", "over", "torn", "quit"}]
      /\ [c \in MutationCalls |-> {}]
            \in [MutationCalls -> SUBSET (MutationCalls \cup Original \cup Mixed)]
      /\ [c \in MutationCalls |-> {}] \in [MutationCalls -> SUBSET MutationCalls]
      /\ [c \in MutationCalls |-> "none"] \in [MutationCalls -> {"none", "ok", "error", "aborted"}]
  OBVIOUS
<1>4. MutationTypeOK
  BY <1>1, <1>2, <1>3 DEF MutationInit, MutationTypeOK
<1>5. Present
  BY DEF MutationInit, Present, Missing, Original
<1>. QED BY <1>4, <1>5 DEF Typed

LEMMA NextTyped == Typed /\ [MutationNext]_mutationVars => Typed'
<1>. SUFFICES ASSUME Typed, [MutationNext]_mutationVars PROVE Typed'
  OBVIOUS
<1>. USE DEF Typed, MutationTypeOK, Present, Inside
<1>0. \A c \in MutationCalls : FileOf(c) \in RealFiles
  BY FileTypes
<1>1. ASSUME NEW c \in MutationCalls, ChainCall(c) PROVE Typed'
  BY <1>1, KeyTypes DEF ChainCall
<1>2. ASSUME NEW c \in MutationCalls, BeginCall(c) PROVE Typed'
  <2>1. /\ outcome' \in [MutationCalls -> {"none", "ok", "error", "aborted"}]
        /\ queueTail' \in [Keys -> MutationCalls \cup {NoCall}]
        /\ step' \in [MutationCalls -> Inside \cup {"idle", "queued", "over", "torn", "quit"}]
        /\ \A d \in MutationCalls : step'[d] = "read" => step[d] = "read"
    <3>1. CASE BatchOf[c] \in aborted
      BY <1>2, <3>1, TailTypes DEF BeginCall
    <3>2. CASE BatchOf[c] \notin aborted
      BY <1>2, <3>2 DEF BeginCall
    <3>. QED BY <3>1, <3>2
  <2>2. /\ after' = [after EXCEPT ![c] =
                       {d \in MutationCalls : FileOf(d) = FileOf(c) /\ outcome[d] = "ok"}]
        /\ disturbed' \in {disturbed \cup {FileOf(c)}, disturbed}
        /\ UNCHANGED <<files, queueKey, behind, seen, aborted>>
    BY <1>2 DEF BeginCall
  <2>3. after' \in [MutationCalls -> SUBSET MutationCalls] /\ disturbed' \subseteq RealFiles
    BY <1>0, <2>2
  <2>. QED BY <2>1, <2>2, <2>3
<1>3. ASSUME NEW c \in MutationCalls, MkdirDone(c) PROVE Typed'
  BY <1>3 DEF MkdirDone, GoOn
<1>4. ASSUME NEW c \in MutationCalls, AccessDone(c) PROVE Typed'
  <2>1. CASE files[FileOf(c)] = Missing
    BY <1>4, <2>1, SettleTypes DEF AccessDone
  <2>2. CASE files[FileOf(c)] # Missing
    BY <1>4, <2>2 DEF AccessDone, GoOn
  <2>. QED BY <2>1, <2>2
<1>5. ASSUME NEW c \in MutationCalls, ReadDone(c) PROVE Typed'
  <2>1. CASE GoOn(c, "open") /\ seen' = [seen EXCEPT ![c] = files[FileOf(c)]]
    <3>1. files[FileOf(c)] \in SUBSET (MutationCalls \cup Original \cup Mixed)
      BY <1>0, <1>5 DEF ReadDone, Missing
    <3>. QED BY <1>5, <2>1, <3>1 DEF ReadDone, GoOn
  <2>2. CASE SettleCall(c, "error") /\ step' = [step EXCEPT ![c] = "quit"] /\ UNCHANGED seen
    BY <1>5, <2>2, SettleTypes DEF ReadDone
  <2>. QED BY <1>5, <2>1, <2>2 DEF ReadDone
<1>6. ASSUME NEW c \in MutationCalls, NEW content \in SUBSET (MutationCalls \cup Original \cup Mixed),
             files' = [files EXCEPT ![FileOf(c)] = content]
      PROVE  /\ files' \in [RealFiles -> SUBSET (MutationCalls \cup Missing \cup Original \cup Mixed)]
             /\ \A f \in RealFiles : files'[f] = Missing \/ "missing" \notin files'[f]
             /\ \A f \in RealFiles : files[f] # Missing => files'[f] # Missing
  <2>1. "missing" \notin content
    BY MutationAssumption DEF Original, Mixed
  <2>. QED BY <1>0, <1>6, <2>1 DEF Missing
<1>7. ASSUME NEW c \in MutationCalls, TruncateFile(c) PROVE Typed'
  <2>1. Truncated \in SUBSET (MutationCalls \cup Original \cup Mixed)
    BY DEF Truncated
  <2>2. /\ files' \in [RealFiles -> SUBSET (MutationCalls \cup Missing \cup Original \cup Mixed)]
        /\ \A f \in RealFiles : files'[f] = Missing \/ "missing" \notin files'[f]
        /\ \A f \in RealFiles : files[f] # Missing => files'[f] # Missing
    BY <1>6, <1>7, <2>1 DEF TruncateFile
  <2>. QED BY <1>0, <1>7, <2>2 DEF TruncateFile
<1>8. ASSUME NEW c \in MutationCalls, FillFile(c) PROVE Typed'
  <2>1. PICK content \in {Changed(c)} \cup (IF files[FileOf(c)] = Truncated THEN {} ELSE {Mixed}) :
           files' = [files EXCEPT ![FileOf(c)] = content]
    BY <1>8 DEF FillFile
  <2>2. content \in SUBSET (MutationCalls \cup Original \cup Mixed)
    BY DEF Changed
  <2>3. /\ files' \in [RealFiles -> SUBSET (MutationCalls \cup Missing \cup Original \cup Mixed)]
        /\ \A f \in RealFiles : files'[f] = Missing \/ "missing" \notin files'[f]
        /\ \A f \in RealFiles : files[f] # Missing => files'[f] # Missing
    BY <1>6, <2>1, <2>2
  <2>. QED BY <1>0, <1>8, <2>3, SettleTypes DEF FillFile
<1>9. ASSUME NEW c \in MutationCalls, WriteFileFails(c) PROVE Typed'
  BY <1>9, SettleTypes DEF WriteFileFails
<1>10. ASSUME NEW b \in Batches, AbortBatch(b) PROVE Typed'
  <2>1. outcome' \in [MutationCalls -> {"none", "ok", "error", "aborted"}]
    BY <1>10 DEF AbortBatch
  <2>2. queueTail' \in [Keys -> MutationCalls \cup {NoCall}]
    BY <1>10, TailTypes DEF AbortBatch
  <2>. QED BY <1>10, <2>1, <2>2 DEF AbortBatch
<1>11. CASE UNCHANGED mutationVars
  BY <1>11 DEF mutationVars
<1>. HIDE DEF Typed
<1>. QED BY <1>1, <1>2, <1>3, <1>4, <1>5, <1>7, <1>8, <1>9, <1>10, <1>11
         DEF MutationNext, Operations, Operate

-----------------------------------------------------------------------------
(* The chains.  A call waits in the order it was chained (rank) behind the *)
(* call chained before it under its key; the last one is the key's tail.   *)

QueueOrder(n, rank) ==
    /\ n \in Nat /\ rank \in [MutationCalls -> Nat] /\ \A c \in MutationCalls : rank[c] < n
    /\ \A c, d \in MutationCalls :
          Waiting(c) /\ Waiting(d) /\ queueKey[c] = queueKey[d] /\ rank[c] = rank[d] => c = d
    /\ \A c, d \in MutationCalls :
          Waiting(c) /\ Waiting(d) /\ queueKey[c] = queueKey[d] /\ rank[c] < rank[d] =>
             /\ behind[d] \in MutationCalls /\ Waiting(behind[d])
             /\ queueKey[behind[d]] = queueKey[d]
             /\ rank[c] <= rank[behind[d]] /\ rank[behind[d]] < rank[d]
    /\ \A k \in Keys, c \in MutationCalls :
          Waiting(c) /\ queueKey[c] = k =>
             queueTail[k] \in MutationCalls /\ rank[c] <= rank[queueTail[k]]
    /\ \A k \in Keys :
          queueTail[k] \in MutationCalls => Waiting(queueTail[k]) /\ queueKey[queueTail[k]] = k

(* Whoever a call awaits has settled, if there is anybody. *)
HasTurn(c) == behind[c] # NoCall => Settled(behind[c])

Queued ==
    /\ \E n, rank : QueueOrder(n, rank)
    /\ \A c \in MutationCalls : Running(c) => HasTurn(c)
    /\ \A c \in MutationCalls : step[c] \in {"idle", "queued"} => ~Settled(c)

(* Calls in C settle, and each of them had its turn. *)
Settles(C) ==
    /\ \A c \in C : c \in MutationCalls /\ Waiting(c) /\ HasTurn(c)
    /\ queueTail' = TailsAfter(C) /\ UNCHANGED <<queueKey, behind>>
    /\ \A c \in MutationCalls :
          /\ Waiting(c)' <=> Waiting(c) /\ c \notin C
          /\ Settled(c) => Settled(c)'

LEMMA NoCallIsNone == NoCall \notin MutationCalls
BY MutationAssumption

(* A call that has its turn is the first of its chain. *)
LEMMA TurnIsFirst ==
    ASSUME NEW n, NEW rank, QueueOrder(n, rank), NEW c \in MutationCalls, Waiting(c), HasTurn(c),
           NEW d \in MutationCalls, Waiting(d), queueKey[d] = queueKey[c]
    PROVE  rank[c] <= rank[d]
<1>. SUFFICES ASSUME rank[d] < rank[c] PROVE FALSE
  BY DEF QueueOrder
<1>1. behind[c] \in MutationCalls /\ Waiting(behind[c])
  BY DEF QueueOrder
<1>. QED BY <1>1, NoCallIsNone DEF HasTurn, Waiting

LEMMA SettlesInOrder ==
    ASSUME Typed, NEW n, NEW rank, QueueOrder(n, rank), NEW C, Settles(C)
    PROVE  QueueOrder(n, rank)'
<1>. USE DEF Settles
<1>0. \A c \in MutationCalls : rank[c] \in Nat /\ queueKey[c] \in Keys
  BY DEF QueueOrder, Typed, MutationTypeOK
<1>1. ASSUME NEW c \in MutationCalls, NEW d \in MutationCalls, Waiting(c)', Waiting(d)',
             queueKey'[c] = queueKey'[d], rank[c] < rank[d]
      PROVE  /\ behind'[d] \in MutationCalls /\ Waiting(behind[d])'
             /\ queueKey'[behind'[d]] = queueKey'[d]
             /\ rank[c] <= rank[behind'[d]] /\ rank[behind'[d]] < rank[d]
  <2>1. Waiting(c) /\ Waiting(d) /\ queueKey[c] = queueKey[d]
    BY <1>1
  <2>2. /\ behind[d] \in MutationCalls /\ Waiting(behind[d])
        /\ queueKey[behind[d]] = queueKey[d]
        /\ rank[c] <= rank[behind[d]] /\ rank[behind[d]] < rank[d]
    BY <1>1, <2>1 DEF QueueOrder
  <2>3. behind[d] \notin C
    <3>. SUFFICES ASSUME behind[d] \in C PROVE FALSE
      OBVIOUS
    <3>1. rank[behind[d]] <= rank[c]
      BY <2>1, <2>2, TurnIsFirst
    <3>2. rank[c] = rank[behind[d]]
      BY <1>0, <2>2, <3>1
    <3>3. c = behind[d]
      BY <2>1, <2>2, <3>2 DEF QueueOrder
    <3>. QED BY <1>1, <3>3
  <2>4. Waiting(behind[d])'
    BY <2>2, <2>3
  <2>. QED BY <2>2, <2>4
<1>2. ASSUME NEW k \in Keys, NEW c \in MutationCalls, Waiting(c)', queueKey'[c] = k
      PROVE  queueTail'[k] \in MutationCalls /\ rank[c] <= rank[queueTail'[k]]
  <2>1. Waiting(c) /\ queueKey[c] = k /\ c \notin C
    BY <1>2
  <2>2. queueTail[k] \in MutationCalls /\ rank[c] <= rank[queueTail[k]]
    BY <2>1 DEF QueueOrder
  <2>3. queueTail[k] \notin C
    <3>. SUFFICES ASSUME queueTail[k] \in C PROVE FALSE
      OBVIOUS
    <3>1. Waiting(queueTail[k]) /\ HasTurn(queueTail[k]) /\ queueKey[queueTail[k]] = k
      BY <2>2 DEF QueueOrder
    <3>2. rank[queueTail[k]] <= rank[c]
      BY <2>1, <2>2, <3>1, TurnIsFirst
    <3>3. rank[c] = rank[queueTail[k]]
      BY <1>0, <2>2, <3>2
    <3>4. c = queueTail[k]
      BY <2>1, <2>2, <3>1, <3>3 DEF QueueOrder
    <3>. QED BY <2>1, <3>4
  <2>4. queueTail'[k] = queueTail[k]
    BY <2>3 DEF TailsAfter
  <2>. QED BY <2>2, <2>4
<1>3. ASSUME NEW k \in Keys, queueTail'[k] \in MutationCalls
      PROVE  Waiting(queueTail[k])' /\ queueKey'[queueTail'[k]] = k /\ queueTail'[k] = queueTail[k]
  <2>1. queueTail[k] \notin C /\ queueTail'[k] = queueTail[k]
    BY <1>3, NoCallIsNone DEF TailsAfter
  <2>2. Waiting(queueTail[k]) /\ queueKey[queueTail[k]] = k
    BY <1>3, <2>1 DEF QueueOrder
  <2>. QED BY <1>3, <2>1, <2>2
<1>4. \A c, d \in MutationCalls :
         Waiting(c)' /\ Waiting(d)' /\ queueKey'[c] = queueKey'[d] /\ rank[c] = rank[d] => c = d
  BY DEF QueueOrder
<1>5. n \in Nat /\ rank \in [MutationCalls -> Nat] /\ \A c \in MutationCalls : rank[c] < n
  BY DEF QueueOrder
<1>. HIDE DEF Settles
<1>. QED BY <1>1, <1>2, <1>3, <1>4, <1>5 DEF QueueOrder

(* A call that is chained comes last. *)
LEMMA ChainsInOrder ==
    ASSUME Typed, NEW n, NEW rank, QueueOrder(n, rank), NEW x \in MutationCalls, ChainCall(x),
           ~Settled(x)
    PROVE  QueueOrder(n + 1, [rank EXCEPT ![x] = n])'
<1>. DEFINE k0 == KeyOf(x)
            r  == [rank EXCEPT ![x] = n]
<1>1. /\ k0 \in Keys
      /\ queueKey' = [queueKey EXCEPT ![x] = k0] /\ behind' = [behind EXCEPT ![x] = queueTail[k0]]
      /\ queueTail' = [queueTail EXCEPT ![k0] = x] /\ step' = [step EXCEPT ![x] = "queued"]
      /\ UNCHANGED outcome /\ step[x] = "idle"
  BY KeyTypes DEF ChainCall
<1>. HIDE DEF k0
<1>2. /\ n \in Nat /\ r \in [MutationCalls -> Nat] /\ r[x] = n
      /\ \A c \in MutationCalls : r[c] < n + 1 /\ (c # x => r[c] = rank[c] /\ r[c] < n)
  BY DEF QueueOrder
<1>. HIDE DEF r
<1>3. /\ \A c \in MutationCalls \ {x} :
            /\ Waiting(c)' <=> Waiting(c)
            /\ queueKey'[c] = queueKey[c] /\ behind'[c] = behind[c]
      /\ ~Waiting(x)
      /\ queueKey'[x] = k0 /\ behind'[x] = queueTail[k0] /\ queueTail'[k0] = x
      /\ \A k \in Keys \ {k0} : queueTail'[k] = queueTail[k]
  BY <1>1 DEF Typed, MutationTypeOK, Waiting, Settled
<1>4. ASSUME NEW c \in MutationCalls, NEW d \in MutationCalls, Waiting(c)', Waiting(d)',
             queueKey'[c] = queueKey'[d], r[c] < r[d]
      PROVE  /\ behind'[d] \in MutationCalls /\ behind'[d] # x /\ Waiting(behind'[d])
             /\ queueKey'[behind'[d]] = queueKey'[d]
             /\ r[c] <= r[behind'[d]] /\ r[behind'[d]] < r[d]
  <2>1. c # x
    BY <1>2, <1>4
  <2>2. CASE d = x
    <3>1. Waiting(c) /\ queueKey[c] = k0
      BY <1>3, <1>4, <2>1, <2>2
    <3>2. queueTail[k0] \in MutationCalls /\ rank[c] <= rank[queueTail[k0]]
      BY <1>1, <3>1 DEF QueueOrder
    <3>3. Waiting(queueTail[k0]) /\ queueKey[queueTail[k0]] = k0 /\ queueTail[k0] # x
      BY <1>1, <1>3, <3>2 DEF QueueOrder
    <3>. QED BY <1>2, <1>3, <2>1, <2>2, <3>2, <3>3
  <2>3. CASE d # x
    <3>1. Waiting(c) /\ Waiting(d) /\ queueKey[c] = queueKey[d] /\ rank[c] < rank[d]
      BY <1>2, <1>3, <1>4, <2>1, <2>3
    <3>2. /\ behind[d] \in MutationCalls /\ Waiting(behind[d])
          /\ queueKey[behind[d]] = queueKey[d]
          /\ rank[c] <= rank[behind[d]] /\ rank[behind[d]] < rank[d]
      BY <3>1 DEF QueueOrder
    <3>3. behind[d] # x
      BY <1>3, <3>2
    <3>. QED BY <1>2, <1>3, <2>1, <2>3, <3>2, <3>3
  <2>. QED BY <2>2, <2>3
<1>5. ASSUME NEW c \in MutationCalls, NEW d \in MutationCalls, Waiting(c)', Waiting(d)',
             queueKey'[c] = queueKey'[d], r[c] = r[d]
      PROVE  c = d
  <2>1. c = x <=> d = x
    BY <1>2, <1>5
  <2>2. CASE c # x
    BY <1>2, <1>3, <1>5, <2>1, <2>2 DEF QueueOrder
  <2>. QED BY <2>1, <2>2
<1>6. ASSUME NEW k \in Keys, NEW c \in MutationCalls, Waiting(c)', queueKey'[c] = k
      PROVE  queueTail'[k] \in MutationCalls /\ r[c] <= r[queueTail'[k]]
  <2>1. CASE k = k0
    <3>1. \A d \in MutationCalls : r[d] \in Nat /\ r[d] < n + 1
      BY <1>2
    <3>. QED BY <1>2, <1>3, <2>1, <3>1
  <2>2. CASE k # k0
    <3>1. c # x /\ Waiting(c) /\ queueKey[c] = k
      BY <1>3, <1>6, <2>2
    <3>2. queueTail[k] \in MutationCalls /\ rank[c] <= rank[queueTail[k]]
      BY <3>1 DEF QueueOrder
    <3>3. Waiting(queueTail[k]) /\ queueTail[k] # x
      BY <1>3, <3>2 DEF QueueOrder
    <3>. QED BY <1>2, <1>3, <2>2, <3>1, <3>2, <3>3
  <2>. QED BY <2>1, <2>2
<1>7. ASSUME NEW k \in Keys, queueTail'[k] \in MutationCalls
      PROVE  /\ queueKey'[queueTail'[k]] = k
             /\ queueTail'[k] = x \/ Waiting(queueTail'[k])
  <2>1. CASE k = k0
    BY <1>3, <2>1
  <2>2. CASE k # k0
    <3>1. queueTail[k] \in MutationCalls /\ queueTail'[k] = queueTail[k]
      BY <1>3, <1>7, <2>2
    <3>2. Waiting(queueTail[k]) /\ queueKey[queueTail[k]] = k
      BY <3>1 DEF QueueOrder
    <3>. QED BY <1>3, <3>1, <3>2
  <2>. QED BY <2>1, <2>2
<1>8. \A c \in MutationCalls : Waiting(c) => step'[c] # "idle" /\ outcome'[c] = "none"
  BY <1>1 DEF Typed, MutationTypeOK, Waiting, Settled
<1>9. Waiting(x)'
  BY <1>1 DEF Typed, MutationTypeOK, Waiting, Settled
<1>10. ASSUME NEW c \in MutationCalls, NEW d \in MutationCalls, Waiting(c)', Waiting(d)',
             queueKey'[c] = queueKey'[d], r[c] < r[d]
      PROVE  Waiting(behind[d])'
  BY <1>4, <1>8, <1>10 DEF Waiting, Settled
<1>11. ASSUME NEW k \in Keys, queueTail'[k] \in MutationCalls PROVE Waiting(queueTail[k])'
  BY <1>7, <1>8, <1>9, <1>11 DEF Waiting, Settled
<1>. QED BY <1>2, <1>4, <1>5, <1>6, <1>7, <1>10, <1>11 DEF QueueOrder, r

LEMMA NobodySettles ==
    ASSUME Typed, UNCHANGED <<outcome, queueTail, queueKey, behind>>,
           \A c \in MutationCalls : step'[c] = "idle" <=> step[c] = "idle"
    PROVE  Settles({})
<1>1. TailsAfter({}) = queueTail
  BY DEF TailsAfter, Typed, MutationTypeOK
<1>. QED BY <1>1 DEF Settles, Waiting, Settled

LEMMA OneSettles ==
    ASSUME Typed, UNCHANGED <<queueKey, behind>>, NEW c \in MutationCalls, step[c] # "idle",
           HasTurn(c), NEW how \in {"ok", "error", "aborted"}, SettleCall(c, how),
           \A d \in MutationCalls : step'[d] = "idle" <=> step[d] = "idle"
    PROVE  \E C : Settles(C)
<1>1. CASE Settled(c)
  <2>1. Settles({})
    BY <1>1, NobodySettles DEF SettleCall
  <2>. QED BY <2>1
<1>2. CASE ~Settled(c)
  <2>1. queueTail' = TailsAfter({c}) /\ outcome' = [outcome EXCEPT ![c] = how]
    BY <1>2 DEF SettleCall
  <2>2. \A d \in MutationCalls : Settled(d)' <=> Settled(d) \/ d = c
    BY <2>1 DEF Settled, Typed, MutationTypeOK
  <2>3. Waiting(c)
    BY <1>2 DEF Waiting
  <2>4. Settles({c})
    BY <2>1, <2>2, <2>3 DEF Settles, Waiting
  <2>. QED BY <2>4
<1>. QED BY <1>1, <1>2

(* What a step does to the chains. *)
LEMMA NextSettles ==
    ASSUME Typed, Queued, [MutationNext]_mutationVars
    PROVE  \/ \E c \in MutationCalls : ChainCall(c)
           \/ /\ \E C : Settles(C)
              /\ \A c \in MutationCalls :
                    step'[c] \in {"idle", "queued"} =>
                       step'[c] = step[c] /\ outcome'[c] = outcome[c]
              /\ \A c \in MutationCalls : Running(c)' => Running(c) \/ MyTurn(c)
<1>. DEFINE Goal == /\ \E C : Settles(C)
                    /\ \A c \in MutationCalls :
                          step'[c] \in {"idle", "queued"} =>
                             step'[c] = step[c] /\ outcome'[c] = outcome[c]
                    /\ \A c \in MutationCalls : Running(c)' => Running(c) \/ MyTurn(c)
<1>0. \A c \in MutationCalls : AtWork(c) => step[c] # "idle" /\ (~Settled(c) => HasTurn(c))
  BY DEF Queued, Running, AtWork, Inside
<1>1. ASSUME NEW c \in MutationCalls, NEW next, next \notin {"idle", "queued"}, step' = [step EXCEPT ![c] = next],
             AtWork(c), UNCHANGED <<queueKey, behind>>,
             \/ UNCHANGED <<outcome, queueTail>>
             \/ \E how \in {"ok", "error", "aborted"} : SettleCall(c, how)
      PROVE  Goal
  <2>1. \A d \in MutationCalls : /\ step'[d] = "idle" <=> step[d] = "idle"
                                 /\ step'[d] \in {"idle", "queued"} => d # c /\ step'[d] = step[d]
                                 /\ AtWork(d)' => AtWork(d)
    BY <1>0, <1>1 DEF Typed, MutationTypeOK, AtWork
  <2>2. \A d \in MutationCalls : /\ Settled(d) => Settled(d)'
                                 /\ d # c => outcome'[d] = outcome[d]
    BY <1>1 DEF SettleCall, Settled, Typed, MutationTypeOK
  <2>3. \E C : Settles(C)
    <3>1. CASE UNCHANGED <<outcome, queueTail>>
      BY <1>1, <2>1, <3>1, NobodySettles
    <3>2. CASE Settled(c) /\ ~UNCHANGED <<outcome, queueTail>>
      BY <1>1, <3>2 DEF SettleCall
    <3>3. CASE ~Settled(c) /\ ~UNCHANGED <<outcome, queueTail>>
      <4>1. PICK how \in {"ok", "error", "aborted"} : SettleCall(c, how)
        BY <1>1, <3>3
      <4>. QED BY <1>0, <1>1, <2>1, <3>3, <4>1, OneSettles
    <3>. QED BY <3>1, <3>2, <3>3
  <2>. QED BY <2>1, <2>2, <2>3 DEF Running
<1>2. ASSUME NEW c \in MutationCalls, BeginCall(c) PROVE Goal
  <2>1. MyTurn(c) /\ step[c] = "queued" /\ HasTurn(c) /\ UNCHANGED <<queueKey, behind>>
    BY <1>2 DEF BeginCall, MyTurn, HasTurn
  <2>2. \A d \in MutationCalls : /\ step'[d] = "idle" <=> step[d] = "idle"
                                 /\ d # c => step'[d] = step[d]
    BY <1>2, <2>1 DEF BeginCall, Typed, MutationTypeOK
  <2>3. \A d \in MutationCalls : d # c => outcome'[d] = outcome[d]
    BY <1>2 DEF BeginCall, Typed, MutationTypeOK
  <2>4. \A d \in MutationCalls : Running(d)' => Running(d) \/ MyTurn(d)
    BY <2>1, <2>2, <2>3 DEF Running, AtWork, Settled
  <2>5. CASE BatchOf[c] \in aborted
    <3>1. outcome' = [outcome EXCEPT ![c] = "aborted"] /\ queueTail' = TailsAfter({c})
      BY <1>2, <2>5 DEF BeginCall
    <3>2. \A d \in MutationCalls : Settled(d)' <=> Settled(d) \/ d = c
      BY <3>1 DEF Settled, Typed, MutationTypeOK
    <3>3. Waiting(c)
      BY <2>1 DEF Queued, Waiting
    <3>4. Settles({c})
      BY <2>1, <2>2, <3>1, <3>2, <3>3 DEF Settles, Waiting
    <3>5. step'[c] = "quit"
      BY <1>2, <2>5 DEF BeginCall, Typed, MutationTypeOK
    <3>. QED BY <2>2, <2>3, <2>4, <3>4, <3>5
  <2>6. CASE BatchOf[c] \notin aborted
    <3>1. UNCHANGED <<outcome, queueTail>>
      BY <1>2, <2>6 DEF BeginCall
    <3>2. Settles({})
      BY <2>1, <2>2, <3>1, NobodySettles
    <3>3. step'[c] \notin {"idle", "queued"}
      BY <1>2, <2>6 DEF BeginCall, Typed, MutationTypeOK
    <3>. QED BY <2>2, <2>3, <2>4, <3>2, <3>3
  <2>. QED BY <2>5, <2>6
<1>3. ASSUME NEW c \in MutationCalls, MkdirDone(c) PROVE Goal
  BY <1>1, <1>3 DEF MkdirDone, GoOn, AtWork, Inside
<1>4. ASSUME NEW c \in MutationCalls, AccessDone(c) PROVE Goal
  BY <1>1, <1>4 DEF AccessDone, GoOn, AtWork, Inside
<1>5. ASSUME NEW c \in MutationCalls, ReadDone(c) PROVE Goal
  BY <1>1, <1>5 DEF ReadDone, GoOn, AtWork, Inside
<1>6. ASSUME NEW c \in MutationCalls, TruncateFile(c) PROVE Goal
  BY <1>1, <1>6 DEF TruncateFile, AtWork, Inside
<1>7. ASSUME NEW c \in MutationCalls, FillFile(c) PROVE Goal
  BY <1>1, <1>7 DEF FillFile, AtWork, Inside
<1>8. ASSUME NEW c \in MutationCalls, WriteFileFails(c) PROVE Goal
  BY <1>1, <1>8 DEF WriteFileFails, AtWork, Inside
<1>9. ASSUME NEW b \in Batches, AbortBatch(b) PROVE Goal
  <2>1. /\ queueTail' = TailsAfter(Interrupted(b)) /\ UNCHANGED <<queueKey, behind, step>>
        /\ \A c \in MutationCalls :
              outcome'[c] = IF c \in Interrupted(b) THEN "aborted" ELSE outcome[c]
    BY <1>9 DEF AbortBatch
  <2>2. \A c \in Interrupted(b) : c \in MutationCalls /\ Waiting(c) /\ HasTurn(c) /\ ~Settled(c)
    BY <1>0 DEF Interrupted, Running, Waiting
  <2>3. \A c \in MutationCalls : Settled(c)' <=> Settled(c) \/ c \in Interrupted(b)
    BY <2>1, <2>2 DEF Settled
  <2>4. Settles(Interrupted(b))
    BY <2>1, <2>2, <2>3 DEF Settles, Waiting
  <2>5. \A c \in MutationCalls : Running(c)' => Running(c)
    BY <2>1, <2>3 DEF Running, AtWork
  <2>6. \A c \in MutationCalls : step[c] \in {"idle", "queued"} => c \notin Interrupted(b)
    BY DEF Interrupted, Running, AtWork, Inside
  <2>. QED BY <2>1, <2>4, <2>5, <2>6
<1>10. CASE UNCHANGED mutationVars
  BY <1>10, NobodySettles DEF mutationVars, Running, AtWork, Settled
<1>. QED BY <1>2, <1>3, <1>4, <1>5, <1>6, <1>7, <1>8, <1>9, <1>10
         DEF MutationNext, Operations, Operate

LEMMA InitQueued == MutationInit => Queued
<1>. SUFFICES ASSUME MutationInit PROVE Queued
  OBVIOUS
<1>1. \A c \in MutationCalls : ~Waiting(c) /\ ~AtWork(c) /\ ~Settled(c)
  BY DEF MutationInit, Waiting, AtWork, Inside, Settled
<1>2. \A k \in Keys : queueTail[k] \notin MutationCalls
  BY NoCallIsNone DEF MutationInit
<1>3. QueueOrder(1, [c \in MutationCalls |-> 0])
  BY <1>1, <1>2 DEF QueueOrder
<1>. QED BY <1>1, <1>3 DEF Queued, Running

LEMMA NextQueued == Typed /\ Queued /\ [MutationNext]_mutationVars => Queued'
<1>. SUFFICES ASSUME Typed, Queued, [MutationNext]_mutationVars PROVE Queued'
  OBVIOUS
<1>1. PICK n, rank : QueueOrder(n, rank)
  BY DEF Queued
<1>2. ASSUME NEW c \in MutationCalls, ChainCall(c) PROVE Queued'
  <2>1. /\ step[c] = "idle" /\ UNCHANGED outcome
        /\ \A d \in MutationCalls : /\ d # c => step'[d] = step[d] /\ behind'[d] = behind[d]
                                    /\ step'[c] = "queued"
    BY <1>2 DEF ChainCall, Typed, MutationTypeOK
  <2>2. ~Settled(c)
    BY <2>1 DEF Queued
  <2>3. QueueOrder(n + 1, [rank EXCEPT ![c] = n])'
    BY <1>1, <1>2, <2>2, ChainsInOrder
  <2>4. \A d \in MutationCalls : Running(d)' => HasTurn(d)'
    BY <2>1 DEF Queued, Running, AtWork, Inside, HasTurn, Settled
  <2>5. \A d \in MutationCalls : step'[d] \in {"idle", "queued"} => ~Settled(d)'
    BY <2>1, <2>2 DEF Queued, Settled
  <2>. QED BY <2>3, <2>4, <2>5 DEF Queued
<1>3. ASSUME NEW C, Settles(C),
             \A c \in MutationCalls : step'[c] \in {"idle", "queued"} =>
                 step'[c] = step[c] /\ outcome'[c] = outcome[c],
             \A c \in MutationCalls : Running(c)' => Running(c) \/ MyTurn(c)
      PROVE  Queued'
  <2>1. QueueOrder(n, rank)'
    BY <1>1, <1>3, SettlesInOrder
  <2>2. \A c \in MutationCalls : Running(c)' => HasTurn(c)
    BY <1>3 DEF Queued, MyTurn, HasTurn
  <2>3. \A c \in MutationCalls : HasTurn(c) => HasTurn(c)'
    <3>1. \A c \in MutationCalls : behind[c] # NoCall => behind[c] \in MutationCalls
      BY DEF Typed, MutationTypeOK
    <3>2. /\ \A c \in MutationCalls : Settled(c) => Settled(c)'
          /\ UNCHANGED behind
      BY <1>3 DEF Settles
    <3>. QED BY <3>1, <3>2 DEF HasTurn, Settled
  <2>4. \A c \in MutationCalls : step'[c] \in {"idle", "queued"} => ~Settled(c)'
    BY <1>3 DEF Queued, Settled
  <2>. QED BY <2>1, <2>2, <2>3, <2>4 DEF Queued
<1>. QED BY <1>2, <1>3, NextSettles

(* Only one call under a key runs. *)
LEMMA OneRuns ==
    ASSUME Queued, NEW c \in MutationCalls, NEW d \in MutationCalls, queueKey[c] = queueKey[d],
           Waiting(c), Waiting(d), HasTurn(c), HasTurn(d)
    PROVE  c = d
<1>1. PICK n, rank : QueueOrder(n, rank)
  BY DEF Queued
<1>2. rank[c] <= rank[d] /\ rank[d] <= rank[c]
  BY <1>1, TurnIsFirst
<1>3. rank[c] = rank[d]
  BY <1>1, <1>2 DEF QueueOrder
<1>. QED BY <1>1, <1>3 DEF QueueOrder

-----------------------------------------------------------------------------
(* The contents.  On a file that nothing has disturbed one call is at work *)
(* at a time; when it writes, it knows what was done before it began.      *)

Alone ==
    \A c, d \in MutationCalls :
        c # d /\ FileOf(c) = FileOf(d) /\ FileOf(c) \notin disturbed => ~(AtWork(c) /\ AtWork(d))

Ends ==
    \A c \in MutationCalls :
        /\ outcome[c] = "ok" => step[c] = "over"
        /\ AtWork(c) /\ Settled(c) => outcome[c] = "aborted"

ByTool ==
    \A c \in MutationCalls :
        /\ step[c] = "mkdir" => Tool[c] = "write"
        /\ step[c] \in {"access", "read"} => Tool[c] = "edit"

Filling ==
    \A c \in MutationCalls :
        step[c] = "fill" /\ FileOf(c) \notin disturbed => files[FileOf(c)] = Truncated

(* Call d, which is over, has replaced the change of c, or torn the file. *)
Overwrites(d, c) ==
    /\ d # c /\ FileOf(d) = FileOf(c)
    /\ \/ Tool[d] = "write" /\ c \in after[d] /\ step[d] = "over"
       \/ step[d] = "torn"

Knows ==
    \A c, x \in MutationCalls :
        /\ c # x /\ FileOf(c) = FileOf(x) /\ FileOf(x) \notin disturbed
        /\ outcome[c] = "ok" /\ AtWork(x)
        =>
        /\ c \in after[x]
        /\ Tool[x] = "edit" /\ step[x] \in {"open", "fill"} =>
              c \in seen[x] \/ \E d \in MutationCalls : Overwrites(d, c)

Kept ==
    \A c \in MutationCalls : outcome[c] = "ok" /\ FileOf(c) \notin disturbed =>
        \/ c \in files[FileOf(c)]
        \/ \E d \in MutationCalls : Overwrites(d, c)
        \/ \E d \in MutationCalls : d # c /\ FileOf(d) = FileOf(c) /\ step[d] = "fill"

Contents == Alone /\ Ends /\ ByTool /\ Filling /\ Knows /\ Kept

LEMMA KeptIsEditsKept == Kept => EditsKept
BY DEF Kept, EditsKept, Overwrites

LEMMA InitContents == MutationInit => Contents
BY DEF MutationInit, Contents, Alone, Ends, ByTool, Filling, Knows, Kept, AtWork, Inside, Settled

(* Steps that change no content and let no call begin, read or succeed. *)
LEMMA QuietSteps ==
    ASSUME Contents, UNCHANGED <<files, after, seen, disturbed>>,
           \A d \in MutationCalls :
               /\ AtWork(d)' => AtWork(d)
               /\ outcome'[d] = "ok" => outcome[d] = "ok"
               /\ step[d] \in {"over", "torn"} => step'[d] = step[d]
               /\ step'[d] = "fill" => step[d] = "fill"
               /\ step[d] = "fill" => step'[d] \in {"fill", "torn"}
               /\ step'[d] = "mkdir" => step[d] = "mkdir"
               /\ step'[d] \in {"access", "read"} => step[d] \in {"access", "read"}
               /\ step'[d] = "open" => step[d] \in {"open", "mkdir"}
               /\ AtWork(d)' => outcome'[d] \in {outcome[d], "aborted"}
    PROVE  Contents'
<1>. USE DEF Contents
<1>1. Alone'
  BY DEF Alone
<1>2. Ends'
  BY DEF Ends, Settled
<1>3. ByTool'
  BY DEF ByTool
<1>4. Filling'
  BY DEF Filling
<1>5. \A c, d \in MutationCalls : Overwrites(d, c) => Overwrites(d, c)'
  BY DEF Overwrites
<1>6. Knows'
  <2>. SUFFICES ASSUME NEW c \in MutationCalls, NEW x \in MutationCalls, c # x,
                       FileOf(c) = FileOf(x), FileOf(x) \notin disturbed,
                       outcome[c] = "ok", AtWork(x)'
                PROVE  /\ c \in after[x]
                       /\ Tool[x] = "edit" /\ step'[x] \in {"open", "fill"} =>
                             c \in seen[x] \/ \E d \in MutationCalls : Overwrites(d, c)
    BY <1>5 DEF Knows
  <2>1. AtWork(x) /\ (Tool[x] = "edit" /\ step'[x] \in {"open", "fill"} => step[x] \in {"open", "fill"})
    BY DEF ByTool
  <2>. QED BY <2>1 DEF Knows
<1>7. Kept'
  <2>. SUFFICES ASSUME NEW c \in MutationCalls, outcome[c] = "ok", FileOf(c) \notin disturbed
                PROVE  \/ c \in files[FileOf(c)]
                       \/ \E d \in MutationCalls : Overwrites(d, c)'
                       \/ \E d \in MutationCalls : d # c /\ FileOf(d) = FileOf(c) /\ step'[d] = "fill"
    BY DEF Kept
  <2>1. ASSUME NEW d \in MutationCalls, d # c, FileOf(d) = FileOf(c), step[d] = "fill"
        PROVE  step'[d] = "fill" \/ Overwrites(d, c)'
    BY <2>1 DEF Overwrites
  <2>. QED BY <1>5, <2>1 DEF Kept
<1>. QED BY <1>1, <1>2, <1>3, <1>4, <1>6, <1>7

(* A call begins: if another is at work on its file, that has its turn     *)
(* under the same key, or the file is disturbed from now on.               *)
LEMMA BeginContents ==
    ASSUME Typed, Queued, Contents, NEW x \in MutationCalls, BeginCall(x) PROVE Contents'
<1>. USE DEF Contents
<1>1. /\ step[x] = "queued" /\ MyTurn(x) /\ HasTurn(x)
      /\ UNCHANGED <<files, queueKey, behind, seen, aborted>> /\ disturbed \subseteq disturbed'
      /\ after' = [after EXCEPT ![x] =
                     {d \in MutationCalls : FileOf(d) = FileOf(x) /\ outcome[d] = "ok"}]
  BY DEF BeginCall, MyTurn, HasTurn
<1>2. \A d \in MutationCalls : d # x =>
         /\ step'[d] = step[d] /\ outcome'[d] = outcome[d] /\ after'[d] = after[d]
         /\ AtWork(d)' <=> AtWork(d)
  <2>1. CASE BatchOf[x] \in aborted
    BY <1>1, <2>1 DEF BeginCall, Typed, MutationTypeOK, AtWork
  <2>2. CASE BatchOf[x] \notin aborted
    BY <1>1, <2>2 DEF BeginCall, Typed, MutationTypeOK, AtWork
  <2>. QED BY <2>1, <2>2
<1>3. /\ ~AtWork(x) /\ ~Settled(x) /\ Waiting(x)
      /\ after'[x] = {d \in MutationCalls : FileOf(d) = FileOf(x) /\ outcome[d] = "ok"}
  BY <1>1 DEF AtWork, Inside, Queued, Waiting, Typed, MutationTypeOK
<1>4. \/ step'[x] = "quit" /\ outcome'[x] = "aborted" /\ ~AtWork(x)'
      \/ /\ step'[x] = IF Tool[x] = "write" THEN "mkdir" ELSE "access"
         /\ outcome'[x] = outcome[x]
  BY <1>1 DEF BeginCall, Typed, MutationTypeOK, AtWork, Inside
<1>5. outcome'[x] # "ok" /\ outcome[x] # "ok" /\ step'[x] \notin {"open", "fill", "read", "torn"}
  BY <1>3, <1>4 DEF Settled
<1>6. \A c, d \in MutationCalls : Overwrites(d, c) => Overwrites(d, c)'
  BY <1>1, <1>2 DEF Overwrites
<1>7. ASSUME NEW d \in MutationCalls, d # x, FileOf(d) = FileOf(x), FileOf(x) \notin disturbed'
      PROVE  ~AtWork(d)
  <2>. SUFFICES ASSUME AtWork(d) PROVE FALSE
    OBVIOUS
  <2>1. ~Settled(d) /\ queueKey[d] = queueKey[x]
    BY <1>7 DEF BeginCall
  <2>2. Waiting(d) /\ HasTurn(d)
    BY <2>1 DEF Queued, Running, Waiting, AtWork, Inside
  <2>. QED BY <1>1, <1>3, <1>7, <2>1, <2>2, OneRuns
<1>8. Alone'
  BY <1>1, <1>2, <1>7 DEF Alone
<1>9. Ends'
  BY <1>2, <1>3, <1>4, <1>5 DEF Ends, Settled
<1>10. ByTool'
  <2>1. Tool[x] \in {"write", "edit"}
    BY MutationAssumption
  <2>. QED BY <1>2, <1>4, <2>1 DEF ByTool
<1>11. Filling'
  BY <1>1, <1>2, <1>5 DEF Filling
<1>12. Knows'
  <2>. SUFFICES ASSUME NEW c \in MutationCalls, NEW y \in MutationCalls, c # y,
                       FileOf(c) = FileOf(y), FileOf(y) \notin disturbed',
                       outcome'[c] = "ok", AtWork(y)'
                PROVE  /\ c \in after'[y]
                       /\ Tool[y] = "edit" /\ step'[y] \in {"open", "fill"} =>
                             c \in seen[y] \/ \E d \in MutationCalls : Overwrites(d, c)
    BY <1>1, <1>6 DEF Knows
  <2>1. c # x /\ outcome[c] = "ok" /\ FileOf(y) \notin disturbed
    BY <1>1, <1>2, <1>5
  <2>2. CASE y = x
    BY <1>3, <1>5, <2>1, <2>2
  <2>3. CASE y # x
    BY <1>2, <2>1, <2>3 DEF Knows
  <2>. QED BY <2>2, <2>3
<1>13. Kept'
  <2>. SUFFICES ASSUME NEW c \in MutationCalls, outcome'[c] = "ok", FileOf(c) \notin disturbed'
                PROVE  \/ c \in files[FileOf(c)]
                       \/ \E d \in MutationCalls : Overwrites(d, c)'
                       \/ \E d \in MutationCalls : d # c /\ FileOf(d) = FileOf(c) /\ step'[d] = "fill"
    BY <1>1 DEF Kept
  <2>1. outcome[c] = "ok" /\ FileOf(c) \notin disturbed
    BY <1>1, <1>2, <1>5
  <2>2. \A d \in MutationCalls : step[d] = "fill" => step'[d] = "fill"
    BY <1>1, <1>2
  <2>. QED BY <1>6, <2>1, <2>2 DEF Kept
<1>. QED BY <1>8, <1>9, <1>10, <1>11, <1>12, <1>13

(* An edit has read: what is not in the text was replaced before, since    *)
(* nobody else is writing the file.                                        *)
LEMMA ReadContents ==
    ASSUME Typed, Contents, NEW x \in MutationCalls, step[x] = "read", GoOn(x, "open"),
           seen' = [seen EXCEPT ![x] = files[FileOf(x)]],
           UNCHANGED <<files, after, disturbed>>
    PROVE  Contents'
<1>. USE DEF Contents
<1>1. /\ \A d \in MutationCalls : d # x => step'[d] = step[d] /\ seen'[d] = seen[d]
      /\ step'[x] \in {"open", "quit"} /\ seen'[x] = files[FileOf(x)]
      /\ UNCHANGED outcome
  BY DEF GoOn, Typed, MutationTypeOK
<1>2. AtWork(x) /\ \A d \in MutationCalls : AtWork(d)' => AtWork(d)
  BY <1>1 DEF AtWork, Inside
<1>3. \A c, d \in MutationCalls : Overwrites(d, c) => Overwrites(d, c)'
  BY <1>1 DEF Overwrites
<1>4. Alone'
  BY <1>2 DEF Alone
<1>5. Ends'
  BY <1>1, <1>2 DEF Ends, Settled
<1>6. ByTool'
  BY <1>1 DEF ByTool
<1>7. Filling'
  BY <1>1 DEF Filling
<1>8. Knows'
  <2>. SUFFICES ASSUME NEW c \in MutationCalls, NEW y \in MutationCalls, c # y,
                       FileOf(c) = FileOf(y), FileOf(y) \notin disturbed,
                       outcome[c] = "ok", AtWork(y)'
                PROVE  /\ c \in after[y]
                       /\ Tool[y] = "edit" /\ step'[y] \in {"open", "fill"} =>
                             c \in seen'[y] \/ \E d \in MutationCalls : Overwrites(d, c)
    BY <1>1, <1>3 DEF Knows
  <2>1. CASE y = x
    <3>1. \A d \in MutationCalls : FileOf(d) = FileOf(c) => step[d] # "fill"
      BY <1>2, <2>1 DEF Alone, AtWork, Inside
    <3>2. c \in files[FileOf(c)] \/ \E d \in MutationCalls : Overwrites(d, c)
      BY <3>1 DEF Kept
    <3>. QED BY <1>1, <1>2, <2>1, <3>2 DEF Knows
  <2>2. CASE y # x
    BY <1>1, <1>2, <2>2 DEF Knows
  <2>. QED BY <2>1, <2>2
<1>9. Kept'
  <2>1. \A d \in MutationCalls : step[d] = "fill" => step'[d] = "fill"
    BY <1>1
  <2>. QED BY <1>1, <1>3, <2>1 DEF Kept
<1>. QED BY <1>4, <1>5, <1>6, <1>7, <1>8, <1>9

(* A file is truncated: its content comes back when it is filled. *)
LEMMA TruncateContents ==
    ASSUME Typed, Contents, NEW x \in MutationCalls, TruncateFile(x) PROVE Contents'
<1>. USE DEF Contents
<1>1. /\ \A d \in MutationCalls : d # x => step'[d] = step[d]
      /\ step[x] = "open" /\ step'[x] = "fill"
      /\ UNCHANGED <<seen, outcome, after, disturbed>>
  BY DEF TruncateFile, Typed, MutationTypeOK
<1>2. /\ \A c \in MutationCalls : FileOf(c) = FileOf(x) => files'[FileOf(c)] = Truncated
      /\ \A c \in MutationCalls : FileOf(c) # FileOf(x) => files'[FileOf(c)] = files[FileOf(c)]
  BY FileTypes DEF TruncateFile, Typed, MutationTypeOK
<1>3. \A d \in MutationCalls : AtWork(d)' <=> AtWork(d)
  BY <1>1 DEF AtWork, Inside
<1>4. \A c, d \in MutationCalls : Overwrites(d, c) => Overwrites(d, c)'
  BY <1>1 DEF Overwrites
<1>5. Alone'
  BY <1>1, <1>3 DEF Alone
<1>6. Ends'
  BY <1>1, <1>3 DEF Ends, Settled
<1>7. ByTool'
  BY <1>1 DEF ByTool
<1>8. Filling'
  BY <1>1, <1>2 DEF Filling
<1>9. Knows'
  BY <1>1, <1>3, <1>4 DEF Knows
<1>10. Kept'
  <2>. SUFFICES ASSUME NEW c \in MutationCalls, outcome[c] = "ok", FileOf(c) \notin disturbed
                PROVE  \/ c \in files'[FileOf(c)]
                       \/ \E d \in MutationCalls : Overwrites(d, c)'
                       \/ \E d \in MutationCalls : d # c /\ FileOf(d) = FileOf(c) /\ step'[d] = "fill"
    BY <1>1 DEF Kept
  <2>1. CASE FileOf(c) = FileOf(x)
    <3>1. c # x
      BY <1>1 DEF Ends
    <3>. QED BY <1>1, <2>1, <3>1
  <2>2. CASE FileOf(c) # FileOf(x)
    <3>1. \A d \in MutationCalls : step[d] = "fill" => step'[d] = "fill"
      BY <1>1
    <3>. QED BY <1>2, <1>4, <2>2, <3>1 DEF Kept
  <2>. QED BY <2>1, <2>2
<1>. QED BY <1>5, <1>6, <1>7, <1>8, <1>9, <1>10

(* A file is filled: what an edit had not read was replaced before, and a  *)
(* write replaces what was done before it began.                           *)
LEMMA FillContents ==
    ASSUME Typed, Contents, NEW x \in MutationCalls, FillFile(x) PROVE Contents'
<1>. USE DEF Contents
<1>1. PICK content \in {Changed(x)} \cup (IF files[FileOf(x)] = Truncated THEN {} ELSE {Mixed}) :
         files' = [files EXCEPT ![FileOf(x)] = content]
  BY DEF FillFile
<1>2. /\ \A d \in MutationCalls : d # x => step'[d] = step[d] /\ outcome'[d] = outcome[d]
      /\ step[x] = "fill" /\ step'[x] = "over" /\ AtWork(x)
      /\ UNCHANGED <<seen, after, disturbed>>
  <2>1. \A d \in MutationCalls : d # x => outcome'[d] = outcome[d]
    BY DEF FillFile, SettleCall, Typed, MutationTypeOK
  <2>. QED BY <2>1 DEF FillFile, Typed, MutationTypeOK, AtWork, Inside
<1>3. /\ \A c \in MutationCalls : FileOf(c) = FileOf(x) => files'[FileOf(c)] = content
      /\ \A c \in MutationCalls : FileOf(c) # FileOf(x) => files'[FileOf(c)] = files[FileOf(c)]
  BY <1>1, FileTypes DEF Typed, MutationTypeOK
<1>4. ~AtWork(x)' /\ \A d \in MutationCalls : AtWork(d)' => AtWork(d)
  BY <1>2 DEF AtWork, Inside
<1>5. \A c, d \in MutationCalls : Overwrites(d, c) => Overwrites(d, c)'
  BY <1>2 DEF Overwrites
<1>6. Alone'
  BY <1>2, <1>4 DEF Alone
<1>7. Ends'
  BY <1>2, <1>4 DEF Ends, Settled
<1>8. ByTool'
  BY <1>2 DEF ByTool
<1>9. Filling'
  <2>. SUFFICES ASSUME NEW c \in MutationCalls, step'[c] = "fill", FileOf(c) \notin disturbed
                PROVE  files'[FileOf(c)] = Truncated
    BY <1>2 DEF Filling
  <2>1. c # x /\ AtWork(c) /\ step[c] = "fill"
    BY <1>2 DEF AtWork, Inside
  <2>2. FileOf(c) # FileOf(x)
    BY <1>2, <2>1 DEF Alone
  <2>. QED BY <1>3, <2>1, <2>2 DEF Filling
<1>10. Knows'
  <2>. SUFFICES ASSUME NEW c \in MutationCalls, NEW y \in MutationCalls, c # y,
                       FileOf(c) = FileOf(y), FileOf(y) \notin disturbed,
                       outcome'[c] = "ok", AtWork(y)'
                PROVE  /\ c \in after[y]
                       /\ Tool[y] = "edit" /\ step'[y] \in {"open", "fill"} =>
                             c \in seen[y] \/ \E d \in MutationCalls : Overwrites(d, c)
    BY <1>2, <1>5 DEF Knows
  <2>1. y # x /\ AtWork(y)
    BY <1>4
  <2>2. c # x
    BY <1>2, <2>1 DEF Alone
  <2>. QED BY <1>2, <2>1, <2>2 DEF Knows
<1>11. Kept'
  <2>. SUFFICES ASSUME NEW c \in MutationCalls, outcome'[c] = "ok", FileOf(c) \notin disturbed
                PROVE  \/ c \in files'[FileOf(c)]
                       \/ \E d \in MutationCalls : Overwrites(d, c)'
                       \/ \E d \in MutationCalls : d # c /\ FileOf(d) = FileOf(c) /\ step'[d] = "fill"
    BY <1>2 DEF Kept
  <2>1. CASE FileOf(c) # FileOf(x)
    <3>1. \A d \in MutationCalls : FileOf(d) = FileOf(c) /\ step[d] = "fill" => step'[d] = "fill"
      BY <1>2, <2>1
    <3>2. outcome[c] = "ok"
      BY <1>2, <2>1
    <3>. QED BY <1>3, <1>5, <2>1, <3>1, <3>2 DEF Kept
  <2>2. CASE FileOf(c) = FileOf(x)
    <3>1. files'[FileOf(c)] = Changed(x)
      BY <1>2, <1>3, <2>2 DEF Filling
    <3>2. CASE c = x
      BY <3>1, <3>2 DEF Changed
    <3>3. CASE c # x
      <4>1. /\ c \in after[x]
            /\ Tool[x] = "edit" => c \in seen[x] \/ \E d \in MutationCalls : Overwrites(d, c)
        BY <1>2, <2>2, <3>3 DEF Knows
      <4>2. CASE Tool[x] = "write"
        BY <1>2, <2>2, <3>3, <4>1, <4>2 DEF Overwrites
      <4>3. CASE Tool[x] = "edit"
        BY <1>5, <3>1, <4>1, <4>3 DEF Changed
      <4>. QED BY <4>2, <4>3, MutationAssumption
    <3>. QED BY <3>2, <3>3
  <2>. QED BY <2>1, <2>2
<1>. QED BY <1>6, <1>7, <1>8, <1>9, <1>10, <1>11

LEMMA NextContents ==
    Typed /\ Queued /\ Contents /\ [MutationNext]_mutationVars => Contents'
<1>. SUFFICES ASSUME Typed, Queued, Contents, [MutationNext]_mutationVars PROVE Contents'
  OBVIOUS
<1>1. ASSUME NEW c \in MutationCalls, SettleCall(c, "error")
      PROVE  \A d \in MutationCalls : /\ d # c => outcome'[d] = outcome[d]
                                      /\ outcome'[d] = "ok" => outcome[d] = "ok"
  BY <1>1 DEF SettleCall, Typed, MutationTypeOK
<1>2. ASSUME NEW c \in MutationCalls, ChainCall(c) PROVE Contents'
  <2>1. /\ \A d \in MutationCalls : d # c => step'[d] = step[d]
        /\ step[c] = "idle" /\ step'[c] = "queued"
        /\ UNCHANGED <<files, after, seen, disturbed, outcome>>
    BY <1>2 DEF ChainCall, Typed, MutationTypeOK
  <2>. QED BY <2>1, QuietSteps DEF AtWork, Inside
<1>3. ASSUME NEW c \in MutationCalls, MkdirDone(c) PROVE Contents'
  <2>1. /\ \A d \in MutationCalls : d # c => step'[d] = step[d]
        /\ step[c] = "mkdir" /\ step'[c] \in {"open", "quit"}
        /\ UNCHANGED <<files, after, seen, disturbed, outcome>>
    BY <1>3 DEF MkdirDone, GoOn, Typed, MutationTypeOK
  <2>. QED BY <2>1, QuietSteps DEF AtWork, Inside
<1>4. ASSUME NEW c \in MutationCalls, AccessDone(c) PROVE Contents'
  <2>1. CASE files[FileOf(c)] = Missing
    <3>1. /\ \A d \in MutationCalls : d # c => step'[d] = step[d]
          /\ step[c] = "access" /\ step'[c] = "quit" /\ SettleCall(c, "error")
          /\ UNCHANGED <<files, after, seen, disturbed>>
      BY <1>4, <2>1 DEF AccessDone, Typed, MutationTypeOK
    <3>. QED BY <1>1, <3>1, QuietSteps DEF AtWork, Inside
  <2>2. CASE files[FileOf(c)] # Missing
    <3>1. /\ \A d \in MutationCalls : d # c => step'[d] = step[d]
          /\ step[c] = "access" /\ step'[c] \in {"read", "quit"}
          /\ UNCHANGED <<files, after, seen, disturbed, outcome>>
      BY <1>4, <2>2 DEF AccessDone, GoOn, Typed, MutationTypeOK
    <3>. QED BY <3>1, QuietSteps DEF AtWork, Inside
  <2>. QED BY <2>1, <2>2
<1>5. ASSUME NEW c \in MutationCalls, ReadDone(c) PROVE Contents'
  <2>1. CASE GoOn(c, "open") /\ seen' = [seen EXCEPT ![c] = files[FileOf(c)]]
    BY <1>5, <2>1, ReadContents DEF ReadDone
  <2>2. CASE SettleCall(c, "error") /\ step' = [step EXCEPT ![c] = "quit"] /\ UNCHANGED seen
    <3>1. /\ \A d \in MutationCalls : d # c => step'[d] = step[d]
          /\ step[c] = "read" /\ step'[c] = "quit"
          /\ UNCHANGED <<files, after, seen, disturbed>>
      BY <1>5, <2>2 DEF ReadDone, Typed, MutationTypeOK
    <3>. QED BY <1>1, <2>2, <3>1, QuietSteps DEF AtWork, Inside
  <2>. QED BY <1>5, <2>1, <2>2 DEF ReadDone
<1>6. ASSUME NEW c \in MutationCalls, WriteFileFails(c) PROVE Contents'
  <2>1. /\ \A d \in MutationCalls : d # c => step'[d] = step[d]
        /\ \/ step[c] = "open" /\ step'[c] = "quit"
           \/ step[c] = "fill" /\ step'[c] = "torn"
        /\ SettleCall(c, "error")
        /\ UNCHANGED <<files, after, seen, disturbed>>
    BY <1>6 DEF WriteFileFails, Typed, MutationTypeOK
  <2>. QED BY <1>1, <2>1, QuietSteps DEF AtWork, Inside
<1>7. ASSUME NEW b \in Batches, AbortBatch(b) PROVE Contents'
  <2>1. /\ UNCHANGED <<step, files, after, seen, disturbed>>
        /\ \A d \in MutationCalls : outcome'[d] \in {outcome[d], "aborted"}
    BY <1>7 DEF AbortBatch
  <2>. QED BY <2>1, QuietSteps DEF AtWork, Inside
<1>8. CASE UNCHANGED mutationVars
  BY <1>8, QuietSteps DEF mutationVars, AtWork, Inside
<1>. QED BY <1>2, <1>3, <1>4, <1>5, <1>6, <1>7, <1>8, BeginContents, TruncateContents, FillContents
         DEF MutationNext, Operations, Operate

-----------------------------------------------------------------------------
(* Every variable keeps its type, whatever the calls and the aborts do. *)
THEOREM MutationTypesCorrect == MutationSpec => []MutationTypeOK
<1>1. Typed => MutationTypeOK
  BY DEF Typed
<1>. QED BY <1>1, InitTyped, NextTyped, PTL DEF MutationSpec

(* What a call of write or edit has reported as done stays done, for any   *)
(* number of calls, files, names and answers, and wherever an abort or a   *)
(* failure falls: the change is in the file, or a write that began later   *)
(* has replaced it, or a write tore the file.                              *)
THEOREM ReportedEditsStay == MutationSpec => []EditsKept
<1>1. MutationSpec => [](Typed /\ Queued)
  <2>1. MutationInit => Typed /\ Queued
    BY InitTyped, InitQueued
  <2>2. Typed /\ Queued /\ [MutationNext]_mutationVars => (Typed /\ Queued)'
    BY NextTyped, NextQueued
  <2>. QED BY <2>1, <2>2, PTL DEF MutationSpec
<1>2. MutationInit => Contents
  BY InitContents
<1>3. Typed /\ Queued /\ Contents /\ [MutationNext]_mutationVars => Contents'
  BY NextContents
<1>4. Contents => EditsKept
  BY KeptIsEditsKept DEF Contents
<1>. QED BY <1>1, <1>2, <1>3, <1>4, PTL DEF MutationSpec
=============================================================================
